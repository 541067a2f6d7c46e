-------------------------- MODULE RequestPipeline_proof --------------------------
(***************************************************************************)
(* What RequestPipeline promises holds for any middlewares of the server   *)
(* and of a route, whatever they do before they return or panic.           *)
(***************************************************************************)
EXTENDS RequestPipeline, SequenceTheorems, FiniteSetTheorems, TLAPS

-------------------------------------------------------------------------------
\* The call stack.

Runs(f, ctx, at) == f.frame = "run" /\ f.ctx = ctx /\ f.at = at

\* A middleware is called by a Run and the handler by the Run of a route; a Run that
\* has called somebody is behind the call in its loop.
Shape(s) ==
  \A k \in 1..Len(s) :
    /\ s[k].frame = "handler" => k > 1 /\ Runs(s[k - 1], "route", "tail")
    /\ s[k].frame = "mw" => k > 1 /\ s[k - 1].frame = "run"
    /\ k < Len(s) => ~(s[k].frame = "run" /\ s[k].at = "loop")

BuiltinFrame(i, acts) == [frame |-> "mw", ctx |-> "global", i |-> i, acts |-> acts]

\* The first frames: the Run of ServeHTTP calls logger, which calls a Run that calls
\* recovery.  On its way back, with recovery gone, the request is answered: this keeps
\* the loops of the two Runs from calling anybody without recovery below.
Above(k) == Len(stack) > k \/ Written

Floor ==
  LET n == Len(stack) IN
  /\ n = 0 => Written
  /\ n \in {1, 3} => stack[n] = Run("global", IF Written THEN "called" ELSE "loop")
  /\ n > 1 => stack[1] = Run("global", "called")
  /\ n > 1 => stack[2] = BuiltinFrame(1, IF Above(2) THEN 1 ELSE 0)
  /\ n > 3 => stack[3] = Run("global", "called")
  /\ n > 3 => stack[4] = BuiltinFrame(2, IF Above(4) THEN 1 ELSE 0)
  /\ n \in 1..3 /\ ~Written => index["global"] = (IF n = 3 THEN 1 ELSE 0)

-------------------------------------------------------------------------------
\* The order of the calls.

\* The last middleware that may have been called: the one at index, which counts from 0,
\* has been unless a loop is about to call it.
Reached(ctx) ==
  index[ctx] + (IF Running /\ Runs(Top, ctx, "loop") THEN 0 ELSE 1)

NothingBehind ==
  \A ctx \in Ctx : \A j \in Positions(ctx) : entered[ctx][j] > 0 => j <= Reached(ctx)

\* While nothing is written no index was skipped.
NothingSkipped ==
  ~Written => \A j \in Positions("global") : j <= Reached("global") => entered["global"][j] > 0

AllGlobals == \A j \in Positions("global") : entered["global"][j] > 0

OfRoute(f) == f.frame = "handler" \/ f.ctx = "route"

RouteLast == AllGlobals \/ \A k \in 1..Len(stack) : ~OfRoute(stack[k])

\* Whoever called the handler answers before the loop of any Run goes on.
HandledOK ==
  \/ swallowed
  \/ handled = 0
  \/ handled = 1 /\ (Written \/ (Running /\ (Top.frame = "handler" \/ Runs(Top, "route", "tail"))))

-------------------------------------------------------------------------------
TypeOK ==
  /\ stack \in Seq(Frame)
  /\ index \in [Ctx -> Nat]
  /\ status \in Nat /\ wire \in Nat
  /\ entered = [ctx \in Ctx |-> entered[ctx]]
  /\ \A ctx \in Ctx : entered[ctx] \in [Positions(ctx) -> 0..2]
  /\ handled \in 0..2
  /\ <<bound, swallowed, escaped>> \in BOOLEAN \X BOOLEAN \X BOOLEAN

Answers == (Written <=> wire # 0) /\ PanicContained

IInv ==
  /\ TypeOK /\ Shape(stack) /\ Floor /\ Answers
  /\ NothingBehind /\ NothingSkipped /\ RouteLast /\ HandledOK

-------------------------------------------------------------------------------
\* What the moves on the stack leave.

LEMMA CutIs ==
  ASSUME NEW S, NEW s \in Seq(S), NEW m \in 0..Len(s)
  PROVE  /\ SubSeq(s, 1, m) \in Seq(S)
         /\ Len(SubSeq(s, 1, m)) = m
         /\ \A k \in 1..m : SubSeq(s, 1, m)[k] = s[k]
<1>1. \A k \in 1..m : s[k] \in S
  OBVIOUS
<1>. QED BY <1>1, SubSeqProperties

LEMMA PopIs ==
  ASSUME NEW S, NEW s \in Seq(S), s # <<>>
  PROVE  /\ Len(s) \in Nat \ {0}
         /\ Front(s) \in Seq(S)
         /\ Len(Front(s)) = Len(s) - 1
         /\ \A k \in 1..(Len(s) - 1) : Front(s)[k] = s[k]
<1>1. Len(s) \in Nat \ {0}
  BY EmptySeq
<1>2. Len(s) - 1 \in 0..Len(s)
  BY <1>1
<1>. QED BY <1>1, <1>2, CutIs DEF Front

LEMMA ReplaceIs ==
  ASSUME NEW S, NEW s \in Seq(S), s # <<>>, NEW f \in S
  PROVE  /\ Append(Front(s), f) \in Seq(S)
         /\ Len(Append(Front(s), f)) = Len(s)
         /\ Append(Front(s), f)[Len(s)] = f
         /\ \A k \in 1..(Len(s) - 1) : Append(Front(s), f)[k] = s[k]
<1>. DEFINE t == Front(s)
<1>1. Len(s) \in Nat \ {0} /\ t \in Seq(S) /\ Len(t) = Len(s) - 1
      /\ \A k \in 1..(Len(s) - 1) : t[k] = s[k]
  BY PopIs
<1>. HIDE DEF t
<1>. QED BY <1>1, AppendProperties DEF t

LEMMA PushIs ==
  ASSUME NEW S, NEW s \in Seq(S), s # <<>>, NEW f \in S, NEW g \in S
  PROVE  LET t == Append(Append(Front(s), f), g) IN
         /\ t \in Seq(S)
         /\ Len(t) = Len(s) + 1
         /\ t[Len(s)] = f /\ t[Len(s) + 1] = g
         /\ \A k \in 1..(Len(s) - 1) : t[k] = s[k]
<1>. DEFINE u == Append(Front(s), f)
<1>1. Len(s) \in Nat \ {0} /\ u \in Seq(S) /\ Len(u) = Len(s) /\ u[Len(s)] = f
      /\ \A k \in 1..(Len(s) - 1) : u[k] = s[k]
  BY PopIs, ReplaceIs
<1>. HIDE DEF u
<1>2. Append(u, g) \in Seq(S) /\ Len(Append(u, g)) = Len(u) + 1 /\ Append(u, g)[Len(u) + 1] = g
      /\ \A k \in 1..Len(u) : Append(u, g)[k] = u[k]
  BY <1>1, AppendProperties
<1>. QED BY <1>1, <1>2 DEF u

\* A set of places in the stack has a highest one.
LEMMA Highest ==
  ASSUME NEW n \in Nat, NEW C \in SUBSET (1..n), C # {}
  PROVE  Max(C) \in C /\ \A k \in C : k <= Max(C)
<1>. DEFINE T == {k..n : k \in C}
<1>1. T \subseteq FiniteSubsetsOf(1..n)
  <2>. SUFFICES ASSUME NEW k \in C PROVE k..n \in FiniteSubsetsOf(1..n)
    OBVIOUS
  <2>1. IsFiniteSet(k..n) /\ k..n \subseteq 1..n
    BY FS_Interval
  <2>. QED BY <2>1 DEF FiniteSubsetsOf
<1>2. T # {}
  OBVIOUS
<1>3. PICK x \in T : \A y \in T : <<y, x>> \notin StrictSubsetOrdering(1..n)
  BY <1>1, <1>2, FS_StrictSubsetOrderingWellFounded, WFMin
<1>4. PICK k \in C : x = k..n
  BY <1>3
<1>5. \A j \in C : k >= j
  <2>. SUFFICES ASSUME NEW j \in C, j > k PROVE FALSE
    OBVIOUS
  <2>1. j..n \subseteq k..n /\ k \in k..n /\ k \notin j..n
    OBVIOUS
  <2>2. <<j..n, k..n>> \in StrictSubsetOrdering(1..n)
    BY <2>1 DEF StrictSubsetOrdering
  <2>. QED BY <1>3, <1>4, <2>2
<1>. QED BY <1>5 DEF Max


-------------------------------------------------------------------------------
\* The frames and the chains.

LEMMA Chains ==
  /\ \A ctx \in Ctx : Len(Chain[ctx]) \in Nat /\ Positions(ctx) = 1..Len(Chain[ctx])
  /\ Len(Chain["global"]) >= 2
  /\ Chain["global"][1] = "logger" /\ Chain["global"][2] = "recovery"
<1>. DEFINE b == <<"logger", "recovery">>
            Kinds == {"logger", "recovery", "user", "guard"}
<1>1. b \in Seq(Kinds) /\ Len(b) = 2 /\ b[1] = "logger" /\ b[2] = "recovery"
  OBVIOUS
<1>2. {"user", "guard"} \subseteq Kinds
  OBVIOUS
<1>. HIDE DEF b, Kinds
<1>3. UserChain \in Seq(Kinds) /\ RouteChain \in Seq(Kinds)
  BY <1>2, PipelineAssumption, SeqMonotonic
<1>4. /\ Len(UserChain) \in Nat /\ Len(RouteChain) \in Nat
      /\ Len(b \o UserChain) = 2 + Len(UserChain)
      /\ \A i \in 1..(2 + Len(UserChain)) : i <= 2 => (b \o UserChain)[i] = b[i]
  <2>1. Len(UserChain) \in Nat /\ Len(RouteChain) \in Nat
    BY <1>3, LenProperties
  <2>2. /\ Len(b \o UserChain) = Len(b) + Len(UserChain)
        /\ \A i \in 1..(Len(b) + Len(UserChain)) :
             (b \o UserChain)[i] = IF i <= Len(b) THEN b[i] ELSE UserChain[i - Len(b)]
    BY <1>1, <1>3, ConcatProperties
  <2>. QED BY <1>1, <2>1, <2>2
<1>5. Chain = [global |-> b \o UserChain, route |-> RouteChain]
  BY DEF Chain, b
<1>. QED BY <1>1, <1>4, <1>5 DEF Ctx, Positions

LEMMA FrameIs ==
  ASSUME NEW f \in Frame
  PROVE  /\ f.frame \in {"run", "mw", "handler"}
         /\ f.frame = "run" => f.ctx \in Ctx /\ f.at \in {"loop", "called", "tail"} /\ f = Run(f.ctx, f.at)
         /\ f.frame = "mw" => /\ f.ctx \in Ctx /\ f.i \in Positions(f.ctx) /\ f.acts \in 0..MaxActs
                              /\ f = [frame |-> "mw", ctx |-> f.ctx, i |-> f.i, acts |-> f.acts]
         /\ f.frame = "handler" => f.acts \in 0..MaxActs /\ f = [frame |-> "handler", acts |-> f.acts]
<1>1. CASE f \in RunFrame
  BY <1>1 DEF RunFrame, Run
<1>2. CASE f \in MwFrame
  <2>1. PICK ctx \in Ctx : f \in [frame : {"mw"}, ctx : {ctx}, i : Positions(ctx), acts : 0..MaxActs]
    BY <1>2 DEF MwFrame
  <2>. QED BY <2>1
<1>3. CASE f \in [frame : {"handler"}, acts : 0..MaxActs]
  BY <1>3
<1>. QED BY <1>1, <1>2, <1>3 DEF Frame

LEMMA FramesAre ==
  /\ \A ctx \in Ctx : \A at \in {"loop", "called", "tail"} :
       Run(ctx, at) \in Frame /\ Runs(Run(ctx, at), ctx, at)
  /\ \A ctx \in Ctx : \A i \in Positions(ctx) : \A a \in 0..MaxActs :
       [frame |-> "mw", ctx |-> ctx, i |-> i, acts |-> a] \in Frame
  /\ \A a \in 0..MaxActs : [frame |-> "handler", acts |-> a] \in Frame
<1>1. \A ctx \in Ctx : \A at \in {"loop", "called", "tail"} :
        Run(ctx, at) \in Frame /\ Runs(Run(ctx, at), ctx, at)
  BY DEF Run, Runs, Frame, RunFrame
<1>2. ASSUME NEW ctx \in Ctx, NEW i \in Positions(ctx), NEW a \in 0..MaxActs
      PROVE  [frame |-> "mw", ctx |-> ctx, i |-> i, acts |-> a] \in Frame
  <2>1. [frame |-> "mw", ctx |-> ctx, i |-> i, acts |-> a]
          \in [frame : {"mw"}, ctx : {ctx}, i : Positions(ctx), acts : 0..MaxActs]
    OBVIOUS
  <2>. QED BY <2>1 DEF Frame, MwFrame
<1>3. \A a \in 0..MaxActs : [frame |-> "handler", acts |-> a] \in Frame
  BY DEF Frame
<1>. QED BY <1>1, <1>2, <1>3

\* Who has done something is the same frame with one more act.
LEMMA ActedIs ==
  ASSUME NEW f \in Frame, f.frame # "run", f.acts < MaxActs
  PROVE  LET g == [f EXCEPT !.acts = @ + 1] IN
         /\ g \in Frame /\ g.frame = f.frame /\ g.acts = f.acts + 1
         /\ f.frame = "mw" => g = [frame |-> "mw", ctx |-> f.ctx, i |-> f.i, acts |-> f.acts + 1]
<1>1. CASE f.frame = "mw"
  <2>1. f = [frame |-> "mw", ctx |-> f.ctx, i |-> f.i, acts |-> f.acts]
    BY <1>1, FrameIs
  <2>2. [f EXCEPT !.acts = @ + 1] = [frame |-> "mw", ctx |-> f.ctx, i |-> f.i, acts |-> f.acts + 1]
    BY <2>1
  <2>3. f.ctx \in Ctx /\ f.i \in Positions(f.ctx) /\ f.acts + 1 \in 0..MaxActs
    BY <1>1, FrameIs, PipelineAssumption
  <2>. QED BY <1>1, <2>2, <2>3, FramesAre
<1>2. CASE f.frame = "handler"
  <2>1. f = [frame |-> "handler", acts |-> f.acts] /\ f.acts + 1 \in 0..MaxActs
    BY <1>2, FrameIs, PipelineAssumption
  <2>2. [f EXCEPT !.acts = @ + 1] = [frame |-> "handler", acts |-> f.acts + 1]
    BY <2>1
  <2>. QED BY <1>2, <2>1, <2>2, FramesAre
<1>. QED BY <1>1, <1>2, FrameIs

-------------------------------------------------------------------------------
\* What the moves do to the shape of the stack.

LEMMA CutKeepsShape ==
  ASSUME NEW s \in Seq(Frame), Shape(s), NEW m \in 0..Len(s)
  PROVE  Shape(SubSeq(s, 1, m))
<1>. DEFINE t == SubSeq(s, 1, m)
<1>1. Len(t) = m /\ \A k \in 1..m : t[k] = s[k]
  BY CutIs
<1>. HIDE DEF t
<1>2. Shape(t)
  BY <1>1 DEF Shape
<1>. QED BY <1>2 DEF t

LEMMA PopKeepsShape ==
  ASSUME NEW s \in Seq(Frame), Shape(s), s # <<>>
  PROVE  Shape(Front(s))
<1>1. Len(s) - 1 \in 0..Len(s)
  BY PopIs
<1>. QED BY <1>1, CutKeepsShape DEF Front

\* The running frame goes on.
LEMMA ReplaceKeepsShape ==
  ASSUME NEW s \in Seq(Frame), Shape(s), s # <<>>, NEW f \in Frame, f.frame = Last(s).frame
  PROVE  Shape(Append(Front(s), f))
<1>. DEFINE t == Append(Front(s), f)
<1>1. Len(s) \in Nat \ {0} /\ Len(t) = Len(s) /\ t[Len(s)] = f
      /\ \A k \in 1..(Len(s) - 1) : t[k] = s[k]
  BY PopIs, ReplaceIs
<1>. HIDE DEF t
<1>2. Shape(t)
  BY <1>1 DEF Shape, Last, Runs
<1>. QED BY <1>2 DEF t

\* The running frame calls somebody.
LEMMA PushKeepsShape ==
  ASSUME NEW s \in Seq(Frame), Shape(s), s # <<>>, NEW f \in Frame, NEW g \in Frame,
         f.frame = Last(s).frame, ~(f.frame = "run" /\ f.at = "loop"),
         g.frame = "handler" => Runs(f, "route", "tail"),
         g.frame = "mw" => f.frame = "run"
  PROVE  Shape(Append(Append(Front(s), f), g))
<1>. DEFINE t == Append(Append(Front(s), f), g)
<1>1. /\ Len(s) \in Nat \ {0} /\ Len(t) = Len(s) + 1
      /\ t[Len(s)] = f /\ t[Len(s) + 1] = g
      /\ \A k \in 1..(Len(s) - 1) : t[k] = s[k]
  BY PopIs, PushIs
<1>. HIDE DEF t
<1>2. Shape(t)
  BY <1>1 DEF Shape, Last, Runs
<1>. QED BY <1>2 DEF t

-------------------------------------------------------------------------------
\* The running frame and the frames below.

LEMMA TopIs ==
  ASSUME TypeOK, Running
  PROVE  Len(stack) \in Nat \ {0} /\ Top = stack[Len(stack)] /\ Top \in Frame
<1>1. stack \in Seq(Frame) /\ stack # <<>>
  BY DEF TypeOK, Running
<1>2. Len(stack) \in Nat \ {0}
  BY <1>1, EmptySeq
<1>. QED BY <1>1, <1>2, ElementOfSeq DEF Top, Last

\* Below the fifth frame there is no user code, no loop ends and nobody is answered.
LEMMA High ==
  ASSUME IInv, InUserCode \/ InRun("tail") \/ LoopDone("global") \/ LoopDone("route")
  PROVE  Running /\ Len(stack) >= 5
<1>1. Running
  BY DEF InUserCode, InKind, InRun, LoopDone
<1>2. Len(stack) \in Nat \ {0} /\ Top = stack[Len(stack)] /\ Top \in Frame
  BY <1>1, TopIs DEF IInv
<1>3. ASSUME Len(stack) \in {1, 3} PROVE FALSE
  <2>1. /\ Top = Run("global", IF Written THEN "called" ELSE "loop")
        /\ ~Written => index["global"] < 2
    BY <1>2, <1>3 DEF IInv, Floor
  <2>2. Top.frame = "run" /\ Top.at # "tail" /\ (Top.at = "loop" => ~Written /\ Top.ctx = "global")
    BY <2>1 DEF Run
  <2>3. index["global"] \in Nat
    BY DEF IInv, TypeOK, Ctx
  <2>4. ~LoopDone("global")
    BY <2>1, <2>2, <2>3, Chains DEF LoopDone, InRun
  <2>. QED BY <2>2, <2>4 DEF InUserCode, InKind, InRun, LoopDone
<1>4. ASSUME Len(stack) \in {2, 4} PROVE FALSE
  <2>1. Top.frame = "mw" /\ Top.ctx = "global" /\ Top.i \in {1, 2}
    <3>1. CASE Len(stack) = 2
      BY <1>2, <3>1 DEF IInv, Floor, BuiltinFrame
    <3>2. CASE Len(stack) = 4
      BY <1>2, <3>2 DEF IInv, Floor, BuiltinFrame
    <3>. QED BY <1>4, <3>1, <3>2
  <2>2. Chain[Top.ctx][Top.i] \in {"logger", "recovery"}
    BY <2>1, Chains
  <2>. QED BY <2>1, <2>2 DEF InUserCode, InKind, InRun, LoopDone
<1>5. Len(stack) \notin {1, 3} /\ Len(stack) \notin {2, 4}
  BY <1>3, <1>4
<1>6. \A n \in Nat \ {0} : n \notin {1, 3} /\ n \notin {2, 4} => n >= 5
  OBVIOUS
<1>. QED BY <1>1, <1>2, <1>5, <1>6

LEMMA FloorFar ==
  ASSUME IInv, Len(stack) >= 5, Len(stack') \in Nat,
         Len(stack') >= 5 \/ (Len(stack') = 4 /\ Written'),
         \A k \in 1..4 : stack'[k] = stack[k]
  PROVE  Floor'
<1>1. Len(stack) \in Nat
  BY LenProperties DEF IInv, TypeOK
<1>2. /\ stack[1] = Run("global", "called") /\ stack[2] = BuiltinFrame(1, 1)
      /\ stack[3] = Run("global", "called") /\ stack[4] = BuiltinFrame(2, 1)
  BY <1>1 DEF IInv, Floor, Above
<1>2a. Len(stack') \notin 0..3 /\ Above(2)'
  BY DEF Above
<1>2b. IF Above(4)' THEN TRUE ELSE FALSE
  BY DEF Above
<1>. QED BY <1>1, <1>2, <1>2a, <1>2b DEF Floor

-------------------------------------------------------------------------------
\* The moves of a request: frames return or are cut off, ...

Back(m) ==
  /\ stack' = SubSeq(stack, 1, m)
  /\ Written => Written'
  /\ UNCHANGED <<index, entered>>

LEMMA BackKeeps ==
  ASSUME IInv, NEW m \in 0..(Len(stack) - 1), Back(m),
         Written' \/ ~(Running /\ Runs(Top, "global", "loop"))
  PROVE  /\ stack' \in Seq(Frame) /\ Len(stack') = m /\ \A k \in 1..m : stack'[k] = stack[k]
         /\ Shape(stack') /\ NothingBehind' /\ NothingSkipped' /\ RouteLast'
<1>1. stack \in Seq(Frame) /\ Len(stack) \in Nat /\ m \in 0..Len(stack) /\ m < Len(stack)
  BY LenProperties DEF IInv, TypeOK
<1>2. stack' \in Seq(Frame) /\ Len(stack') = m /\ \A k \in 1..m : stack'[k] = stack[k]
  BY <1>1, CutIs DEF Back
<1>3. Shape(stack')
  BY <1>1, CutKeepsShape DEF Back, IInv
<1>4. ASSUME Running' PROVE Top' = stack[m] /\ m \in 1..Len(stack) /\ ~(Top'.frame = "run" /\ Top'.at = "loop")
  <2>1. m # 0
    BY <1>2, <1>4, EmptySeq DEF Running
  <2>2. Top' = stack[m]
    BY <1>1, <1>2, <2>1 DEF Top, Last
  <2>. QED BY <1>1, <2>1, <2>2 DEF IInv, Shape
<1>5. \A ctx \in Ctx : index[ctx] \in Nat /\ Reached(ctx) \in Nat /\ Reached(ctx)' = index[ctx] + 1
  <2>. SUFFICES ASSUME NEW ctx \in Ctx
                PROVE  index[ctx] \in Nat /\ Reached(ctx) \in Nat /\ Reached(ctx)' = index[ctx] + 1
    OBVIOUS
  <2>1. index[ctx] \in Nat
    BY DEF IInv, TypeOK
  <2>. QED BY <1>4, <2>1 DEF Reached, Back, Runs
<1>6. NothingBehind'
  <2>. SUFFICES ASSUME NEW ctx \in Ctx, NEW j \in Positions(ctx), entered[ctx][j] > 0
                PROVE  j <= index[ctx] + 1
    BY <1>5 DEF NothingBehind, Back
  <2>1. j <= Reached(ctx)
    BY DEF IInv, NothingBehind
  <2>. QED BY <1>5, <2>1, Chains DEF Reached
<1>7. NothingSkipped'
  <2>. SUFFICES ASSUME ~Written', NEW j \in Positions("global"), j <= Reached("global")'
                PROVE  entered["global"][j] > 0
    BY DEF NothingSkipped, Back
  <2>1. ~Written /\ Reached("global") = index["global"] + 1
    BY DEF Back, Reached
  <2>. QED BY <1>5, <2>1 DEF IInv, NothingSkipped, Ctx
<1>8. RouteLast'
  BY <1>1, <1>2 DEF IInv, RouteLast, AllGlobals, Back
<1>. QED BY <1>2, <1>3, <1>6, <1>7, <1>8

\* ... the running frame goes on, ...
Stay(f) ==
  /\ stack' = Replace(f)
  /\ Written'
  /\ UNCHANGED <<index, entered>>

LEMMA StayKeeps ==
  ASSUME IInv, Running, NEW f \in Frame, Stay(f),
         f.frame = Top.frame, ~(f.frame = "run" /\ f.at = "loop"),
         OfRoute(f) => OfRoute(Top)
  PROVE  /\ stack' \in Seq(Frame) /\ Len(stack') = Len(stack)
         /\ \A k \in 1..(Len(stack) - 1) : stack'[k] = stack[k]
         /\ Running' /\ Top' = f
         /\ Shape(stack') /\ NothingBehind' /\ NothingSkipped' /\ RouteLast'
<1>1. /\ stack \in Seq(Frame) /\ stack # <<>> /\ Len(stack) \in Nat \ {0}
      /\ Top = stack[Len(stack)] /\ Top = Last(stack) /\ Top \in Frame
  BY TopIs DEF IInv, TypeOK, Running, Top
<1>2. /\ stack' \in Seq(Frame) /\ Len(stack') = Len(stack) /\ stack'[Len(stack)] = f
      /\ \A k \in 1..(Len(stack) - 1) : stack'[k] = stack[k]
  <2>1. stack' = Append(Front(stack), f)
    BY DEF Stay, Replace, Pop
  <2>. QED BY <1>1, <2>1, ReplaceIs
<1>3. Running' /\ Top' = f
  BY <1>1, <1>2, EmptySeq DEF Running, Top, Last
<1>4. Shape(stack')
  BY <1>1, ReplaceKeepsShape DEF Stay, Replace, Pop, IInv
<1>5. NothingBehind'
  <2>. SUFFICES ASSUME NEW ctx \in Ctx, NEW j \in Positions(ctx), entered[ctx][j] > 0
                PROVE  j <= Reached(ctx)'
    BY DEF NothingBehind, Stay
  <2>1. j <= Reached(ctx) /\ index[ctx] \in Nat
    BY DEF IInv, NothingBehind, TypeOK
  <2>2. Reached(ctx)' = index[ctx] + 1
    BY <1>3 DEF Reached, Stay, Runs
  <2>. QED BY <2>1, <2>2, Chains DEF Reached
<1>6. NothingSkipped'
  BY DEF NothingSkipped, Stay
<1>7. RouteLast'
  <2>1. CASE AllGlobals
    BY <2>1 DEF RouteLast, AllGlobals, Stay
  <2>2. CASE \A k \in 1..Len(stack) : ~OfRoute(stack[k])
    <3>1. \A k \in 1..Len(stack') : ~OfRoute(stack'[k])
      <4>. SUFFICES ASSUME NEW k \in 1..Len(stack) PROVE ~OfRoute(stack'[k])
        BY <1>2
      <4>1. CASE k = Len(stack)
        BY <1>1, <1>2, <2>2, <4>1
      <4>2. CASE k \in 1..(Len(stack) - 1)
        BY <1>2, <2>2, <4>2
      <4>. QED BY <1>1, <4>1, <4>2
    <3>. QED BY <3>1 DEF RouteLast
  <2>. QED BY <2>1, <2>2 DEF IInv, RouteLast
<1>. QED BY <1>2, <1>3, <1>4, <1>5, <1>6, <1>7

\* ... or the running frame calls somebody.
LEMMA CallLeaves ==
  ASSUME IInv, Running, NEW f \in Frame, NEW g \in Frame, stack' = Append(Replace(f), g)
  PROVE  /\ stack' \in Seq(Frame) /\ Len(stack') = Len(stack) + 1
         /\ \A k \in 1..(Len(stack) - 1) : stack'[k] = stack[k]
         /\ stack'[Len(stack)] = f /\ stack'[Len(stack) + 1] = g
         /\ Running' /\ Top' = g
<1>1. stack \in Seq(Frame) /\ stack # <<>> /\ Len(stack) \in Nat \ {0}
  BY TopIs DEF IInv, TypeOK, Running
<1>2. /\ stack' \in Seq(Frame) /\ Len(stack') = Len(stack) + 1
      /\ \A k \in 1..(Len(stack) - 1) : stack'[k] = stack[k]
      /\ stack'[Len(stack)] = f /\ stack'[Len(stack) + 1] = g
  BY <1>1, PushIs DEF Replace, Pop
<1>3. Running' /\ Top' = g
  BY <1>1, <1>2, EmptySeq DEF Running, Top, Last
<1>. QED BY <1>2, <1>3

\* Nobody has called the handler, or whoever calls it has answered.
LEMMA HandledKept ==
  ASSUME IInv, UNCHANGED handled, swallowed => swallowed',
         handled = 0 \/ swallowed' \/ Written'
  PROVE  HandledOK'
BY DEF IInv, HandledOK

LEMMA WritesAre ==
  ASSUME IInv, NEW s \in Nat \ {0}, WriteHeader(s)
  PROVE  /\ status' \in Nat /\ wire' \in Nat /\ Written' /\ (Written' <=> wire' # 0)
BY DEF IInv, TypeOK, Answers, WriteHeader, Written

-------------------------------------------------------------------------------
\* The steps.

LEMMA NotFoundKeeps == IInv /\ NotFoundBehindLoop => IInv'
<1>. SUFFICES ASSUME IInv, NotFoundBehindLoop PROVE IInv'
  OBVIOUS
<1>1. Running /\ Len(stack) >= 5 /\ Len(stack) \in Nat \ {0} /\ Len(stack) - 1 \in 0..(Len(stack) - 1)
  BY High, TopIs DEF NotFoundBehindLoop, IInv
<1>2. status' \in Nat /\ wire' \in Nat /\ Written' /\ (Written' <=> wire' # 0)
  BY WritesAre DEF NotFoundBehindLoop
<1>3. Back(Len(stack) - 1)
  BY <1>2 DEF NotFoundBehindLoop, Back, Pop, Front, history
<1>4. /\ stack' \in Seq(Frame) /\ Len(stack') = Len(stack) - 1
      /\ \A k \in 1..(Len(stack) - 1) : stack'[k] = stack[k]
      /\ Shape(stack') /\ NothingBehind' /\ NothingSkipped' /\ RouteLast'
  BY <1>1, <1>2, <1>3, BackKeeps
<1>5. Floor'
  BY <1>1, <1>2, <1>4, FloorFar
<1>6. TypeOK' /\ Answers'
  BY <1>2, <1>4 DEF IInv, TypeOK, Answers, PanicContained, NotFoundBehindLoop, history
<1>7. HandledOK'
  BY <1>2, HandledKept DEF NotFoundBehindLoop, history
<1>. QED BY <1>4, <1>5, <1>6, <1>7 DEF IInv

LEMMA SkipHandlerKeeps == IInv /\ SkipHandler => IInv'
<1>. SUFFICES ASSUME IInv, SkipHandler PROVE IInv'
  OBVIOUS
<1>1. Running /\ Len(stack) >= 5 /\ Len(stack) \in Nat \ {0} /\ Len(stack) - 1 \in 0..(Len(stack) - 1)
  BY High, TopIs DEF SkipHandler, IInv
<1>2. Written' /\ UNCHANGED <<status, wire>>
  BY DEF SkipHandler, Written
<1>3. Back(Len(stack) - 1)
  BY <1>2 DEF SkipHandler, Back, Pop, Front, history
<1>4. /\ stack' \in Seq(Frame) /\ Len(stack') = Len(stack) - 1
      /\ \A k \in 1..(Len(stack) - 1) : stack'[k] = stack[k]
      /\ Shape(stack') /\ NothingBehind' /\ NothingSkipped' /\ RouteLast'
  BY <1>1, <1>2, <1>3, BackKeeps
<1>5. Floor'
  BY <1>1, <1>2, <1>4, FloorFar
<1>6. TypeOK' /\ Answers'
  BY <1>2, <1>4 DEF IInv, TypeOK, Answers, Written, PanicContained, SkipHandler, history
<1>7. HandledOK'
  BY <1>2, HandledKept DEF SkipHandler, history
<1>. QED BY <1>4, <1>5, <1>6, <1>7 DEF IInv

LEMMA RunEndsKeeps == IInv /\ RunEnds => IInv'
<1>. SUFFICES ASSUME IInv, RunEnds PROVE IInv'
  OBVIOUS
<1>1. Running /\ Len(stack) >= 5 /\ Len(stack) \in Nat \ {0} /\ Len(stack) - 1 \in 0..(Len(stack) - 1)
  BY High, TopIs DEF RunEnds, IInv
<1>2. status' \in Nat /\ wire' \in Nat /\ Written' /\ (Written' <=> wire' # 0)
  <2>1. CASE Written
    BY <2>1 DEF RunEnds, Unwritten, Written, IInv, TypeOK, Answers
  <2>2. CASE ~Written
    BY <2>2, WritesAre DEF RunEnds
  <2>. QED BY <2>1, <2>2
<1>3. Back(Len(stack) - 1)
  BY <1>2 DEF RunEnds, Back, Pop, Front, history
<1>4. /\ stack' \in Seq(Frame) /\ Len(stack') = Len(stack) - 1
      /\ \A k \in 1..(Len(stack) - 1) : stack'[k] = stack[k]
      /\ Shape(stack') /\ NothingBehind' /\ NothingSkipped' /\ RouteLast'
  BY <1>1, <1>2, <1>3, BackKeeps
<1>5. Floor'
  BY <1>1, <1>2, <1>4, FloorFar
<1>6. TypeOK' /\ Answers'
  BY <1>2, <1>4 DEF IInv, TypeOK, Answers, PanicContained, RunEnds, history
<1>7. HandledOK'
  BY <1>2, HandledKept DEF RunEnds, history
<1>. QED BY <1>4, <1>5, <1>6, <1>7 DEF IInv

\* Recovery calls a Run: user code is above that.
LEMMA Higher ==
  ASSUME IInv, Running, Top.frame # "run", Len(stack) >= 5
  PROVE  Len(stack) >= 6
<1>1. Len(stack) \in Nat \ {0} /\ Top = stack[Len(stack)] /\ Top \in Frame
  BY TopIs DEF IInv
<1>2. ASSUME Len(stack) = 5 PROVE FALSE
  <2>1. stack[4].frame = "mw"
    BY <1>2 DEF IInv, Floor, BuiltinFrame
  <2>2. Top.frame \in {"mw", "handler"}
    BY <1>1, FrameIs
  <2>3. stack[4].frame = "run"
    BY <1>1, <1>2, <2>2 DEF IInv, Shape, Runs
  <2>. QED BY <2>1, <2>3
<1>. QED BY <1>1, <1>2

LEMMA UserCodeIs ==
  ASSUME IInv, InUserCode
  PROVE  /\ Running /\ Len(stack) >= 6 /\ Len(stack) \in Nat /\ stack \in Seq(Frame)
         /\ Top = stack[Len(stack)] /\ Top \in Frame
         /\ Top.frame \in {"mw", "handler"}
<1>1. Running /\ Len(stack) >= 5
  BY High
<1>2. Len(stack) \in Nat /\ Top = stack[Len(stack)] /\ Top \in Frame /\ stack \in Seq(Frame)
  BY <1>1, TopIs DEF IInv, TypeOK
<1>3. Top.frame \in {"mw", "handler"}
  BY DEF InUserCode, InKind
<1>. QED BY <1>1, <1>2, <1>3, Higher

LEMMA UserReturnsKeeps == IInv /\ UserReturns => IInv'
<1>. SUFFICES ASSUME IInv, UserReturns PROVE IInv'
  OBVIOUS
<1>1. /\ Running /\ Len(stack) >= 6 /\ Len(stack) \in Nat
      /\ Top = stack[Len(stack)] /\ Top.frame \in {"mw", "handler"}
  BY UserCodeIs DEF UserReturns
<1>2. UNCHANGED <<status, wire, index, entered, handled, swallowed, escaped, bound, Written>>
  BY DEF UserReturns, history, Written
<1>3. Back(Len(stack) - 1) /\ Len(stack) - 1 \in 0..(Len(stack) - 1)
  BY <1>1, <1>2 DEF UserReturns, Back, Pop, Front
<1>4. /\ stack' \in Seq(Frame) /\ Len(stack') = Len(stack) - 1
      /\ \A k \in 1..(Len(stack) - 1) : stack'[k] = stack[k]
      /\ Shape(stack') /\ NothingBehind' /\ NothingSkipped' /\ RouteLast'
  BY <1>1, <1>3, BackKeeps DEF Runs
<1>5. Floor'
  BY <1>1, <1>4, FloorFar
<1>6. TypeOK' /\ Answers'
  BY <1>2, <1>4 DEF IInv, TypeOK, Answers, PanicContained
<1>7. HandledOK'
  <2>1. CASE handled = 0 \/ swallowed \/ Written
    BY <1>2, <2>1, HandledKept
  <2>2. CASE ~(handled = 0 \/ swallowed \/ Written)
    <3>1. handled = 1 /\ Top.frame = "handler"
      BY <1>1, <2>2 DEF IInv, HandledOK, Runs
    <3>2. Runs(stack[Len(stack) - 1], "route", "tail")
      BY <1>1, <3>1 DEF IInv, Shape
    <3>3. Running' /\ Top' = stack[Len(stack) - 1]
      BY <1>1, <1>4, EmptySeq DEF Running, Top, Last
    <3>. QED BY <1>2, <3>1, <3>2, <3>3 DEF HandledOK
  <2>. QED BY <2>1, <2>2
<1>. QED BY <1>4, <1>5, <1>6, <1>7 DEF IInv

LEMMA BuiltinIs ==
  ASSUME IInv, InKind("logger") \/ InKind("recovery")
  PROVE  /\ Running /\ Len(stack) \in Nat /\ stack \in Seq(Frame)
         /\ Top = stack[Len(stack)] /\ Top \in Frame /\ Top.frame = "mw"
         /\ Len(stack) \in {2, 4} \/ Len(stack) >= 6
         /\ Len(stack) \in {2, 4} =>
              Top = BuiltinFrame(IF Len(stack) = 2 THEN 1 ELSE 2, IF Written THEN 1 ELSE 0)
<1>1. Running /\ Top.frame = "mw"
  BY DEF InKind
<1>2. Len(stack) \in Nat \ {0} /\ Top = stack[Len(stack)] /\ Top \in Frame /\ stack \in Seq(Frame)
  BY <1>1, TopIs DEF IInv, TypeOK
<1>3. Len(stack) \notin {1, 3}
  BY <1>1, <1>2 DEF IInv, Floor, Run
<1>4. ASSUME Len(stack) = 5 PROVE FALSE
  <2>1. Len(stack) >= 6
    BY <1>1, <1>2, <1>4, Higher
  <2>. QED BY <1>4, <2>1
<1>5. Len(stack) \in {2, 4} =>
        Top = BuiltinFrame(IF Len(stack) = 2 THEN 1 ELSE 2, IF Written THEN 1 ELSE 0)
  <2>1. CASE Len(stack) = 2
    BY <1>2, <2>1 DEF IInv, Floor, Above
  <2>2. CASE Len(stack) = 4
    BY <1>2, <2>2 DEF IInv, Floor, Above
  <2>. QED BY <2>1, <2>2
<1>6. \A n \in Nat \ {0} : n \notin {1, 3} /\ n # 5 => n \in {2, 4} \/ n >= 6
  OBVIOUS
<1>. QED BY <1>1, <1>2, <1>3, <1>4, <1>5, <1>6

LEMMA BuiltinReturnsKeeps == IInv /\ BuiltinReturns => IInv'
<1>. SUFFICES ASSUME IInv, BuiltinReturns PROVE IInv'
  OBVIOUS
<1>1. /\ Running /\ Len(stack) \in Nat
      /\ Len(stack) \in {2, 4} \/ Len(stack) >= 6
      /\ Top = stack[Len(stack)] /\ Top.frame = "mw"
      /\ Len(stack) \in {2, 4} =>
           Top = BuiltinFrame(IF Len(stack) = 2 THEN 1 ELSE 2, IF Written THEN 1 ELSE 0)
  BY BuiltinIs DEF BuiltinReturns
<1>2. UNCHANGED <<status, wire, index, entered, handled, swallowed, escaped, bound, Written>>
  BY DEF BuiltinReturns, history, Written
<1>3. Back(Len(stack) - 1) /\ Len(stack) - 1 \in 0..(Len(stack) - 1)
  <2>1. \A n \in Nat : n \in {2, 4} \/ n >= 6 => n - 1 \in 0..(n - 1)
    OBVIOUS
  <2>2. Len(stack) - 1 \in 0..(Len(stack) - 1)
    BY <1>1, <2>1
  <2>. QED BY <1>2, <2>2 DEF BuiltinReturns, Back, Pop, Front
<1>4. /\ stack' \in Seq(Frame) /\ Len(stack') = Len(stack) - 1
      /\ \A k \in 1..(Len(stack) - 1) : stack'[k] = stack[k]
      /\ Shape(stack') /\ NothingBehind' /\ NothingSkipped' /\ RouteLast'
  BY <1>1, <1>3, BackKeeps DEF Runs
<1>5. Floor'
  <2>1. CASE Len(stack) >= 6
    BY <1>1, <1>4, <2>1, FloorFar
  <2>2. CASE Len(stack) \in {2, 4}
    <3>1. Written
      BY <1>1, <2>2 DEF BuiltinReturns, BuiltinFrame
    <3>2. CASE Len(stack) = 2
      <4>1. stack[1] = Run("global", "called")
        BY <3>2 DEF IInv, Floor
      <4>. QED BY <1>2, <1>4, <3>1, <3>2, <4>1 DEF Floor
    <3>3. CASE Len(stack) = 4
      <4>1. /\ stack[1] = Run("global", "called") /\ stack[2] = BuiltinFrame(1, 1)
            /\ stack[3] = Run("global", "called")
        BY <3>1, <3>3 DEF IInv, Floor, Above
      <4>. QED BY <1>2, <1>4, <3>1, <3>3, <4>1 DEF Floor, Above
    <3>. QED BY <2>2, <3>2, <3>3
  <2>. QED BY <1>1, <2>1, <2>2
<1>6. TypeOK' /\ Answers'
  BY <1>2, <1>4 DEF IInv, TypeOK, Answers, PanicContained
<1>7. HandledOK'
  BY <1>1, <1>2, HandledKept DEF IInv, HandledOK, Runs
<1>. QED BY <1>4, <1>5, <1>6, <1>7 DEF IInv

\* A panic stops at recovery, which has frames of its own below it and the user's above.
LEMMA UserPanicsKeeps == IInv /\ UserPanics => IInv'
<1>. SUFFICES ASSUME IInv, UserPanics PROVE IInv'
  OBVIOUS
<1>1. /\ Running /\ Len(stack) >= 6 /\ Len(stack) \in Nat /\ stack \in Seq(Frame)
      /\ Top = stack[Len(stack)] /\ Top.frame \in {"mw", "handler"}
  BY UserCodeIs DEF UserPanics
<1>2. stack[4] = BuiltinFrame(2, 1)
  BY <1>1 DEF IInv, Floor, Above
<1>3. 4 \in Catchers
  BY <1>1, <1>2, Chains DEF Catchers, BuiltinFrame
<1>4. PICK k \in Catchers : k = Max(Catchers) /\ k >= 4
  <2>1. Catchers \in SUBSET (1..Len(stack)) /\ Catchers # {}
    BY <1>3 DEF Catchers
  <2>2. Max(Catchers) \in Catchers /\ Max(Catchers) >= 4
    BY <1>1, <1>3, <2>1, Highest
  <2>. QED BY <2>2
<1>5. /\ stack' = SubSeq(stack, 1, k - 1)
      /\ \/ Chain[stack[k].ctx][stack[k].i] = "recovery" /\ WriteHeader(500) /\ UNCHANGED swallowed
         \/ Chain[stack[k].ctx][stack[k].i] = "guard" /\ Unwritten /\ swallowed'
      /\ UNCHANGED <<escaped, index, bound, entered, handled>>
  BY <1>3, <1>4 DEF UserPanics
<1>6. k \in 1..Len(stack) /\ stack[k].frame = "mw" /\ k - 1 \in 0..(Len(stack) - 1)
  <2>1. k \in 1..Len(stack) /\ stack[k].frame = "mw"
    BY DEF Catchers
  <2>. QED BY <1>1, <2>1
<1>7. /\ status' \in Nat /\ wire' \in Nat
      /\ Written => Written'
      /\ Written' <=> wire' # 0
      /\ Written' \/ swallowed'
  <2>1. CASE WriteHeader(500)
    BY <2>1, WritesAre
  <2>2. CASE Unwritten /\ swallowed'
    BY <2>2 DEF Unwritten, Written, IInv, TypeOK, Answers
  <2>. QED BY <1>5, <2>1, <2>2
<1>8. Back(k - 1)
  BY <1>5, <1>7 DEF Back
<1>9. /\ stack' \in Seq(Frame) /\ Len(stack') = k - 1
      /\ \A j \in 1..(k - 1) : stack'[j] = stack[j]
      /\ Shape(stack') /\ NothingBehind' /\ NothingSkipped' /\ RouteLast'
  BY <1>1, <1>6, <1>8, BackKeeps DEF Runs
<1>10. Floor'
  <2>1. CASE k = 4
    <3>1. Chain[stack[4].ctx][stack[4].i] = "recovery"
      BY <1>2, Chains DEF BuiltinFrame
    <3>2. Written'
      BY <1>5, <2>1, <3>1, WritesAre
    <3>3. /\ stack[1] = Run("global", "called") /\ stack[2] = BuiltinFrame(1, 1)
          /\ stack[3] = Run("global", "called")
      BY <1>1 DEF IInv, Floor, Above
    <3>. QED BY <1>9, <2>1, <3>2, <3>3 DEF Floor, Above
  <2>2. CASE k = 5
    BY <1>1, <1>2, <1>6, <2>2 DEF IInv, Shape, BuiltinFrame
  <2>3. CASE k >= 6
    BY <1>1, <1>6, <1>9, <2>3, FloorFar
  <2>. QED BY <1>4, <1>6, <2>1, <2>2, <2>3
<1>11. TypeOK' /\ Answers'
  <2>1. swallowed' \in BOOLEAN
    BY <1>5 DEF IInv, TypeOK
  <2>. QED BY <1>5, <1>7, <1>9, <2>1 DEF IInv, TypeOK, Answers, PanicContained
<1>12. HandledOK'
  BY <1>5, <1>7, HandledKept
<1>. QED BY <1>9, <1>10, <1>11, <1>12 DEF IInv

LEMMA NoRouteKeeps == IInv /\ NoRoute => IInv'
<1>. SUFFICES ASSUME IInv, NoRoute PROVE IInv'
  OBVIOUS
<1>1. Running /\ Len(stack) >= 5 /\ Top.frame = "run" /\ Top.ctx = "global"
  BY High DEF NoRoute, LoopDone, InRun
<1>2. status' \in Nat /\ wire' \in Nat /\ Written' /\ (Written' <=> wire' # 0)
  BY WritesAre DEF NoRoute
<1>3. Run("global", "tail") \in Frame /\ Runs(Run("global", "tail"), "global", "tail")
  BY FramesAre DEF Ctx
<1>4. Stay(Run("global", "tail"))
  BY <1>2 DEF NoRoute, Stay, history
<1>5. /\ stack' \in Seq(Frame) /\ Len(stack') = Len(stack)
      /\ \A k \in 1..(Len(stack) - 1) : stack'[k] = stack[k]
      /\ Shape(stack') /\ NothingBehind' /\ NothingSkipped' /\ RouteLast'
  BY <1>1, <1>3, <1>4, StayKeeps DEF Runs, OfRoute
<1>6. Floor'
  BY <1>1, <1>5, FloorFar, LenProperties
<1>7. TypeOK' /\ Answers'
  BY <1>2, <1>5 DEF IInv, TypeOK, Answers, PanicContained, NoRoute, history
<1>8. HandledOK'
  BY <1>2, HandledKept DEF NoRoute, history
<1>. QED BY <1>5, <1>6, <1>7, <1>8 DEF IInv

\* What UserWrites and UserWritesBody have in common.
LEMMA UserAnswers ==
  ASSUME IInv, InUserCode, Top.acts < MaxActs, stack' = Replace(Acted),
         status' \in Nat, wire' \in Nat, Written', Written' <=> wire' # 0,
         UNCHANGED <<index, bound, history>>
  PROVE  IInv'
<1>1. /\ Running /\ Len(stack) >= 6 /\ Len(stack) \in Nat
      /\ Top \in Frame /\ Top.frame \in {"mw", "handler"}
  BY UserCodeIs
<1>2. /\ Acted \in Frame /\ Acted.frame = Top.frame
      /\ Top.frame = "mw" => Acted.ctx = Top.ctx
  BY <1>1, ActedIs DEF Acted
<1>3. Stay(Acted)
  BY DEF Stay, history
<1>4. /\ stack' \in Seq(Frame) /\ Len(stack') = Len(stack)
      /\ \A k \in 1..(Len(stack) - 1) : stack'[k] = stack[k]
      /\ Shape(stack') /\ NothingBehind' /\ NothingSkipped' /\ RouteLast'
  <2>1. OfRoute(Acted) => OfRoute(Top)
    BY <1>1, <1>2 DEF OfRoute
  <2>2. Acted.frame # "run"
    BY <1>1, <1>2
  <2>. QED BY <1>1, <1>2, <1>3, <2>1, <2>2, StayKeeps
<1>5. Floor'
  BY <1>1, <1>4, FloorFar
<1>6. TypeOK' /\ Answers'
  BY <1>4 DEF IInv, TypeOK, Answers, PanicContained, history
<1>7. HandledOK'
  BY HandledKept DEF history
<1>. QED BY <1>4, <1>5, <1>6, <1>7 DEF IInv

LEMMA UserWritesKeeps == \A s \in Statuses : IInv /\ UserWrites(s) => IInv'
<1>. SUFFICES ASSUME NEW s \in Statuses, IInv, UserWrites(s) PROVE IInv'
  OBVIOUS
<1>1. s \in Nat \ {0}
  BY PipelineAssumption
<1>2. status' \in Nat /\ wire' \in Nat /\ Written' /\ (Written' <=> wire' # 0)
  BY <1>1, WritesAre DEF UserWrites
<1>. QED BY <1>2, UserAnswers DEF UserWrites

LEMMA UserWritesBodyKeeps == IInv /\ UserWritesBody => IInv'
<1>. SUFFICES ASSUME IInv, UserWritesBody PROVE IInv'
  OBVIOUS
<1>1. status' \in Nat /\ wire' \in Nat /\ Written' /\ (Written' <=> wire' # 0)
  <2>1. CASE Written
    BY <2>1 DEF UserWritesBody, Unwritten, Written, IInv, TypeOK, Answers
  <2>2. CASE ~Written
    BY <2>2, WritesAre DEF UserWritesBody
  <2>. QED BY <2>1, <2>2
<1>. QED BY <1>1, UserAnswers DEF UserWritesBody

-------------------------------------------------------------------------------
\* The steps that move index.

\* The running frame is of a route only if the globals were called.
LEMMA RouteBehind ==
  ASSUME IInv, Running, OfRoute(Top)
  PROVE  AllGlobals
<1>1. Len(stack) \in Nat \ {0} /\ Top = stack[Len(stack)]
  BY TopIs DEF IInv
<1>. QED BY <1>1 DEF IInv, RouteLast

\* A new frame belongs to a route only if its caller does.
LEMMA CallKeepsRouteLast ==
  ASSUME IInv, Running, NEW f \in Frame, NEW g \in Frame, stack' = Append(Replace(f), g),
         OfRoute(f) \/ OfRoute(g) => OfRoute(Top), AllGlobals => AllGlobals'
  PROVE  RouteLast'
<1>1. CASE AllGlobals
  BY <1>1 DEF RouteLast
<1>2. CASE ~AllGlobals
  <2>1. Len(stack) \in Nat \ {0} /\ \A k \in 1..Len(stack) : ~OfRoute(stack[k])
    BY <1>2, TopIs DEF IInv, RouteLast
  <2>2. /\ Len(stack') = Len(stack) + 1
        /\ \A k \in 1..(Len(stack) - 1) : stack'[k] = stack[k]
        /\ stack'[Len(stack)] = f /\ stack'[Len(stack) + 1] = g
    BY CallLeaves
  <2>3. ~OfRoute(f) /\ ~OfRoute(g)
    BY <1>2, RouteBehind
  <2>4. ASSUME NEW k \in 1..(Len(stack) + 1) PROVE ~OfRoute(stack'[k])
    <3>1. CASE k \in 1..(Len(stack) - 1)
      BY <2>1, <2>2, <3>1
    <3>2. CASE k = Len(stack) \/ k = Len(stack) + 1
      BY <2>2, <2>3, <3>2
    <3>3. \A n \in Nat \ {0} : \A j \in 1..(n + 1) : j \in 1..(n - 1) \/ j = n \/ j = n + 1
      OBVIOUS
    <3>. QED BY <2>1, <3>1, <3>2, <3>3
  <2>. QED BY <2>2, <2>4 DEF RouteLast
<1>. QED BY <1>1, <1>2

\* What all who call Next have in common.
LEMMA NextKeeps ==
  ASSUME IInv, Running, Top.frame = "mw", Top.acts < MaxActs, Next_(Top.ctx), Floor'
  PROVE  IInv'
<1>. DEFINE ctx == Top.ctx
<1>1. Top \in Frame /\ ctx \in Ctx /\ stack \in Seq(Frame) /\ stack # <<>> /\ Top = Last(stack)
  BY TopIs, FrameIs DEF IInv, TypeOK, Running, Top
<1>2. Acted \in Frame /\ Acted.frame = "mw" /\ Acted.ctx = ctx
  BY <1>1, ActedIs DEF Acted
<1>3. Run(ctx, "loop") \in Frame /\ Runs(Run(ctx, "loop"), ctx, "loop")
  BY <1>1, FramesAre
<1>4. stack' = Append(Replace(Acted), Run(ctx, "loop"))
  BY DEF Next_
<1>5. stack' \in Seq(Frame) /\ Running' /\ Top' = Run(ctx, "loop")
  BY <1>2, <1>3, <1>4, CallLeaves
<1>6. Shape(stack')
  BY <1>1, <1>2, <1>3, <1>4, PushKeepsShape DEF IInv, Runs, Replace, Pop
<1>7. /\ index' \in [Ctx -> Nat] /\ index \in [Ctx -> Nat]
      /\ \A c \in Ctx : index'[c] = IF c = ctx THEN index[c] + 1 ELSE index[c]
  <2>1. index \in [Ctx -> Nat] /\ index' = [index EXCEPT ![ctx] = @ + 1]
    BY DEF IInv, TypeOK, Next_
  <2>. QED BY <1>1, <2>1
<1>8. \A c \in Ctx : Reached(c)' = Reached(c)
  BY <1>3, <1>5, <1>7 DEF Reached, Runs
<1>9. UNCHANGED <<status, wire, entered, handled, swallowed, escaped, bound, Written>>
  BY DEF Next_, history, Written
<1>10. NothingBehind'
  BY <1>8, <1>9 DEF IInv, NothingBehind
<1>11. NothingSkipped'
  BY <1>8, <1>9 DEF IInv, NothingSkipped, Ctx
<1>12. RouteLast'
  <2>1. OfRoute(Acted) \/ OfRoute(Run(ctx, "loop")) => OfRoute(Top)
    BY <1>2, <1>3 DEF OfRoute, Runs
  <2>. QED BY <1>2, <1>3, <1>4, <1>9, <2>1, CallKeepsRouteLast DEF AllGlobals
<1>13. HandledOK'
  <2>1. handled = 0 \/ swallowed \/ Written
    BY DEF IInv, HandledOK, Runs
  <2>. QED BY <1>9, <2>1, HandledKept
<1>14. TypeOK' /\ Answers'
  BY <1>5, <1>7, <1>9 DEF IInv, TypeOK, Answers, PanicContained
<1>. QED BY <1>6, <1>10, <1>11, <1>12, <1>13, <1>14 DEF IInv

LEMMA UserNextKeeps == IInv /\ UserNext => IInv'
<1>. SUFFICES ASSUME IInv, UserNext PROVE IInv'
  OBVIOUS
<1>1. InUserCode /\ Top.frame = "mw"
  BY DEF UserNext, InUserCode, InKind
<1>2. /\ Running /\ Len(stack) >= 6 /\ Len(stack) \in Nat /\ Top \in Frame
  BY <1>1, UserCodeIs
<1>3. Acted \in Frame /\ Run(Top.ctx, "loop") \in Frame
  BY <1>1, <1>2, FrameIs, FramesAre, ActedIs DEF Acted, UserNext
<1>4. Len(stack') = Len(stack) + 1 /\ \A k \in 1..(Len(stack) - 1) : stack'[k] = stack[k]
  BY <1>2, <1>3, CallLeaves DEF UserNext, Next_
<1>5. Floor'
  BY <1>2, <1>4, FloorFar
<1>. QED BY <1>1, <1>2, <1>5, NextKeeps DEF UserNext

LEMMA BuiltinNextKeeps == IInv /\ BuiltinNext => IInv'
<1>. SUFFICES ASSUME IInv, BuiltinNext PROVE IInv'
  OBVIOUS
<1>1. /\ Running /\ Len(stack) \in Nat /\ Top \in Frame /\ Top.frame = "mw"
      /\ Len(stack) \in {2, 4} \/ Len(stack) >= 6
      /\ Len(stack) \in {2, 4} =>
           Top = BuiltinFrame(IF Len(stack) = 2 THEN 1 ELSE 2, IF Written THEN 1 ELSE 0)
  BY BuiltinIs DEF BuiltinNext
<1>2. Top.acts = 0 /\ Top.acts < MaxActs /\ Next_(Top.ctx)
  BY PipelineAssumption DEF BuiltinNext
<1>3. /\ Acted \in Frame
      /\ Acted = [frame |-> "mw", ctx |-> Top.ctx, i |-> Top.i, acts |-> 1]
      /\ Run(Top.ctx, "loop") \in Frame
  BY <1>1, <1>2, FrameIs, FramesAre, ActedIs DEF Acted
<1>4. /\ Len(stack') = Len(stack) + 1
      /\ \A k \in 1..(Len(stack) - 1) : stack'[k] = stack[k]
      /\ stack'[Len(stack)] = Acted /\ stack'[Len(stack) + 1] = Run(Top.ctx, "loop")
  BY <1>1, <1>2, <1>3, CallLeaves DEF Next_
<1>5. Floor'
  <2>1. CASE Len(stack) = 2
    <3>1. Top = BuiltinFrame(1, 0) /\ ~Written
      BY <1>1, <1>2, <2>1 DEF BuiltinFrame
    <3>2. stack[1] = Run("global", "called") /\ index["global"] = 0
      BY <2>1, <3>1 DEF IInv, Floor
    <3>3. index["global"]' = 1 /\ ~Written'
      BY <1>2, <3>1, <3>2 DEF IInv, TypeOK, BuiltinFrame, Next_, Written, Ctx
    <3>4. /\ Len(stack') = 3 /\ stack'[1] = Run("global", "called")
          /\ stack'[2] = BuiltinFrame(1, 1) /\ stack'[3] = Run("global", "loop")
      BY <1>3, <1>4, <2>1, <3>1, <3>2 DEF BuiltinFrame
    <3>. QED BY <3>3, <3>4 DEF Floor, Above
  <2>2. CASE Len(stack) = 4
    <3>1. Top = BuiltinFrame(2, 0) /\ ~Written
      BY <1>1, <1>2, <2>2 DEF BuiltinFrame
    <3>2. /\ stack[1] = Run("global", "called") /\ stack[2] = BuiltinFrame(1, 1)
          /\ stack[3] = Run("global", "called")
      BY <2>2 DEF IInv, Floor, Above
    <3>3. /\ Len(stack') = 5 /\ stack'[1] = Run("global", "called")
          /\ stack'[2] = BuiltinFrame(1, 1) /\ stack'[3] = Run("global", "called")
          /\ stack'[4] = BuiltinFrame(2, 1)
      BY <1>3, <1>4, <2>2, <3>1, <3>2 DEF BuiltinFrame
    <3>. QED BY <3>3 DEF Floor, Above
  <2>3. CASE Len(stack) >= 6
    BY <1>1, <1>4, <2>3, FloorFar
  <2>. QED BY <1>1, <2>1, <2>2, <2>3
<1>. QED BY <1>1, <1>2, <1>5, NextKeeps

\* Run's loop and what comes behind it.

LEMMA RunIs ==
  ASSUME IInv, Running, Top.frame = "run"
  PROVE  /\ stack \in Seq(Frame) /\ stack # <<>> /\ Len(stack) \in Nat
         /\ Top = Last(stack) /\ Top = stack[Len(stack)]
         /\ Top.ctx \in Ctx /\ Top = Run(Top.ctx, Top.at)
         /\ Len(stack) \in {1, 3} \/ Len(stack) >= 5
<1>1. /\ stack \in Seq(Frame) /\ stack # <<>> /\ Len(stack) \in Nat \ {0}
      /\ Top = Last(stack) /\ Top = stack[Len(stack)] /\ Top \in Frame
  BY TopIs DEF IInv, TypeOK, Running, Top
<1>2. Top.ctx \in Ctx /\ Top = Run(Top.ctx, Top.at)
  BY <1>1, FrameIs
<1>3. ASSUME Len(stack) \in {2, 4} PROVE FALSE
  <2>1. Top.frame = "mw"
    <3>1. CASE Len(stack) = 2
      BY <1>1, <3>1 DEF IInv, Floor, BuiltinFrame
    <3>2. CASE Len(stack) = 4
      BY <1>1, <3>2 DEF IInv, Floor, BuiltinFrame
    <3>. QED BY <1>3, <3>1, <3>2
  <2>. QED BY <2>1
<1>4. \A n \in Nat \ {0} : n \notin {2, 4} => n \in {1, 3} \/ n >= 5
  OBVIOUS
<1>. QED BY <1>1, <1>2, <1>3, <1>4

LEMMA CallMiddlewareKeeps == IInv /\ CallMiddleware => IInv'
<1>. SUFFICES ASSUME IInv, CallMiddleware PROVE IInv'
  OBVIOUS
<1>1. PICK ctx \in Ctx : ctx = Top.ctx
  BY RunIs DEF CallMiddleware, InRun
<1>. DEFINE i == index[ctx] + 1
            f == Run(ctx, "called")
            g == Middleware(ctx, i)
<1>2. /\ Running /\ Top.frame = "run" /\ Top.at = "loop"
      /\ stack \in Seq(Frame) /\ stack # <<>> /\ Len(stack) \in Nat
      /\ Top = Last(stack) /\ Top = stack[Len(stack)]
      /\ ctx \in Ctx /\ Top = Run(ctx, "loop")
      /\ Len(stack) \in {1, 3} \/ Len(stack) >= 5
  BY <1>1, RunIs DEF CallMiddleware, InRun
<1>3. index[ctx] \in Nat /\ i \in Positions(ctx)
  <2>1. index[ctx] \in Nat
    BY <1>2 DEF IInv, TypeOK
  <2>2. i <= Len(Chain[ctx])
    BY <1>1 DEF CallMiddleware
  <2>. QED BY <1>2, <2>1, <2>2, Chains
<1>4. /\ f \in Frame /\ Runs(f, ctx, "called")
      /\ g \in Frame /\ g = [frame |-> "mw", ctx |-> ctx, i |-> i, acts |-> 0]
  BY <1>2, <1>3, FramesAre, PipelineAssumption DEF Middleware
<1>5. stack' = Append(Replace(f), g) /\ entered' = [entered EXCEPT ![ctx][i] = Twice(@)]
  BY <1>1 DEF CallMiddleware
<1>6. UNCHANGED <<status, wire, index, handled, swallowed, escaped, bound, Written>>
  BY DEF CallMiddleware, Written
<1>. HIDE DEF f, g
<1>7. /\ stack' \in Seq(Frame) /\ Len(stack') = Len(stack) + 1
      /\ \A k \in 1..(Len(stack) - 1) : stack'[k] = stack[k]
      /\ stack'[Len(stack)] = f /\ stack'[Len(stack) + 1] = g
      /\ Running' /\ Top' = g
  BY <1>2, <1>4, <1>5, CallLeaves
<1>8. Shape(stack')
  BY <1>2, <1>4, <1>5, PushKeepsShape DEF IInv, Runs, Replace, Pop
<1>9. /\ entered' = [c \in Ctx |-> entered'[c]]
      /\ \A c \in Ctx : entered'[c] \in [Positions(c) -> 0..2]
      /\ \A c \in Ctx : \A j \in Positions(c) :
           IF c = ctx /\ j = i THEN entered'[c][j] > 0 ELSE entered'[c][j] = entered[c][j]
  <2>1. /\ entered = [c \in Ctx |-> entered[c]]
        /\ \A c \in Ctx : entered[c] \in [Positions(c) -> 0..2]
    BY DEF IInv, TypeOK
  <2>2. \A n \in 0..2 : Twice(n) \in 1..2
    BY DEF Twice
  <2>3. entered' = [c \in Ctx |-> IF c = ctx THEN [entered[c] EXCEPT ![i] = Twice(@)] ELSE entered[c]]
    BY <1>2, <1>5, <2>1
  <2>4. entered[ctx][i] \in 0..2
    BY <1>2, <1>3, <2>1
  <2>5. [entered[ctx] EXCEPT ![i] = Twice(@)] \in [Positions(ctx) -> 0..2]
    BY <1>2, <1>3, <2>1, <2>2, <2>4
  <2>6. \A j \in Positions(ctx) : [entered[ctx] EXCEPT ![i] = Twice(@)][j] =
                                    IF j = i THEN Twice(entered[ctx][i]) ELSE entered[ctx][j]
    BY <1>2, <1>3, <2>1
  <2>. QED BY <1>2, <2>1, <2>2, <2>3, <2>4, <2>5, <2>6
<1>10. /\ Reached(ctx) = index[ctx] /\ Reached(ctx)' = index[ctx] + 1
       /\ \A c \in Ctx \ {ctx} : Reached(c)' = Reached(c)
  BY <1>1, <1>2, <1>3, <1>4, <1>6, <1>7 DEF Reached, Runs
<1>11. NothingBehind'
  <2>. SUFFICES ASSUME NEW c \in Ctx, NEW j \in Positions(c), entered'[c][j] > 0
                PROVE  j <= Reached(c)'
    BY DEF NothingBehind
  <2>1. CASE c = ctx /\ j = i
    BY <1>3, <1>10, <2>1
  <2>2. CASE ~(c = ctx /\ j = i)
    <3>1. j <= Reached(c)
      BY <1>9, <2>2 DEF IInv, NothingBehind
    <3>. QED BY <1>3, <1>10, <3>1, Chains
  <2>. QED BY <2>1, <2>2
<1>12. NothingSkipped'
  <2>. SUFFICES ASSUME ~Written', NEW j \in Positions("global"), j <= Reached("global")'
                PROVE  entered'["global"][j] > 0
    BY DEF NothingSkipped
  <2>1. CASE "global" = ctx /\ j = i
    BY <1>2, <1>9, <2>1
  <2>2. CASE ~("global" = ctx /\ j = i)
    <3>1. j \in Nat
      BY Chains DEF Ctx
    <3>2. j <= Reached("global")
      <4>1. CASE ctx = "global"
        BY <1>3, <1>10, <2>2, <3>1, <4>1
      <4>2. CASE ctx # "global"
        BY <1>10, <4>2 DEF Ctx
      <4>. QED BY <4>1, <4>2
    <3>3. entered["global"][j] > 0
      BY <1>6, <3>2 DEF IInv, NothingSkipped
    <3>. QED BY <1>9, <2>2, <3>3 DEF Ctx
  <2>. QED BY <2>1, <2>2
<1>13. RouteLast'
  <2>1. OfRoute(f) \/ OfRoute(g) => OfRoute(Top)
    BY <1>1, <1>2, <1>4 DEF OfRoute, Runs
  <2>2. AllGlobals => AllGlobals'
    <3>. SUFFICES ASSUME AllGlobals, NEW j \in Positions("global") PROVE entered'["global"][j] > 0
      BY DEF AllGlobals
    <3>. QED BY <1>9 DEF AllGlobals, Ctx
  <2>. QED BY <1>2, <1>4, <1>5, <2>1, <2>2, CallKeepsRouteLast
<1>14. HandledOK'
  <2>1. handled = 0 \/ swallowed \/ Written
    BY <1>2 DEF IInv, HandledOK, Runs
  <2>. QED BY <1>6, <2>1, HandledKept
<1>15. TypeOK' /\ Answers'
  BY <1>6, <1>7, <1>9 DEF IInv, TypeOK, Answers, PanicContained
<1>16. Floor'
  <2>1. CASE Len(stack) = 1
    <3>1. ~Written /\ Top = Run("global", "loop") /\ index["global"] = 0
      BY <1>2, <2>1 DEF IInv, Floor, Run
    <3>2. ctx = "global" /\ g = BuiltinFrame(1, 0) /\ f = Run("global", "called")
      BY <1>1, <1>4, <3>1 DEF Run, BuiltinFrame, f
    <3>. QED BY <1>6, <1>7, <2>1, <3>1, <3>2 DEF Floor, Above
  <2>2. CASE Len(stack) = 3
    <3>1. ~Written /\ Top = Run("global", "loop") /\ index["global"] = 1
      BY <1>2, <2>2 DEF IInv, Floor, Run
    <3>2. ctx = "global" /\ g = BuiltinFrame(2, 0) /\ f = Run("global", "called")
      BY <1>1, <1>4, <3>1 DEF Run, BuiltinFrame, f
    <3>3. stack[1] = Run("global", "called") /\ stack[2] = BuiltinFrame(1, 1)
      BY <2>2 DEF IInv, Floor, Above
    <3>. QED BY <1>6, <1>7, <2>2, <3>1, <3>2, <3>3 DEF Floor, Above
  <2>3. CASE Len(stack) >= 5
    BY <1>2, <1>7, <2>3, FloorFar
  <2>. QED BY <1>2, <2>1, <2>2, <2>3
<1>. QED BY <1>8, <1>11, <1>12, <1>13, <1>14, <1>15, <1>16 DEF IInv

\* The loop goes on with the next middleware, or ends because something was written.
LEMMA MiddlewareReturnedKeeps == IInv /\ MiddlewareReturned => IInv'
<1>. SUFFICES ASSUME IInv, MiddlewareReturned PROVE IInv'
  OBVIOUS
<1>1. PICK ctx \in Ctx : ctx = Top.ctx
  BY RunIs DEF MiddlewareReturned, InRun
<1>2. /\ Running /\ Top.frame = "run" /\ Top.at = "called"
      /\ stack \in Seq(Frame) /\ stack # <<>> /\ Len(stack) \in Nat
      /\ Top = Last(stack) /\ Top = stack[Len(stack)]
      /\ ctx \in Ctx /\ Top = Run(ctx, "called")
      /\ Len(stack) \in {1, 3} \/ Len(stack) >= 5
  BY <1>1, RunIs DEF MiddlewareReturned, InRun
<1>. DEFINE f == Run(ctx, "loop")
<1>3. f \in Frame /\ Runs(f, ctx, "loop")
  BY <1>2, FramesAre
<1>4. UNCHANGED <<status, wire, entered, handled, swallowed, escaped, bound, Written>>
  BY DEF MiddlewareReturned, history, Written
<1>5. stack' = IF Written THEN Front(stack) ELSE Append(Front(stack), f)
  BY <1>1 DEF MiddlewareReturned, Replace, Pop
<1>. HIDE DEF f
<1>6. /\ stack' \in Seq(Frame) /\ Shape(stack')
      /\ Len(stack') = IF Written THEN Len(stack) - 1 ELSE Len(stack)
      /\ \A k \in 1..(Len(stack) - 1) : stack'[k] = stack[k]
      /\ ~Written => stack'[Len(stack)] = f
  <2>1. CASE Written
    BY <1>2, <1>5, <2>1, PopIs, PopKeepsShape DEF IInv
  <2>2. CASE ~Written
    <3>1. f.frame = Last(stack).frame
      BY <1>2, <1>3 DEF Runs
    <3>2. stack' = Append(Front(stack), f)
      BY <1>5, <2>2
    <3>3. Shape(stack')
      BY <1>2, <1>3, <3>1, <3>2, ReplaceKeepsShape DEF IInv
    <3>4. /\ stack' \in Seq(Frame) /\ Len(stack') = Len(stack) /\ stack'[Len(stack)] = f
          /\ \A k \in 1..(Len(stack) - 1) : stack'[k] = stack[k]
      BY <1>2, <1>3, <3>2, ReplaceIs
    <3>. QED BY <2>2, <3>3, <3>4
  <2>. QED BY <2>1, <2>2
<1>7. ~Written => Running' /\ Top' = f
  BY <1>2, <1>6, EmptySeq DEF Running, Top, Last
<1>8. /\ index \in [Ctx -> Nat] /\ index' \in [Ctx -> Nat]
      /\ \A c \in Ctx : index'[c] = IF c = ctx THEN index[c] + 1 ELSE index[c]
  BY <1>1 DEF IInv, TypeOK, MiddlewareReturned
<1>9. Running' => (Top' = f \/ ~(Top'.frame = "run" /\ Top'.at = "loop"))
  <2>1. CASE ~Written
    BY <1>7, <2>1
  <2>2. CASE Written /\ Running'
    <3>1. Len(stack') = Len(stack) - 1 /\ Len(stack') # 0
      BY <1>6, <2>2, EmptySeq DEF Running
    <3>2. Top' = stack[Len(stack) - 1] /\ Len(stack) - 1 \in 1..Len(stack)
      BY <1>2, <1>6, <3>1 DEF Top, Last
    <3>. QED BY <1>2, <3>2 DEF IInv, Shape
  <2>. QED BY <2>1, <2>2
<1>10. \A c \in Ctx : /\ Reached(c) = index[c] + 1 /\ Reached(c)' >= index[c] + 1
                      /\ ~Written => Reached(c)' = index[c] + 1
  <2>. SUFFICES ASSUME NEW c \in Ctx
                PROVE  /\ Reached(c) = index[c] + 1 /\ Reached(c)' >= index[c] + 1
                       /\ ~Written => Reached(c)' = index[c] + 1
    OBVIOUS
  <2>1. /\ index[c] \in Nat /\ index'[c] = IF c = ctx THEN index[c] + 1 ELSE index[c]
        /\ Reached(c) = index[c] + 1
    BY <1>2, <1>8 DEF Reached, Runs
  <2>2. CASE Running' /\ Top' = f
    BY <1>3, <2>1, <2>2 DEF Reached, Runs
  <2>3. CASE ~Running' \/ ~(Top'.frame = "run" /\ Top'.at = "loop")
    <3>1. Reached(c)' = index'[c] + 1
      BY <2>3 DEF Reached, Runs
    <3>2. ~Written => Running' /\ Runs(Top', ctx, "loop")
      BY <1>3, <1>7
    <3>. QED BY <2>1, <2>3, <3>1, <3>2 DEF Runs
  <2>. QED BY <1>9, <2>2, <2>3
<1>11. NothingBehind'
  <2>. SUFFICES ASSUME NEW c \in Ctx, NEW j \in Positions(c), entered[c][j] > 0
                PROVE  j <= Reached(c)'
    BY <1>4 DEF NothingBehind
  <2>1. j <= Reached(c) /\ j \in Nat /\ index[c] \in Nat /\ Reached(c) = index[c] + 1
    BY <1>8, <1>10, Chains DEF IInv, NothingBehind
  <2>2. Reached(c)' \in Nat
    BY <1>8 DEF Reached
  <2>. QED BY <1>10, <2>1, <2>2
<1>12. NothingSkipped'
  BY <1>4, <1>10 DEF IInv, NothingSkipped, Ctx
<1>13. RouteLast'
  <2>1. CASE AllGlobals
    BY <1>4, <2>1 DEF RouteLast, AllGlobals
  <2>2. CASE \A k \in 1..Len(stack) : ~OfRoute(stack[k])
    <3>1. ~OfRoute(f)
      <4>1. Len(stack) \in 1..Len(stack)
        BY <1>2
      <4>2. ~OfRoute(Top)
        BY <1>2, <2>2, <4>1
      <4>. QED BY <1>1, <1>2, <1>3, <4>2 DEF OfRoute, Runs
    <3>2. \A k \in 1..Len(stack') : ~OfRoute(stack'[k])
      <4>. SUFFICES ASSUME NEW k \in 1..Len(stack') PROVE ~OfRoute(stack'[k])
        OBVIOUS
      <4>1. CASE k \in 1..(Len(stack) - 1)
        BY <1>2, <1>6, <2>2, <4>1
      <4>2. CASE k = Len(stack) /\ ~Written
        BY <1>6, <3>1, <4>2
      <4>. QED BY <1>2, <1>6, <4>1, <4>2
    <3>. QED BY <3>2 DEF RouteLast
  <2>. QED BY <2>1, <2>2 DEF IInv, RouteLast
<1>14. HandledOK'
  <2>1. handled = 0 \/ swallowed \/ Written
    BY <1>2 DEF IInv, HandledOK, Runs
  <2>. QED BY <1>4, <2>1, HandledKept
<1>15. TypeOK' /\ Answers'
  BY <1>4, <1>6, <1>8 DEF IInv, TypeOK, Answers, PanicContained
<1>16. Floor'
  <2>1. ASSUME Len(stack) \in {1, 3} PROVE Written
    BY <1>2, <2>1 DEF IInv, Floor, Run
  <2>2. CASE Len(stack) = 1
    BY <1>4, <1>6, <2>1, <2>2 DEF Floor
  <2>3. CASE Len(stack) = 3
    <3>1. stack[1] = Run("global", "called") /\ stack[2] = BuiltinFrame(1, 1)
      BY <2>3 DEF IInv, Floor, Above
    <3>. QED BY <1>4, <1>6, <2>1, <2>3, <3>1 DEF Floor, Above
  <2>4. CASE Len(stack) >= 5
    <3>1. /\ Len(stack') \in Nat
          /\ Len(stack') >= 5 \/ (Len(stack') = 4 /\ Written')
          /\ \A k \in 1..4 : stack'[k] = stack[k]
      <4>1. CASE Written
        BY <1>2, <1>4, <1>6, <2>4, <4>1
      <4>2. CASE ~Written
        BY <1>2, <1>6, <2>4, <4>2
      <4>. QED BY <4>1, <4>2
    <3>. QED BY <2>4, <3>1, FloorFar
  <2>. QED BY <1>2, <2>2, <2>3, <2>4
<1>. QED BY <1>6, <1>11, <1>12, <1>13, <1>14, <1>15, <1>16 DEF IInv

LEMMA DispatchRouteKeeps == IInv /\ DispatchRoute => IInv'
<1>. SUFFICES ASSUME IInv, DispatchRoute PROVE IInv'
  OBVIOUS
<1>1. Running /\ Len(stack) >= 5 /\ Top.frame = "run" /\ Top.at = "loop" /\ Top.ctx = "global"
      /\ index["global"] >= Len(Chain["global"]) /\ ~Written
  BY High DEF DispatchRoute, LoopDone, InRun
<1>2. stack \in Seq(Frame) /\ stack # <<>> /\ Len(stack) \in Nat /\ Top = Last(stack)
  BY <1>1, RunIs
<1>. DEFINE f == Run("global", "tail")
            g == Run("route", "loop")
<1>3. f \in Frame /\ Runs(f, "global", "tail") /\ g \in Frame /\ Runs(g, "route", "loop")
  BY FramesAre DEF Ctx
<1>4. stack' = Append(Replace(f), g)
  BY DEF DispatchRoute
<1>5. UNCHANGED <<status, wire, handled, swallowed, escaped, bound, Written>>
  BY DEF DispatchRoute, Written
<1>. HIDE DEF f, g
<1>6. /\ stack' \in Seq(Frame) /\ Len(stack') = Len(stack) + 1
      /\ \A k \in 1..(Len(stack) - 1) : stack'[k] = stack[k]
      /\ Running' /\ Top' = g
  BY <1>1, <1>3, <1>4, CallLeaves
<1>7. Shape(stack')
  BY <1>1, <1>2, <1>3, <1>4, PushKeepsShape DEF IInv, Runs, Replace, Pop
<1>8. /\ index \in [Ctx -> Nat] /\ index' \in [Ctx -> Nat] /\ index'["global"] = index["global"]
      /\ entered' = [c \in Ctx |-> entered'[c]]
      /\ \A c \in Ctx : entered'[c] \in [Positions(c) -> 0..2]
      /\ entered'["global"] = entered["global"]
      /\ \A j \in Positions("route") : entered'["route"][j] = 0
  <2>1. /\ index \in [Ctx -> Nat] /\ entered = [c \in Ctx |-> entered[c]]
        /\ \A c \in Ctx : entered[c] \in [Positions(c) -> 0..2]
        /\ "route" \in Ctx /\ "global" \in Ctx
    BY DEF IInv, TypeOK, Ctx
  <2>2. /\ index' = [index EXCEPT !["route"] = 0]
        /\ entered' = [entered EXCEPT !["route"] = [j \in Positions("route") |-> 0]]
    BY DEF DispatchRoute
  <2>3. entered' = [c \in Ctx |-> IF c = "route" THEN [j \in Positions("route") |-> 0] ELSE entered[c]]
    BY <2>1, <2>2
  <2>4. [j \in Positions("route") |-> 0] \in [Positions("route") -> 0..2]
    OBVIOUS
  <2>. QED BY <2>1, <2>2, <2>3, <2>4
<1>9. AllGlobals
  <2>. SUFFICES ASSUME NEW j \in Positions("global") PROVE entered["global"][j] > 0
    BY DEF AllGlobals
  <2>1. Reached("global") = index["global"]
    BY <1>1, <1>8 DEF Reached, Runs, Ctx
  <2>2. j <= Reached("global")
    BY <1>1, <1>8, <2>1, Chains DEF Ctx
  <2>. QED BY <1>1, <2>2 DEF IInv, NothingSkipped
<1>10. AllGlobals' /\ RouteLast' /\ NothingSkipped'
  BY <1>8, <1>9 DEF AllGlobals, RouteLast, NothingSkipped
<1>11. NothingBehind'
  <2>. SUFFICES ASSUME NEW c \in Ctx, NEW j \in Positions(c), entered'[c][j] > 0
                PROVE  j <= Reached(c)'
    BY DEF NothingBehind
  <2>1. c = "global"
    BY <1>8 DEF Ctx
  <2>2. Reached("global")' = index["global"] + 1
    BY <1>3, <1>6, <1>8 DEF Reached, Runs
  <2>3. j <= Reached("global") /\ j \in Nat /\ index["global"] \in Nat
    BY <1>8, <2>1, Chains DEF IInv, NothingBehind, Ctx
  <2>4. j <= index["global"] + 1
    BY <2>3 DEF Reached
  <2>. QED BY <2>1, <2>2, <2>4
<1>12. HandledOK'
  <2>1. handled = 0 \/ swallowed \/ Written
    BY <1>1 DEF IInv, HandledOK, Runs
  <2>. QED BY <1>5, <2>1, HandledKept
<1>13. TypeOK' /\ Answers'
  BY <1>5, <1>6, <1>8 DEF IInv, TypeOK, Answers, PanicContained
<1>14. Floor'
  BY <1>1, <1>2, <1>6, FloorFar
<1>. QED BY <1>7, <1>10, <1>11, <1>12, <1>13, <1>14 DEF IInv

LEMMA CallHandlerKeeps == IInv /\ CallHandler => IInv'
<1>. SUFFICES ASSUME IInv, CallHandler PROVE IInv'
  OBVIOUS
<1>1. Running /\ Len(stack) >= 5 /\ Top.frame = "run" /\ Top.at = "loop" /\ Top.ctx = "route" /\ ~Written
  BY High DEF CallHandler, LoopDone, InRun
<1>2. stack \in Seq(Frame) /\ stack # <<>> /\ Len(stack) \in Nat /\ Top = Last(stack)
  BY <1>1, RunIs
<1>. DEFINE f == Run("route", "tail")
<1>3. /\ f \in Frame /\ Runs(f, "route", "tail")
      /\ Handler \in Frame /\ Handler.frame = "handler"
  BY FramesAre, PipelineAssumption DEF Ctx, Handler
<1>4. stack' = Append(Replace(f), Handler)
  BY DEF CallHandler
<1>5. UNCHANGED <<status, wire, index, entered, swallowed, escaped, bound, Written>>
  BY DEF CallHandler, Written
<1>. HIDE DEF f
<1>6. /\ stack' \in Seq(Frame) /\ Len(stack') = Len(stack) + 1
      /\ \A k \in 1..(Len(stack) - 1) : stack'[k] = stack[k]
      /\ Running' /\ Top' = Handler
  BY <1>1, <1>3, <1>4, CallLeaves
<1>7. Shape(stack')
  BY <1>1, <1>2, <1>3, <1>4, PushKeepsShape DEF IInv, Runs, Replace, Pop
<1>8. \A c \in Ctx : index[c] \in Nat /\ Reached(c)' = index[c] + 1
                     /\ (Reached(c) = index[c] \/ Reached(c) = index[c] + 1)
  BY <1>3, <1>5, <1>6 DEF IInv, TypeOK, Reached, Runs
<1>9. NothingBehind'
  <2>. SUFFICES ASSUME NEW c \in Ctx, NEW j \in Positions(c), entered[c][j] > 0
                PROVE  j <= index[c] + 1
    BY <1>5, <1>8 DEF NothingBehind
  <2>1. j <= Reached(c) /\ j \in Nat
    BY Chains DEF IInv, NothingBehind
  <2>. QED BY <1>8, <2>1
<1>10. AllGlobals' /\ RouteLast' /\ NothingSkipped'
  <2>1. AllGlobals
    BY <1>1, RouteBehind DEF OfRoute
  <2>. QED BY <1>5, <2>1 DEF AllGlobals, RouteLast, NothingSkipped
<1>11. HandledOK'
  <2>1. handled = 0 \/ swallowed
    BY <1>1 DEF IInv, HandledOK, Runs
  <2>2. handled' = Twice(handled)
    BY DEF CallHandler
  <2>. QED BY <1>3, <1>5, <1>6, <2>1, <2>2 DEF HandledOK, Twice
<1>12. TypeOK' /\ Answers'
  <2>1. handled' \in 0..2
    BY DEF CallHandler, Twice, IInv, TypeOK
  <2>. QED BY <1>5, <1>6, <2>1 DEF IInv, TypeOK, Answers, PanicContained
<1>13. Floor'
  BY <1>1, <1>2, <1>6, FloorFar
<1>. QED BY <1>7, <1>9, <1>10, <1>11, <1>12, <1>13 DEF IInv

-------------------------------------------------------------------------------
\* The request begins in the loop of ServeHTTP's Run.
LEMMA InitHolds == Init => IInv
<1>. SUFFICES ASSUME Init PROVE IInv
  OBVIOUS
<1>1. Run("global", "loop") \in Frame /\ Runs(Run("global", "loop"), "global", "loop")
  BY FramesAre DEF Ctx
<1>2. stack \in Seq(Frame) /\ Len(stack) = 1 /\ stack[1] = Run("global", "loop") /\ Running
  BY <1>1 DEF Init, Running
<1>3. Shape(stack)
  BY <1>1, <1>2 DEF Shape, Runs
<1>4. Floor
  BY <1>2 DEF Init, Floor, Written, Ctx
<1>5. TypeOK /\ Answers /\ HandledOK
  <2>1. entered = [ctx \in Ctx |-> entered[ctx]]
    BY DEF Init
  <2>2. \A ctx \in Ctx : entered[ctx] \in [Positions(ctx) -> 0..2]
    BY DEF Init
  <2>3. index \in [Ctx -> Nat]
    BY DEF Init
  <2>4. <<bound, swallowed, escaped>> \in BOOLEAN \X BOOLEAN \X BOOLEAN
    BY DEF Init
  <2>5. TypeOK
    BY <1>2, <2>1, <2>2, <2>3, <2>4 DEF Init, TypeOK
  <2>6. Answers /\ HandledOK
    BY DEF Init, Answers, HandledOK, Written, PanicContained
  <2>. QED BY <2>5, <2>6
<1>6. NothingBehind
  BY DEF Init, NothingBehind
<1>7. NothingSkipped
  <2>. SUFFICES ASSUME NEW j \in Positions("global"), j <= Reached("global") PROVE FALSE
    BY DEF NothingSkipped
  <2>1. Top = Run("global", "loop")
    BY <1>2 DEF Top, Last
  <2>2. Reached("global") = 0
    BY <1>1, <1>2, <2>1 DEF Init, Reached, Ctx
  <2>. QED BY <2>2, Chains DEF Ctx
<1>8. RouteLast
  BY <1>1, <1>2 DEF RouteLast, OfRoute, Runs
<1>. QED BY <1>3, <1>4, <1>5, <1>6, <1>7, <1>8 DEF IInv

LEMMA NextHolds == IInv /\ [Next]_vars => IInv'
<1>. SUFFICES ASSUME IInv, [Next]_vars PROVE IInv'
  OBVIOUS
<1>1. CASE Step
  BY <1>1, CallMiddlewareKeeps, MiddlewareReturnedKeeps, DispatchRouteKeeps, NoRouteKeeps,
     NotFoundKeeps, CallHandlerKeeps, SkipHandlerKeeps, RunEndsKeeps, BuiltinNextKeeps,
     BuiltinReturnsKeeps, UserNextKeeps, UserWritesKeeps, UserWritesBodyKeeps,
     UserReturnsKeeps, UserPanicsKeeps DEF Step
<1>2. CASE UNCHANGED vars
  BY <1>2 DEF vars, IInv, TypeOK, Shape, Floor, Above, Answers, PanicContained, Written,
     NothingBehind, NothingSkipped, Reached, Running, Top, Last, RouteLast, AllGlobals, HandledOK
<1>. QED BY <1>1, <1>2 DEF Next, Served

\* The state of the request's goroutine is always as described.
LEMMA Invariance == Spec => []IInv
BY InitHolds, NextHolds, PTL DEF Spec

\* However the middlewares nest their calls of Next and write, the handler is called once
\* at most, unless one of them swallows a panic (context.go:73-92).
THEOREM HandledOnce == Spec => []HandlerAtMostOnce
<1>1. IInv => HandlerAtMostOnce
  BY DEF IInv, TypeOK, HandledOK, HandlerAtMostOnce
<1>. QED BY <1>1, Invariance, PTL

\* Recovery is below all user code, and is not left before the request is answered
\* (http_server.go:61-62, recovery.go:116-139).
THEOREM PanicsAreContained == Spec => []PanicContained
<1>1. IInv => PanicContained
  BY DEF IInv, Answers
<1>. QED BY <1>1, Invariance, PTL

\* The safety half of EventuallyAnswered: ServeHTTP does not return before a status line
\* went out (context.go:84-90, 147-149).
THEOREM ReturnsAnswered == Spec => [](Running \/ wire # 0)
<1>1. IInv => Running \/ wire # 0
  <2>. SUFFICES ASSUME IInv, ~Running PROVE wire # 0
    OBVIOUS
  <2>1. Len(stack) = 0
    BY EmptySeq DEF Running
  <2>. QED BY <2>1 DEF IInv, Floor, Answers
<1>. QED BY <1>1, Invariance, PTL

\* Only CallMiddleware calls a middleware, and it is the one at index.
LEMMA WhoEnters ==
  ASSUME IInv, [Next]_vars, NEW ctx \in Ctx, NEW i \in Positions(ctx), Enters(ctx, i)
  PROVE  Running /\ Runs(Top, ctx, "loop") /\ i = index[ctx] + 1
<1>1. /\ entered = [c \in Ctx |-> entered[c]] /\ "route" \in Ctx
      /\ \A c \in Ctx : entered[c] \in [Positions(c) -> 0..2]
  BY DEF IInv, TypeOK, Ctx
<1>2. CallMiddleware
  <2>1. CASE DispatchRoute
    <3>1. entered' = [entered EXCEPT !["route"] = [j \in Positions("route") |-> 0]]
      BY <2>1 DEF DispatchRoute
    <3>2. entered'[ctx][i] = 0 \/ entered'[ctx][i] = entered[ctx][i]
      BY <1>1, <3>1
    <3>3. entered[ctx][i] \in 0..2
      BY <1>1
    <3>. QED BY <3>2, <3>3 DEF Enters
  <2>2. CASE UNCHANGED entered
    <3>1. entered[ctx][i] \in 0..2
      BY <1>1
    <3>. QED BY <2>2, <3>1 DEF Enters
  <2>. QED BY <2>1, <2>2 DEF Next, Step, Served, vars, history, MiddlewareReturned, NoRoute,
         NotFoundBehindLoop, CallHandler, SkipHandler, RunEnds, BuiltinNext, BuiltinReturns,
         UserNext, Next_, UserWrites, UserWritesBody, UserReturns, UserPanics
<1>3. Running /\ Top.frame = "run" /\ Top.at = "loop" /\ Top.ctx \in Ctx
  BY <1>2, RunIs DEF CallMiddleware, InRun
<1>4. entered' = [entered EXCEPT ![Top.ctx][index[Top.ctx] + 1] = Twice(@)]
  BY <1>2 DEF CallMiddleware
<1>5. ctx = Top.ctx /\ i = index[Top.ctx] + 1
  <2>1. CASE ~(ctx = Top.ctx /\ i = index[Top.ctx] + 1)
    <3>1. entered'[ctx][i] = entered[ctx][i]
      BY <1>1, <1>3, <1>4, <2>1
    <3>2. entered[ctx][i] \in 0..2
      BY <1>1
    <3>. QED BY <3>1, <3>2 DEF Enters
  <2>. QED BY <2>1
<1>. QED BY <1>3, <1>5 DEF Runs

\* A middleware is called once per context, and none behind it was called before
\* (context.go:64-79).
THEOREM CalledOnceInOrder == Spec => OnceInOrder
<1>. DEFINE InOrder == \A ctx \in Ctx : \A i \in Positions(ctx) :
                         Enters(ctx, i) => \A j \in Positions(ctx) : j >= i => entered[ctx][j] = 0
<1>1. IInv /\ [Next]_vars => InOrder
  <2>. SUFFICES ASSUME IInv, [Next]_vars, NEW ctx \in Ctx, NEW i \in Positions(ctx),
                       Enters(ctx, i), NEW j \in Positions(ctx), j >= i
                PROVE  entered[ctx][j] = 0
    OBVIOUS
  <2>1. Running /\ Runs(Top, ctx, "loop") /\ i = index[ctx] + 1
    BY WhoEnters
  <2>2. index[ctx] \in Nat /\ entered[ctx][j] \in 0..2 /\ j \in Nat
    BY Chains DEF IInv, TypeOK
  <2>3. Reached(ctx) = index[ctx]
    BY <2>1, <2>2 DEF Reached
  <2>4. ~(entered[ctx][j] > 0)
    BY <2>1, <2>2, <2>3 DEF IInv, NothingBehind
  <2>. QED BY <2>2, <2>4
<1>2. IInv /\ [Next]_vars => [InOrder]_vars
  BY <1>1
<1>3. Spec => [][Next]_vars
  BY PTL DEF Spec
<1>. QED BY <1>2, <1>3, Invariance, PTL DEF OnceInOrder

\* Neither the handler nor a middleware of a route is called before all middlewares of the
\* server were (context.go:82-91).
THEOREM GlobalsFirst == Spec => GlobalsBeforeRoute
<1>. DEFINE Behind == (handled' # handled \/ \E i \in Positions("route") : Enters("route", i))
                        => \A i \in Positions("global") : entered.global[i] > 0
<1>1. IInv /\ [Next]_vars => Behind
  <2>. SUFFICES ASSUME IInv, [Next]_vars,
                       handled' # handled \/ \E i \in Positions("route") : Enters("route", i)
                PROVE  AllGlobals
    BY DEF AllGlobals
  <2>1. CASE handled' # handled
    <3>1. CallHandler
      BY <2>1 DEF Next, Step, Served, vars, history, CallMiddleware, MiddlewareReturned,
         DispatchRoute, NoRoute, NotFoundBehindLoop, SkipHandler, RunEnds, BuiltinNext,
         BuiltinReturns, UserNext, Next_, UserWrites, UserWritesBody, UserReturns, UserPanics
    <3>. QED BY <3>1, RouteBehind DEF CallHandler, LoopDone, InRun, OfRoute
  <2>2. CASE \E i \in Positions("route") : Enters("route", i)
    <3>1. Running /\ Runs(Top, "route", "loop")
      BY <2>2, WhoEnters DEF Ctx
    <3>. QED BY <3>1, RouteBehind DEF Runs, OfRoute
  <2>. QED BY <2>1, <2>2
<1>2. IInv /\ [Next]_vars => [Behind]_vars
  BY <1>1
<1>3. Spec => [][Next]_vars
  BY PTL DEF Spec
<1>. QED BY <1>2, <1>3, Invariance, PTL DEF GlobalsBeforeRoute

================================================================================

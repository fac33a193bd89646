----------------------- MODULE RequirementIntake_proofs -----------------------
(***************************************************************************)
(* Theorems about RequirementIntake: whatever the drafts, the patches, the *)
(* requests and the number of rounds, the questions, the receipts and the  *)
(* plan of a session fit together.                                         *)
(*                                                                         *)
(* The checkpoint runs ahead of the session while a call is in progress,   *)
(* and stays ahead when the call fails.  The invariant says by how much:   *)
(* the graph of a resume is in the round of the question that the session  *)
(* shows until it asks the next one, and a checkpoint that the session has *)
(* not caught up with accepts no answer.                                   *)
(***************************************************************************)
EXTENDS RequirementIntake, FiniteSetTheorems, TLAPS

ThreadFields == {"next", "asked", "draft", "issues", "targets", "round", "exhausted",
                 "input", "patch", "searched", "found"}

IsThread ==
    /\ DOMAIN thread = ThreadFields
    /\ thread.next \in Nodes /\ thread.round \in 0..MaxRounds
    /\ thread.asked \in BOOLEAN /\ thread.exhausted \in BOOLEAN
    /\ thread.asked => thread.next = "await" /\ thread.round > 0
    /\ thread.exhausted => thread.next \in {"exhausted", "end"} /\ thread.round = MaxRounds
    /\ thread.input # None =>
          thread.next \in {"patch", "apply"} /\ thread.input.interrupt = thread.round

ThreadFits == thread # None => IsThread

Running == call # None /\ call.at \in {"graph", "returned"}

\* The round of the question that the caller has answered.
Seen == IF call.op = "resume" THEN session.question ELSE 0

CallFits ==
    call # None =>
        /\ DOMAIN call = {"op", "request", "at"}
        /\ call.op \in {"text", "trip", "resume"} /\ call.at \in {"graph", "returned", "start"}
        /\ Running /\ call.op # "resume" => session = None
        /\ Running /\ call.op = "resume" =>
              /\ session # None /\ session.status = "waiting" /\ session.question # 0
              /\ call.request \in Requests \ session.receipts
              /\ thread.next # "parse"
        /\ Running /\ call.op = "trip" => thread = None

RoundFits ==
    Running /\ call.op # "trip" =>
        /\ thread.round = IF thread.next = "await" THEN Seen + 1 ELSE Seen
        /\ call.at = "graph" => ~thread.asked
        /\ call.at = "returned" => thread.asked \/ thread.next = "end"

SessionFits ==
    session # None =>
        /\ session.status \in {"waiting", "awaiting"}
        /\ session.receipts \subseteq Requests /\ IsFiniteSet(session.receipts)
        /\ session.question \in 0..MaxRounds
        /\ session.status = "waiting" => IsThread

TargetsFit ==
    session # None /\ session.question # 0
        /\ thread.next \in {"await", "patch", "apply"} /\ thread.round = session.question
        => thread.targets = session.targets

IInv ==
    /\ ThreadFits /\ CallFits /\ RoundFits /\ SessionFits /\ TargetsFit
    /\ AwaitingHasPlan /\ OneReceiptPerQuestion /\ ExhaustedAfterAllRounds

-----------------------------------------------------------------------------
LEMMA InitFits == Init => IInv
<1> SUFFICES ASSUME Init PROVE IInv
  OBVIOUS
<1> QED
  BY DEF Init, IInv, ThreadFits, CallFits, RoundFits, SessionFits, TargetsFit, Running,
         AwaitingHasPlan, OneReceiptPerQuestion, ExhaustedAfterAllRounds

\* A node that neither asks nor receives an answer leaves the round as it is.
LEMMA WithinRound ==
    ASSUME IInv, Running, call.at = "graph", thread # None, thread.next # "await",
           UNCHANGED session,
           DOMAIN thread' = ThreadFields, thread'.next \in Nodes \ {"parse", "await"},
           thread'.round = thread.round, thread'.asked = thread.asked,
           thread'.exhausted \in BOOLEAN,
           thread'.exhausted =>
              thread'.next \in {"exhausted", "end"} /\ thread'.round = MaxRounds,
           thread'.input # None =>
              thread'.input = thread.input /\ thread'.next \in {"patch", "apply"},
           thread'.next \in {"patch", "apply"} =>
              thread.next \in {"patch", "apply"} /\ thread'.targets = thread.targets,
           call' = call \/ (thread'.next = "end" /\ Return)
    PROVE  IInv'
<1>1. IsThread /\ call.op # "trip" /\ ~thread.asked
  BY DEF IInv, ThreadFits, CallFits, RoundFits, Running
<1>2. IsThread'
  BY <1>1 DEF IsThread
<1>a. ThreadFits'
  BY <1>2 DEF ThreadFits
<1>3. /\ DOMAIN call' = {"op", "request", "at"} /\ call'.op = call.op
      /\ call'.request = call.request
      /\ call'.at = "graph" \/ (call'.at = "returned" /\ thread'.next = "end")
  BY DEF IInv, CallFits, Running, Return
<1>4. CallFits'
  BY <1>1, <1>3 DEF IInv, CallFits, Running
<1>5. RoundFits'
  BY <1>1, <1>3 DEF IInv, RoundFits, Running, Seen
<1>6. SessionFits' /\ TargetsFit'
  BY <1>2 DEF IInv, SessionFits, TargetsFit
<1>7. session # None => session.status = "waiting"
  BY DEF IInv, CallFits, Running
<1>8. AwaitingHasPlan' /\ OneReceiptPerQuestion' /\ ExhaustedAfterAllRounds'
  BY <1>7 DEF IInv, AwaitingHasPlan, OneReceiptPerQuestion, ExhaustedAfterAllRounds
<1> QED
  BY <1>a, <1>4, <1>5, <1>6, <1>8 DEF IInv

LEMMA ParseKeeps == IInv /\ ParseRequirement => IInv'
<1> SUFFICES ASSUME IInv, ParseRequirement PROVE IInv'
  OBVIOUS
<1>1. IsThread /\ Running
  BY DEF ParseRequirement, At, IInv, ThreadFits, Running
<1>2. /\ DOMAIN thread' = ThreadFields /\ thread'.round = thread.round
      /\ thread'.asked = thread.asked
      /\ thread'.next \in {"validate"} /\ thread'.exhausted = thread.exhausted
      /\ thread'.input = thread.input
  BY <1>1, RoundsAssumption DEF ParseRequirement, At, Continue, IsThread, ThreadFields, Nodes
<1> QED
  BY <1>1, <1>2, WithinRound DEF ParseRequirement, At, Continue, IsThread, ThreadFields, Nodes

LEMMA ValidateKeeps == IInv /\ ValidateRequirement => IInv'
<1> SUFFICES ASSUME IInv, ValidateRequirement PROVE IInv'
  OBVIOUS
<1>1. IsThread /\ Running
  BY DEF ValidateRequirement, At, IInv, ThreadFits, Running
<1>2. /\ DOMAIN thread' = ThreadFields /\ thread'.round = thread.round
      /\ thread'.asked = thread.asked
      /\ thread'.next \in {"request", "resolve"} /\ thread'.exhausted = thread.exhausted
      /\ thread'.input = thread.input
  BY <1>1, RoundsAssumption DEF ValidateRequirement, At, Continue, IsThread, ThreadFields, Nodes
<1> QED
  BY <1>1, <1>2, WithinRound DEF ValidateRequirement, At, Continue, IsThread, ThreadFields, Nodes

LEMMA ResolveKeeps == IInv /\ ResolveAnchors => IInv'
<1> SUFFICES ASSUME IInv, ResolveAnchors PROVE IInv'
  OBVIOUS
<1>1. IsThread /\ Running
  BY DEF ResolveAnchors, At, IInv, ThreadFits, Running
<1>2. /\ DOMAIN thread' = ThreadFields /\ thread'.round = thread.round
      /\ thread'.asked = thread.asked
      /\ thread'.next \in {"evaluate"} /\ thread'.exhausted = thread.exhausted
      /\ thread'.input = thread.input
  BY <1>1, RoundsAssumption DEF ResolveAnchors, At, Continue, IsThread, ThreadFields, Nodes
<1> QED
  BY <1>1, <1>2, WithinRound DEF ResolveAnchors, At, Continue, IsThread, ThreadFields, Nodes

LEMMA EvaluateKeeps == IInv /\ EvaluateAnchors => IInv'
<1> SUFFICES ASSUME IInv, EvaluateAnchors PROVE IInv'
  OBVIOUS
<1>1. IsThread /\ Running
  BY DEF EvaluateAnchors, At, IInv, ThreadFits, Running
<1>2. /\ DOMAIN thread' = ThreadFields /\ thread'.round = thread.round
      /\ thread'.asked = thread.asked
      /\ thread'.next \in {"request", "assemble"} /\ thread'.exhausted = thread.exhausted
      /\ thread'.input = thread.input
  BY <1>1, RoundsAssumption DEF EvaluateAnchors, At, Continue, IsThread, ThreadFields, Nodes
<1> QED
  BY <1>1, <1>2, WithinRound DEF EvaluateAnchors, At, Continue, IsThread, ThreadFields, Nodes

LEMMA ExhaustedKeeps == IInv /\ ClarificationExhausted => IInv'
<1> SUFFICES ASSUME IInv, ClarificationExhausted PROVE IInv'
  OBVIOUS
<1>1. IsThread /\ Running
  BY DEF ClarificationExhausted, At, IInv, ThreadFits, Running
<1>2. /\ DOMAIN thread' = ThreadFields /\ thread'.round = thread.round
      /\ thread'.asked = thread.asked
      /\ thread'.next \in {"end"} /\ thread'.exhausted = thread.exhausted
      /\ thread'.input = thread.input
  BY <1>1, RoundsAssumption DEF ClarificationExhausted, At, Continue, IsThread, ThreadFields, Nodes, Return
<1> QED
  BY <1>1, <1>2, WithinRound DEF ClarificationExhausted, At, Continue, IsThread, ThreadFields, Nodes, Return

LEMMA PatchKeeps == IInv /\ ParseClarificationPatch => IInv'
<1> SUFFICES ASSUME IInv, ParseClarificationPatch PROVE IInv'
  OBVIOUS
<1>1. IsThread /\ Running
  BY DEF ParseClarificationPatch, At, IInv, ThreadFits, Running
<1>2. /\ DOMAIN thread' = ThreadFields /\ thread'.round = thread.round
      /\ thread'.asked = thread.asked
      /\ thread'.next \in {"apply"} /\ thread'.exhausted = thread.exhausted
      /\ thread'.input = thread.input
      /\ thread'.targets = thread.targets
  BY <1>1, RoundsAssumption DEF ParseClarificationPatch, At, Continue, IsThread, ThreadFields, Nodes
<1> QED
  BY <1>1, <1>2, WithinRound DEF ParseClarificationPatch, At, Continue, IsThread, ThreadFields, Nodes

LEMMA ApplyKeeps == IInv /\ ApplyClarificationPatch => IInv'
<1> SUFFICES ASSUME IInv, ApplyClarificationPatch PROVE IInv'
  OBVIOUS
<1>1. IsThread /\ Running
  BY DEF ApplyClarificationPatch, At, IInv, ThreadFits, Running
<1>2. /\ DOMAIN thread' = ThreadFields /\ thread'.round = thread.round
      /\ thread'.asked = thread.asked
      /\ thread'.next \in {"validate", "request"} /\ thread'.exhausted = thread.exhausted
      /\ thread'.input = None
  BY <1>1, RoundsAssumption DEF ApplyClarificationPatch, At, Continue, IsThread, ThreadFields, Nodes
<1> QED
  BY <1>1, <1>2, WithinRound DEF ApplyClarificationPatch, At, Continue, IsThread, ThreadFields, Nodes

LEMMA RetrieveKeeps == IInv /\ RetrievePreferences => IInv'
<1> SUFFICES ASSUME IInv, RetrievePreferences PROVE IInv'
  OBVIOUS
<1>1. IsThread /\ Running
  BY DEF RetrievePreferences, At, IInv, ThreadFits, Running
<1>2. /\ DOMAIN thread' = ThreadFields /\ thread'.round = thread.round
      /\ thread'.asked = thread.asked
      /\ thread'.next \in {"plan"} /\ thread'.exhausted = thread.exhausted
      /\ thread'.input = thread.input
  BY <1>1, RoundsAssumption DEF RetrievePreferences, At, Continue, IsThread, ThreadFields, Nodes
<1> QED
  BY <1>1, <1>2, WithinRound DEF RetrievePreferences, At, Continue, IsThread, ThreadFields, Nodes

LEMMA PlanKeeps == IInv /\ ExecutePlanning => IInv'
<1> SUFFICES ASSUME IInv, ExecutePlanning PROVE IInv'
  OBVIOUS
<1>1. IsThread /\ Running
  BY DEF ExecutePlanning, At, IInv, ThreadFits, Running
<1>2. /\ DOMAIN thread' = ThreadFields /\ thread'.round = thread.round
      /\ thread'.asked = thread.asked
      /\ thread'.next \in {"end"} /\ thread'.exhausted = thread.exhausted
      /\ thread'.input = thread.input
  BY <1>1, RoundsAssumption DEF ExecutePlanning, At, Continue, IsThread, ThreadFields, Nodes, Return
<1> QED
  BY <1>1, <1>2, WithinRound DEF ExecutePlanning, At, Continue, IsThread, ThreadFields, Nodes, Return

\* A call that fails leaves a checkpoint that the next answer may or may not fit.
LEMMA FailKeeps ==
    IInv /\ call' = None /\ UNCHANGED <<thread, planned, session, lifecycle>> => IInv'
  BY DEF IInv, ThreadFits, CallFits, RoundFits, SessionFits, TargetsFit, Running, Seen,
         IsThread, AwaitingHasPlan, OneReceiptPerQuestion, ExhaustedAfterAllRounds

LEMMA AssembleKeeps == IInv /\ AssembleTripSpec => IInv'
<1> SUFFICES ASSUME IInv, AssembleTripSpec PROVE IInv'
  OBVIOUS
<1>1. CASE Continue([thread EXCEPT !.next = "retrieve"])
  <2>1. IsThread /\ Running
    BY DEF AssembleTripSpec, At, IInv, ThreadFits, Running
  <2>2. /\ DOMAIN thread' = ThreadFields /\ thread'.round = thread.round
        /\ thread'.asked = thread.asked
        /\ thread'.next \in {"retrieve"} /\ thread'.exhausted = thread.exhausted
        /\ thread'.input = thread.input
    BY <1>1, <2>1 DEF Continue, IsThread, ThreadFields
  <2> QED
    BY <1>1, <2>1, <2>2, WithinRound DEF AssembleTripSpec, At, Continue, IsThread, Nodes
<1>2. CASE call' = None /\ UNCHANGED <<thread, planned, session, lifecycle>>
  BY <1>2, FailKeeps
<1> QED
  BY <1>1, <1>2 DEF AssembleTripSpec

\* The next question is the one after the round that the caller has seen.
LEMMA RequestKeeps == IInv /\ RequestClarification => IInv'
<1> SUFFICES ASSUME IInv, RequestClarification PROVE IInv'
  OBVIOUS
<1>1. IsThread /\ Running /\ call.at = "graph" /\ thread.next = "request" /\ thread # None
  BY DEF RequestClarification, At, IInv, ThreadFits, Running
<1>2. CASE IsExhausted
  <2>1. /\ DOMAIN thread' = ThreadFields /\ thread'.round = thread.round
        /\ thread'.asked = thread.asked
        /\ thread'.next = "exhausted" /\ thread'.exhausted = TRUE
        /\ thread'.input = thread.input /\ thread'.round = MaxRounds
        /\ UNCHANGED <<planned, session, lifecycle, call>>
    <3>1. thread.round = MaxRounds
      BY <1>1, <1>2, RoundsAssumption DEF IsThread, IsExhausted
    <3>2. Continue([thread EXCEPT !.targets = Targets(thread.issues), !.exhausted = TRUE,
                                  !.next = "exhausted"])
      BY <1>2 DEF RequestClarification, AfterExhausted
    <3> QED
      BY <1>1, <3>1, <3>2 DEF Continue, IsThread, ThreadFields
  <2> QED
    BY <1>1, <2>1, WithinRound DEF IsThread, Nodes
<1>3. CASE ~IsExhausted
  <2>1. /\ DOMAIN thread' = ThreadFields /\ thread'.round = thread.round + 1
        /\ thread'.asked = thread.asked
        /\ thread'.next = "await" /\ thread'.exhausted = thread.exhausted
        /\ thread'.input = None
        /\ UNCHANGED <<planned, session, lifecycle, call>>
    <3>1. Continue([thread EXCEPT !.targets = Targets(thread.issues),
                                  !.round = thread.round + 1,
                                  !.input = None, !.patch = None, !.next = "await"])
      BY <1>3 DEF RequestClarification
    <3> QED
      BY <1>1, <3>1 DEF Continue, IsThread, ThreadFields
  <2>a. thread.round + 1 \in 0..MaxRounds /\ thread.exhausted = FALSE /\ thread.asked = FALSE
    BY <1>1, <1>3, RoundsAssumption DEF IsThread, IsExhausted
  <2>2. IsThread' /\ ThreadFits'
    BY <2>1, <2>a DEF IsThread, ThreadFits, Nodes
  <2>3. call.op # "trip"
    BY <1>1 DEF IInv, CallFits, RequestClarification, At
  <2>4. CallFits' /\ RoundFits'
    BY <1>1, <2>1, <2>3 DEF IInv, CallFits, RoundFits, Running, Seen
  <2>5. SessionFits'
    BY <2>1, <2>2 DEF IInv, SessionFits
  <2>6. session # None => thread'.round = session.question + 1
    BY <1>1, <2>1, <2>3 DEF IInv, CallFits, RoundFits, Running, Seen
  <2>7. TargetsFit'
    BY <2>1, <2>6 DEF IInv, SessionFits, TargetsFit
  <2>8. AwaitingHasPlan' /\ OneReceiptPerQuestion' /\ ExhaustedAfterAllRounds'
    BY <2>1 DEF IInv, AwaitingHasPlan, OneReceiptPerQuestion, ExhaustedAfterAllRounds
  <2> QED
    BY <2>2, <2>4, <2>5, <2>7, <2>8 DEF IInv
<1> QED
  BY <1>2, <1>3

LEMMA AwaitKeeps == IInv /\ AwaitClarification => IInv'
<1> SUFFICES ASSUME IInv, AwaitClarification PROVE IInv'
  OBVIOUS
<1>1. IsThread /\ Running /\ call.at = "graph" /\ thread.next = "await" /\ ~thread.asked
  BY DEF AwaitClarification, At, IInv, ThreadFits, Running
<1>2. call.op # "trip" /\ thread.round = Seen + 1
  BY <1>1 DEF IInv, CallFits, RoundFits, AwaitClarification, At
<1>3. /\ DOMAIN thread' = ThreadFields /\ thread'.round = thread.round
      /\ thread'.asked = TRUE /\ thread'.targets = thread.targets
      /\ thread'.next = "await" /\ thread'.exhausted = thread.exhausted
      /\ thread'.input = thread.input
  BY <1>1 DEF AwaitClarification, IsThread, ThreadFields
<1>4. /\ DOMAIN call' = {"op", "request", "at"} /\ call'.op = call.op
      /\ call'.request = call.request /\ call'.at = "returned"
      /\ UNCHANGED <<planned, session, lifecycle>>
  BY <1>1 DEF AwaitClarification, IInv, CallFits, Running, Return
<1>5. thread.round > 0
  BY <1>1, <1>2 DEF IInv, CallFits, SessionFits, Running, Seen, IsThread
<1>6. IsThread' /\ ThreadFits'
  BY <1>1, <1>3, <1>5 DEF IsThread, ThreadFits
<1>7. CallFits' /\ RoundFits'
  BY <1>1, <1>2, <1>3, <1>4 DEF IInv, CallFits, RoundFits, Running, Seen
<1>8. SessionFits' /\ TargetsFit'
  BY <1>1, <1>3, <1>4, <1>6 DEF IInv, SessionFits, TargetsFit
<1>9. AwaitingHasPlan' /\ OneReceiptPerQuestion' /\ ExhaustedAfterAllRounds'
  BY <1>4 DEF IInv, AwaitingHasPlan, OneReceiptPerQuestion, ExhaustedAfterAllRounds
<1> QED
  BY <1>6, <1>7, <1>8, <1>9 DEF IInv

-----------------------------------------------------------------------------
(* The calls. *)

LEMMA FromTextKeeps == IInv /\ AskFromText => IInv'
  BY RoundsAssumption
  DEF IInv, ThreadFits, CallFits, RoundFits, SessionFits, TargetsFit, Running, Seen,
      IsThread, ThreadFields, Nodes, AwaitingHasPlan, OneReceiptPerQuestion,
      ExhaustedAfterAllRounds, AskFromText, NewThread, Begin

LEMMA FromTripKeeps == IInv /\ AskFromTrip => IInv'
  BY DEF IInv, ThreadFits, CallFits, RoundFits, SessionFits, TargetsFit, Running, Seen,
      IsThread, AwaitingHasPlan, OneReceiptPerQuestion,
      ExhaustedAfterAllRounds, AskFromTrip, Begin

LEMMA PlanTripKeeps == IInv /\ PlanTrip => IInv'
  BY DEF IInv, ThreadFits, CallFits, RoundFits, SessionFits, TargetsFit, Running, Seen,
      IsThread, AwaitingHasPlan, OneReceiptPerQuestion,
      ExhaustedAfterAllRounds, PlanTrip, Return

\* What resume accepts is in the round of the question that the session shows.
LEMMA ResumeKeeps ==
    ASSUME IInv, NEW i \in 1..MaxRounds, NEW q \in Requests, NEW a \in Answers,
           AskResume(i, q, a)
    PROVE  IInv'
<1>1. /\ IsThread /\ session # None /\ session.status = "waiting" /\ session.question = i
      /\ q \in Requests \ session.receipts
      /\ UNCHANGED <<planned, session, lifecycle>>
  BY DEF AskResume, Accepts, IInv, SessionFits
<1>2. thread.round = i
  BY <1>1, InputAssumption DEF AskResume, Accepts, IsPending, IsRetry, Input, IsThread
<1>3. /\ DOMAIN thread' = ThreadFields /\ thread'.round = i
      /\ thread'.asked = FALSE /\ thread'.targets = thread.targets
      /\ thread'.next \in {"patch", "apply"} /\ thread'.exhausted = FALSE
      /\ thread'.input # None => thread'.input.interrupt = i
  <2>1. CASE thread.asked
    <3>1. thread.exhausted = FALSE
      BY <1>1, <2>1 DEF IsThread
    <3>2. thread' = [thread EXCEPT !.asked = FALSE, !.input = Input(i, q, a), !.next = "patch"]
      BY <2>1 DEF AskResume, Answered
    <3>3. Input(i, q, a).interrupt = i
      BY DEF Input
    <3> QED
      BY <1>1, <1>2, <3>1, <3>2, <3>3 DEF IsThread, ThreadFields
  <2>2. CASE ~thread.asked
    <3>1. thread.input = Input(i, q, a) /\ thread.input # None
      BY <2>2, InputAssumption DEF AskResume, Accepts, IsPending, IsRetry, Input
    <3>2. thread.next \in {"patch", "apply"} /\ thread.input.interrupt = i
      BY <1>1, <1>2, <3>1 DEF IsThread
    <3>3. thread.exhausted = FALSE /\ thread.asked = FALSE
      BY <1>1, <2>2, <3>2 DEF IsThread
    <3>4. thread' = thread
      BY <2>2 DEF AskResume
    <3> QED
      BY <1>1, <1>2, <3>2, <3>3, <3>4 DEF IsThread
  <2> QED
    BY <2>1, <2>2
<1>4. IsThread' /\ ThreadFits'
  BY <1>1, <1>2, <1>3 DEF IsThread, ThreadFits, Nodes
<1>5. /\ DOMAIN call' = {"op", "request", "at"} /\ call'.op = "resume"
      /\ call'.request = q /\ call'.at = "graph"
  BY DEF AskResume, Begin
<1>6. CallFits' /\ RoundFits'
  BY <1>1, <1>3, <1>5 DEF CallFits, RoundFits, Running, Seen
<1>7. SessionFits'
  BY <1>1, <1>4 DEF IInv, SessionFits
<1>8. TargetsFit'
  <2>1. thread.next \in {"await", "patch", "apply"}
    BY <1>1, InputAssumption DEF AskResume, Accepts, IsPending, IsRetry, Input, IsThread
  <2> QED
    BY <1>1, <1>2, <1>3, <2>1 DEF IInv, TargetsFit
<1>9. AwaitingHasPlan' /\ OneReceiptPerQuestion' /\ ExhaustedAfterAllRounds'
  BY <1>1 DEF IInv, AwaitingHasPlan, OneReceiptPerQuestion, ExhaustedAfterAllRounds
<1> QED
  BY <1>4, <1>6, <1>7, <1>8, <1>9 DEF IInv

\* One receipt for each round that was answered.
LEMMA ReceiptsCount ==
    ASSUME IInv, Running, call.op # "trip"
    PROVE  /\ Receipts \subseteq Requests /\ IsFiniteSet(Receipts)
           /\ Cardinality(Receipts) = Seen
<1>1. CASE call.op = "resume"
  <2>1. /\ session # None /\ session.status = "waiting" /\ session.question # 0
        /\ call.request \in Requests \ session.receipts
    BY <1>1 DEF IInv, CallFits, Running
  <2>2. /\ session.receipts \subseteq Requests /\ IsFiniteSet(session.receipts)
        /\ session.question = Cardinality(session.receipts) + 1
    BY <2>1 DEF IInv, SessionFits, OneReceiptPerQuestion
  <2>3. /\ IsFiniteSet(session.receipts \cup {call.request})
        /\ Cardinality(session.receipts \cup {call.request})
             = Cardinality(session.receipts) + 1
    BY <2>1, <2>2, FS_AddElement
  <2> QED
    BY <1>1, <2>1, <2>2, <2>3 DEF Receipts, Seen
<1>2. CASE call.op # "resume"
  BY <1>2, FS_EmptySet DEF Receipts, Seen
<1> QED
  BY <1>1, <1>2

LEMMA StoreWaitingKeeps == IInv /\ StoreWaiting => IInv'
<1> SUFFICES ASSUME IInv, StoreWaiting PROVE IInv'
  OBVIOUS
<1>1. /\ Running /\ call.at = "returned" /\ thread # None /\ IsThread
      /\ call' = None /\ UNCHANGED <<thread, planned, lifecycle>>
  BY DEF StoreWaiting, NeedsClarification, Running, IInv, ThreadFits
<1>2. call.op # "trip"
  BY <1>1 DEF IInv, CallFits, Running
<1>3. /\ Receipts \subseteq Requests /\ IsFiniteSet(Receipts)
      /\ Cardinality(Receipts) = Seen
  BY <1>1, <1>2, ReceiptsCount
<1>4. /\ session'.status = "waiting" /\ session'.receipts = Receipts
      /\ session'.question = IF thread.asked THEN thread.round ELSE 0
      /\ session'.targets = IF thread.asked THEN thread.targets ELSE {}
  BY DEF StoreWaiting, Waiting
<1>5. CASE thread.asked
  <2>1. thread.round = Seen + 1 /\ thread.round \in 0..MaxRounds /\ thread.round > 0
    BY <1>1, <1>2, <1>5 DEF IInv, RoundFits, IsThread
  <2> QED
    BY <1>1, <1>3, <1>4, <1>5, <2>1, RoundsAssumption
    DEF IInv, ThreadFits, CallFits, RoundFits, SessionFits, TargetsFit, Running, IsThread,
        AwaitingHasPlan, OneReceiptPerQuestion, ExhaustedAfterAllRounds
<1>6. CASE ~thread.asked
  <2>1. thread.exhausted /\ thread.round = MaxRounds /\ thread.round = Seen
    BY <1>1, <1>2, <1>6 DEF IInv, RoundFits, IsThread, StoreWaiting, NeedsClarification
  <2> QED
    BY <1>1, <1>3, <1>4, <1>6, <2>1, RoundsAssumption
    DEF IInv, ThreadFits, CallFits, RoundFits, SessionFits, TargetsFit, Running, IsThread,
        AwaitingHasPlan, OneReceiptPerQuestion, ExhaustedAfterAllRounds
<1> QED
  BY <1>5, <1>6

LEMMA StoreCompletedKeeps == IInv /\ StoreCompleted => IInv'
<1> SUFFICES ASSUME IInv, StoreCompleted PROVE IInv'
  OBVIOUS
<1>1. /\ Running /\ UNCHANGED <<thread, planned, lifecycle>> /\ planned = "completed"
      /\ session' = Awaiting(Receipts)
  BY DEF StoreCompleted, IsCompleted, Running
<1>2. Receipts \subseteq Requests /\ IsFiniteSet(Receipts)
  <2>1. CASE call.op = "trip"
    BY <2>1, FS_EmptySet DEF Receipts
  <2> QED
    BY <1>1, <2>1, ReceiptsCount
<1>3. DOMAIN call' = {"op", "request", "at"} /\ call'.op = call.op /\ call'.at = "start"
  BY <1>1 DEF StoreCompleted, IInv, CallFits, Running
<1>4. CallFits' /\ RoundFits'
  BY <1>1, <1>3 DEF IInv, CallFits, RoundFits, Running
<1>5. /\ session'.status = "awaiting" /\ session'.receipts = Receipts
      /\ session'.question = 0
  BY <1>1 DEF Awaiting
<1> QED
  BY <1>1, <1>2, <1>4, <1>5, RoundsAssumption
  DEF IInv, ThreadFits, SessionFits, TargetsFit, IsThread,
      AwaitingHasPlan, OneReceiptPerQuestion, ExhaustedAfterAllRounds

LEMMA StartKeeps == IInv /\ StartLifecycle => IInv'
  BY DEF IInv, ThreadFits, CallFits, RoundFits, SessionFits, TargetsFit, Running, Seen,
         IsThread, AwaitingHasPlan, OneReceiptPerQuestion, ExhaustedAfterAllRounds,
         StartLifecycle

LEMMA StutterKeeps == IInv /\ UNCHANGED vars => IInv'
  BY DEF IInv, ThreadFits, CallFits, RoundFits, SessionFits, TargetsFit, Running, Seen,
         IsThread, AwaitingHasPlan, OneReceiptPerQuestion, ExhaustedAfterAllRounds, vars

LEMMA NextKeeps == IInv /\ [Next]_vars => IInv'
<1> SUFFICES ASSUME IInv, [Next]_vars PROVE IInv'
  OBVIOUS
<1>1. CASE Step
  <2>1. CASE RefuseUnplanned
    BY <2>1, FailKeeps DEF RefuseUnplanned
  <2> QED
    BY <1>1, <2>1, ParseKeeps, ValidateKeeps, ResolveKeeps, EvaluateKeeps, RequestKeeps,
       AwaitKeeps, ExhaustedKeeps, PatchKeeps, ApplyKeeps, AssembleKeeps, RetrieveKeeps,
       PlanKeeps, PlanTripKeeps, StoreWaitingKeeps, StoreCompletedKeeps, StartKeeps
    DEF Step
<1>2. CASE Fail
  BY <1>2, FailKeeps DEF Fail
<1>3. CASE AskFromText \/ AskFromTrip
  BY <1>3, FromTextKeeps, FromTripKeeps
<1>4. CASE \E i \in 1..MaxRounds, q \in Requests, a \in Answers : AskResume(i, q, a)
  BY <1>4, ResumeKeeps
<1>5. CASE UNCHANGED vars
  BY <1>5, StutterKeeps
<1> QED
  BY <1>1, <1>2, <1>3, <1>4, <1>5 DEF Next

\* Checkpoint, call and session fit together in every state.
THEOREM Invariance == Spec => []IInv
  BY InitFits, NextKeeps, PTL DEF Spec

-----------------------------------------------------------------------------
(* The theorems. *)

\* _resume_requirement and create_from_text store candidates to choose from
\* only for a completed plan.
THEOREM CandidatesComeFromAPlan == Spec => []AwaitingHasPlan
  BY Invariance, PTL DEF IInv

\* However calls fail and are repeated, an answered question has one receipt.
THEOREM ReceiptsMatchQuestions == Spec => []OneReceiptPerQuestion
  BY Invariance, PTL DEF IInv

\* request_clarification gives up only after all the rounds were answered.
THEOREM AllRoundsAreOffered == Spec => []ExhaustedAfterAllRounds
  BY Invariance, PTL DEF IInv

\* What create_from_text, create and resume store in a session is true.
THEOREM SessionsTellTheTruth == Spec => []SessionTells
  BY CandidatesComeFromAPlan, ReceiptsMatchQuestions, AllRoundsAreOffered, PTL DEF SessionTells

\* An answer is applied under the targets of the question that it answers.
LEMMA AppliedAsAsked ==
    ASSUME IInv, Next, thread # None, thread'.draft # thread.draft, session # None
    PROVE  \A f \in Fields : thread'.draft[f] # thread.draft[f] => f \in session.targets
<1>1. IsThread
  BY DEF IInv, ThreadFits
<1>2. CASE ApplyClarificationPatch
  <2>1. /\ Running /\ call.at = "graph" /\ thread.next = "apply"
        /\ thread'.draft = Merged(thread.draft, thread.patch, thread.targets)
    BY <1>1, <1>2 DEF ApplyClarificationPatch, At, Continue, Running, IsThread, ThreadFields
  <2>2. call.op = "resume"
    BY <2>1 DEF IInv, CallFits, Running
  <2>3. thread.round = session.question /\ session.question # 0
    BY <2>1, <2>2 DEF IInv, CallFits, RoundFits, Running, Seen
  <2>4. thread.targets = session.targets
    BY <2>1, <2>3 DEF IInv, TargetsFit
  <2> QED
    BY <2>1, <2>4 DEF Merged, Changed
<1>3. CASE ParseRequirement
  BY <1>3 DEF IInv, CallFits, Running, ParseRequirement, At
<1> QED
  BY <1>1, <1>2, <1>3
  DEF Next, Step, Fail, AskFromText, AskFromTrip, AskResume, Answered, ValidateRequirement,
      ResolveAnchors, EvaluateAnchors, RequestClarification, AwaitClarification,
      ClarificationExhausted, ParseClarificationPatch, AssembleTripSpec,
      RetrievePreferences, ExecutePlanning, PlanTrip, StoreWaiting, StoreCompleted,
      RefuseUnplanned, StartLifecycle, Continue, IsThread, ThreadFields

\* merge_requirement_patch changes only what the traveller was asked about.
THEOREM OnlyAskedFieldsAreChanged == Spec => OnlyAskedFieldsChange
<1>1. IInv /\ [Next]_vars =>
        [thread # None /\ thread'.draft # thread.draft /\ session # None =>
          \A f \in Fields : thread'.draft[f] # thread.draft[f] => f \in session.targets]_vars
  BY AppliedAsAsked
<1> QED
  BY <1>1, Invariance, PTL DEF Spec, OnlyAskedFieldsChange

-----------------------------------------------------------------------------
(* The draft of a checkpoint.  What a node relies on was checked some      *)
(* nodes before: from resolve_anchors on the draft has no issue,           *)
(* evaluate_anchors finds the search of the very places that have no       *)
(* resolution yet, and where a question is asked there is an issue to ask  *)
(* about.                                                                  *)

Asking == {"request", "await", "patch", "apply"}

PossibleIssues ==
    {Issue("missing", f) : f \in RequiredFields}
        \cup {Issue("conflict", f) : f \in {"date_range", "transport_time", "arrival.at",
                                           "departure.at", "daily_window"}}
        \cup {Issue("invalid", f) : f \in {"travelers", "total_budget"}}
        \cup {Issue("not_found", NameOf[r]) : r \in Roles}

DraftFits == \A f \in Fields : thread.draft[f] \in Values(f)

Checked ==
    thread.next \in {"resolve", "evaluate", "assemble"} => IssuesOf(thread.draft) = {}

Unresolved == {r \in RequiredRoles(thread.draft) : thread.found[r] = None}

Located ==
    /\ DOMAIN thread.found = Roles
    /\ thread.next = "evaluate" => thread.searched.roles = Unresolved
    /\ thread.next = "assemble" => Unresolved = {}

Asks ==
    /\ thread.next \in Asking => thread.issues # {} /\ thread.issues \subseteq PossibleIssues
    /\ thread.next = "apply" => thread.patch \in Patches
    /\ thread.targets \subseteq Fields
    /\ thread.next = "await" => thread.targets # {}

HasThread == thread # None \/ (session # None /\ session.status = "waiting")

DraftInv == HasThread => DraftFits /\ Checked /\ Located /\ Asks

OutcomeFits == planned \in Outcomes \cup {None} /\ lifecycle \in BOOLEAN

LEMMA IssuesPossible ==
    ASSUME NEW draft
    PROVE  IssuesOf(draft) \subseteq PossibleIssues
  BY DEF IssuesOf, Conflicts, Invalid, PossibleIssues

LEMMA AnchorsPossible ==
    ASSUME NEW roles \in SUBSET Roles
    PROVE  AnchorIssues(roles) \subseteq PossibleIssues /\ (AnchorIssues(roles) = {} => roles = {})
  BY DEF AnchorIssues, PossibleIssues

\* What an answer to an issue may change are fields, and never none at all.
LEMMA TargetsAreFields ==
    ASSUME NEW issues \in SUBSET PossibleIssues
    PROVE  Targets(issues) \subseteq Fields /\ (issues # {} => Targets(issues) # {})
<1>1. ASSUME NEW i \in PossibleIssues
      PROVE  TargetFields(i) \subseteq Fields /\ TargetFields(i) # {}
  <2>1. CASE i \in {Issue("missing", f) : f \in RequiredFields}
    BY <2>1 DEF TargetFields, Issue, RequiredFields, Fields
  <2>2. CASE i \in {Issue("conflict", f) : f \in {"date_range", "transport_time", "arrival.at",
                                                 "departure.at", "daily_window"}}
    BY <2>2 DEF TargetFields, Issue, Fields
  <2>3. CASE i \in {Issue("invalid", f) : f \in {"travelers", "total_budget"}}
    BY <2>3 DEF TargetFields, Issue, Fields
  <2>4. CASE i \in {Issue("not_found", NameOf[r]) : r \in Roles}
    BY <2>4 DEF TargetFields, Issue, NameOf, Roles, Fields
  <2> QED
    BY <2>1, <2>2, <2>3, <2>4 DEF PossibleIssues
<1> QED
  BY <1>1 DEF Targets

\* The nodes that read the draft and search its places.
LEMMA ReadingKeeps ==
    ASSUME IInv, DraftInv, \/ ParseRequirement \/ ValidateRequirement
                           \/ ResolveAnchors \/ EvaluateAnchors
    PROVE  DraftInv'
<1>1. IsThread /\ HasThread
  BY DEF IInv, ThreadFits, ParseRequirement, ValidateRequirement, ResolveAnchors,
         EvaluateAnchors, At, HasThread
<1>2. DraftFits /\ Checked /\ Located /\ Asks
  BY <1>1 DEF DraftInv
<1>3. CASE ParseRequirement
  <2>1. PICK d \in Drafts : thread' = [thread EXCEPT !.draft = d, !.next = "validate"]
    BY <1>3 DEF ParseRequirement, Continue
  <2>2. /\ thread'.draft = d /\ thread'.next = "validate"
        /\ thread'.found = thread.found /\ thread'.targets = thread.targets
    BY <1>1, <2>1 DEF IsThread, ThreadFields
  <2> QED
    BY <1>2, <2>2 DEF DraftInv, DraftFits, Values, Checked, Located, Asks, Asking
<1>4. CASE ValidateRequirement
  <2> DEFINE issues == IssuesOf(thread.draft)
  <2>1. thread' = [thread EXCEPT !.issues = issues, !.targets = {},
                                 !.next = IF issues # {} THEN "request" ELSE "resolve"]
    BY <1>4 DEF ValidateRequirement, Continue
  <2>2. /\ thread'.draft = thread.draft /\ thread'.issues = issues /\ thread'.targets = {}
        /\ thread'.next = IF issues # {} THEN "request" ELSE "resolve"
        /\ thread'.found = thread.found
    BY <1>1, <2>1 DEF IsThread, ThreadFields
  <2> QED
    BY <1>2, <2>2, IssuesPossible DEF DraftInv, DraftFits, Checked, Located, Asks, Asking
<1>5. CASE ResolveAnchors
  <2>1. \E matched : thread' = [thread EXCEPT
            !.searched = [roles |-> Unresolved, matched |-> matched], !.next = "evaluate"]
    BY <1>5 DEF ResolveAnchors, Continue, Unresolved
  <2>2. /\ thread'.draft = thread.draft /\ thread'.targets = thread.targets
        /\ thread'.next = "evaluate" /\ thread'.found = thread.found
        /\ thread'.searched.roles = Unresolved
    BY <1>1, <2>1 DEF IsThread, ThreadFields
  <2>3. thread.next = "resolve"
    BY <1>5 DEF ResolveAnchors, At
  <2> QED
    BY <1>2, <2>2, <2>3 DEF DraftInv, DraftFits, Checked, Located, Unresolved, Asks, Asking
<1>6. CASE EvaluateAnchors
  <2> DEFINE matched == {r \in thread.searched.roles :
                           thread.draft[NameOf[r]] \in thread.searched.matched}
             issues == AnchorIssues(thread.searched.roles \ matched)
             found == [r \in Roles |-> IF r \in matched THEN Query(thread.draft, r)
                                       ELSE thread.found[r]]
  <2>1. thread' = [thread EXCEPT !.found = found, !.issues = issues, !.searched = None,
                                 !.next = IF issues # {} THEN "request" ELSE "assemble"]
    BY <1>6 DEF EvaluateAnchors, Continue
  <2>2. /\ thread'.draft = thread.draft /\ thread'.targets = thread.targets
        /\ thread'.next = IF issues # {} THEN "request" ELSE "assemble"
        /\ thread'.found = found /\ thread'.issues = issues
    BY <1>1, <2>1 DEF IsThread, ThreadFields
  <2>3. /\ IssuesOf(thread.draft) = {} /\ thread.searched.roles = Unresolved
    BY <1>2, <1>6 DEF EvaluateAnchors, At, Checked, Located
  <2>4. /\ issues \subseteq PossibleIssues
        /\ issues = {} => matched = Unresolved
    BY <2>3, AnchorsPossible DEF Unresolved, RequiredRoles
  <2>5. ASSUME NEW r \in matched PROVE Query(thread.draft, r) # None
    <3>1. r \in Roles /\ thread.draft[NameOf[r]] # None /\ thread.draft["destination"] # None
      BY <2>3 DEF Unresolved, RequiredRoles, IssuesOf, RequiredFields
    <3>2. NameOf[r] \in Fields /\ "destination" \in Fields
      BY <3>1 DEF Roles, NameOf, Fields
    <3>3. /\ \E d \in Drafts \cup Patches : thread.draft["destination"] = d["destination"]
          /\ \E e \in Drafts \cup Patches : thread.draft[NameOf[r]] = e[NameOf[r]]
      BY <1>2, <3>1, <3>2 DEF DraftFits, Values
    <3> QED
      BY <3>1, <3>3, DraftAssumption DEF Query
  <2>6. DOMAIN found = Roles /\ \A r \in matched \cap Roles : found[r] # None
    BY <2>5
  <2>7. \A r \in Roles \ matched : found[r] = thread.found[r]
    OBVIOUS
  <2> HIDE DEF found, matched, issues
  <2>8. issues = {} => Unresolved' = {}
    BY <2>2, <2>4, <2>6, <2>7 DEF Unresolved, RequiredRoles
  <2> QED
    BY <1>2, <2>2, <2>3, <2>4, <2>6, <2>8
    DEF DraftInv, DraftFits, Checked, Located, Asks, Asking
<1> QED
  BY <1>3, <1>4, <1>5, <1>6

\* The nodes that ask the traveller and apply the answer.
LEMMA AskingKeeps ==
    ASSUME IInv, DraftInv, \/ RequestClarification \/ AwaitClarification
                           \/ ParseClarificationPatch \/ ApplyClarificationPatch
    PROVE  DraftInv'
<1>1. IsThread /\ HasThread
  BY DEF IInv, ThreadFits, RequestClarification, AwaitClarification,
         ParseClarificationPatch, ApplyClarificationPatch, At, HasThread
<1>2. DraftFits /\ Checked /\ Located /\ Asks /\ thread.next \in Asking
  BY <1>1 DEF DraftInv, RequestClarification, AwaitClarification,
              ParseClarificationPatch, ApplyClarificationPatch, At, Asking
<1>3. thread.issues # {} /\ thread.issues \subseteq PossibleIssues
  BY <1>2 DEF Asks
<1>4. CASE RequestClarification
  <2>1. /\ thread'.draft = thread.draft /\ thread'.found = thread.found
        /\ thread'.targets = Targets(thread.issues) /\ thread'.issues = thread.issues
        /\ thread'.next \in {"await", "exhausted"}
    BY <1>1, <1>4 DEF RequestClarification, Continue, IsThread, ThreadFields, AfterExhausted
  <2> QED
    BY <1>2, <1>3, <2>1, TargetsAreFields
    DEF DraftInv, DraftFits, Checked, Located, Asks, Asking
<1>5. CASE AwaitClarification
  <2>1. /\ thread'.draft = thread.draft /\ thread'.found = thread.found
        /\ thread'.targets = thread.targets /\ thread'.issues = thread.issues
        /\ thread'.next = "await" /\ thread.next = "await"
    BY <1>1, <1>5 DEF AwaitClarification, At, IsThread, ThreadFields
  <2> QED
    BY <1>2, <2>1 DEF DraftInv, DraftFits, Checked, Located, Asks, Asking
<1>6. CASE ParseClarificationPatch
  <2>1. /\ thread'.draft = thread.draft /\ thread'.found = thread.found
        /\ thread'.targets = thread.targets /\ thread'.issues = thread.issues
        /\ thread'.next = "apply" /\ thread'.patch \in Patches
    BY <1>1, <1>6 DEF ParseClarificationPatch, Continue, IsThread, ThreadFields
  <2> QED
    BY <1>2, <1>3, <2>1 DEF DraftInv, DraftFits, Checked, Located, Asks, Asking
<1>7. CASE ApplyClarificationPatch
  <2>1. /\ thread'.draft = Merged(thread.draft, thread.patch, thread.targets)
        /\ thread'.targets = thread.targets /\ thread'.issues = thread.issues
        /\ thread'.next \in {"validate", "request"} /\ DOMAIN thread'.found = Roles
    BY <1>1, <1>7 DEF ApplyClarificationPatch, Continue, IsThread, ThreadFields
  <2>2. thread.patch \in Patches
    BY <1>2, <1>7 DEF Asks, ApplyClarificationPatch, At
  <2>3. DraftFits'
    BY <1>2, <2>1, <2>2 DEF DraftFits, Values, Merged
  <2> QED
    BY <1>2, <1>3, <2>1, <2>3 DEF DraftInv, Checked, Located, Asks, Asking
<1> QED
  BY <1>4, <1>5, <1>6, <1>7

LEMMA DraftKept == IInv /\ DraftInv /\ [Next]_vars => DraftInv'
<1> SUFFICES ASSUME IInv, DraftInv, [Next]_vars PROVE DraftInv'
  OBVIOUS
<1>1. CASE UNCHANGED thread
  <2>1. HasThread' => HasThread
    <3>1. UNCHANGED session \/ StoreWaiting \/ StoreCompleted
      BY DEF Next, Step, Fail, AskFromText, AskFromTrip, AskResume, ParseRequirement,
             ValidateRequirement, ResolveAnchors, EvaluateAnchors, RequestClarification,
             AwaitClarification, ClarificationExhausted, ParseClarificationPatch,
             ApplyClarificationPatch, AssembleTripSpec, RetrievePreferences,
             ExecutePlanning, PlanTrip, RefuseUnplanned, StartLifecycle, Continue, vars
    <3>2. StoreWaiting => HasThread
      BY DEF StoreWaiting, NeedsClarification, HasThread
    <3>3. StoreCompleted => (HasThread' => HasThread)
      BY <1>1 DEF StoreCompleted, Awaiting, HasThread
    <3> QED
      BY <1>1, <3>1, <3>2, <3>3 DEF HasThread
  <2> QED
    BY <1>1, <2>1 DEF DraftInv, DraftFits, Checked, Located, Unresolved, Asks
<1>2. CASE \/ AssembleTripSpec /\ ~UNCHANGED thread
           \/ RetrievePreferences \/ ExecutePlanning \/ ClarificationExhausted
  <2>1. IsThread /\ DraftFits /\ Located /\ Asks
    BY <1>2 DEF IInv, ThreadFits, DraftInv, AssembleTripSpec, RetrievePreferences,
                ExecutePlanning, ClarificationExhausted, At, HasThread
  <2>2. /\ thread'.draft = thread.draft /\ thread'.found = thread.found
        /\ thread'.targets = thread.targets
        /\ thread'.next \in {"retrieve", "plan", "end"}
    BY <1>2, <2>1 DEF AssembleTripSpec, RetrievePreferences, ExecutePlanning,
                      ClarificationExhausted, Continue, IsThread, ThreadFields
  <2> QED
    BY <2>1, <2>2 DEF DraftInv, DraftFits, Checked, Located, Asks, Asking
<1>3. CASE AskFromText
  <2>1. thread' = NewThread
    BY <1>3 DEF AskFromText
  <2>2. \A f \in Fields : Blank[f] \in Values(f)
    BY DEF Blank, Values
  <2>3. /\ thread'.next = "parse" /\ thread'.draft = Blank /\ thread'.targets = {}
        /\ thread'.found = [r \in Roles |-> None]
    BY <2>1 DEF NewThread
  <2>4. DraftFits'
    BY <2>2, <2>3 DEF DraftFits
  <2>5. Checked' /\ Asks'
    BY <2>3 DEF Checked, Asks, Asking
  <2>6. Located'
    BY <2>3 DEF Located
  <2> QED
    BY <2>4, <2>5, <2>6 DEF DraftInv
<1>4. ASSUME NEW i \in 1..MaxRounds, NEW q \in Requests, NEW a \in Answers,
             AskResume(i, q, a), ~UNCHANGED thread
      PROVE  DraftInv'
  <2>1. thread' = Answered(i, q, a) /\ thread.asked
    BY <1>4 DEF AskResume
  <2>2. IsThread /\ DraftFits /\ Located /\ Asks
    BY <1>4 DEF AskResume, Accepts, IInv, SessionFits, DraftInv, HasThread
  <2>3. thread.next = "await"
    BY <2>1, <2>2 DEF IsThread
  <2>4. /\ thread'.draft = thread.draft /\ thread'.found = thread.found
        /\ thread'.targets = thread.targets /\ thread'.issues = thread.issues
        /\ thread'.next = "patch"
    BY <2>1, <2>2 DEF Answered, IsThread, ThreadFields
  <2> QED
    BY <2>2, <2>3, <2>4 DEF DraftInv, DraftFits, Checked, Located, Asks, Asking
<1>5. UNCHANGED vars => UNCHANGED thread
  BY DEF vars
<1>6. ASSUME \/ Fail \/ AskFromTrip \/ PlanTrip \/ StoreWaiting \/ StoreCompleted
             \/ RefuseUnplanned \/ StartLifecycle
      PROVE  UNCHANGED thread
  BY <1>6 DEF Fail, AskFromTrip, PlanTrip, StoreWaiting, StoreCompleted, RefuseUnplanned,
         StartLifecycle
<1>7. CASE Step
  <2>1. CASE AssembleTripSpec
    BY <1>1, <1>2, <2>1
  <2> QED
    BY <1>1, <1>2, <1>6, <1>7, <2>1, ReadingKeeps, AskingKeeps DEF Step
<1> QED
  BY <1>1, <1>3, <1>4, <1>5, <1>6, <1>7 DEF Next

LEMMA OutcomeKept == OutcomeFits /\ [Next]_vars => OutcomeFits'
  BY DEF OutcomeFits, Outcomes, Next, Step, Fail, AskFromText, AskFromTrip, AskResume,
         ParseRequirement, ValidateRequirement, ResolveAnchors, EvaluateAnchors,
         RequestClarification, AwaitClarification, ClarificationExhausted,
         ParseClarificationPatch, ApplyClarificationPatch, AssembleTripSpec,
         RetrievePreferences, ExecutePlanning, PlanTrip, StoreWaiting, StoreCompleted,
         RefuseUnplanned, StartLifecycle, Continue, vars

\* The draft, the resolutions and the issues of a checkpoint fit the node that
\* the graph continues with.
THEOREM DraftsFit == Spec => [](IInv /\ DraftInv /\ OutcomeFits)
<1>1. Init => IInv /\ DraftInv /\ OutcomeFits
  BY InitFits DEF Init, DraftInv, HasThread, OutcomeFits
<1>2. IInv /\ DraftInv /\ OutcomeFits /\ [Next]_vars => (IInv /\ DraftInv /\ OutcomeFits)'
  BY NextKeeps, DraftKept, OutcomeKept
<1> QED
  BY <1>1, <1>2, PTL DEF Spec

\* Every checkpoint, session and call is one that the code can store: a question
\* is pending only at await_clarification, and asks for something.
THEOREM TypeCorrectness == Spec => []TypeOK
<1>1. IInv /\ DraftInv /\ OutcomeFits => TypeOK
  BY DEF IInv, ThreadFits, IsThread, SessionFits, CallFits, DraftInv, HasThread, DraftFits,
         Asks, OutcomeFits, TypeOK
<1> QED
  BY <1>1, DraftsFit, PTL

\* A draft without an issue, whose places have been found, makes a trip: what
\* validate_requirement lets pass TripSpec takes, but for half a daily window.
LEMMA CheckedDraftsAssemble ==
    ASSUME DraftFits, IssuesOf(thread.draft) = {}, Unresolved = {}, ~HalfWindow(thread.draft)
    PROVE  Assembles(thread.draft, thread.found)
<1> DEFINE draft == thread.draft
<1>1. \A f \in RequiredFields : draft[f] # None
  BY DEF IssuesOf
<1>2. Conflicts(draft) = {}
  BY DEF IssuesOf
<1>3. \A f \in Dated : draft[f] # None => draft[f] \in Int
  <2>1. Dated \subseteq Fields
    BY DEF Dated, Fields
  <2> QED
    BY <2>1, DraftAssumption DEF DraftFits, Values
<1>4. \A r \in Roles : draft[NameOf[r]] # None => thread.found[r] # None
  BY DEF Unresolved, RequiredRoles
<1>5. /\ draft["start_date"] \in Int /\ draft["end_date"] \in Int
      /\ draft["arrival.at"] \in Int /\ draft["departure.at"] \in Int
  BY <1>1, <1>3 DEF RequiredFields, Dated
<1>6. Day(draft["arrival.at"]) \in Int /\ Day(draft["departure.at"]) \in Int
  BY <1>5 DEF Day
<1>7. /\ thread.found["arrival"] # None /\ thread.found["departure"] # None
      /\ draft["accommodation_name"] # None => thread.found["accommodation"] # None
  BY <1>1, <1>4 DEF Roles, NameOf, RequiredFields
<1>8. /\ ~(draft["end_date"] < draft["start_date"])
      /\ ~(draft["departure.at"] <= draft["arrival.at"])
      /\ ~(Day(draft["arrival.at"]) < draft["start_date"])
      /\ ~(Day(draft["departure.at"]) > draft["end_date"])
  <2>1. /\ Given(draft, {"start_date", "end_date"})
        /\ Given(draft, {"arrival.at", "departure.at"})
        /\ Given(draft, {"arrival.at", "start_date"})
        /\ Given(draft, {"departure.at", "end_date"})
    BY <1>1 DEF Given, RequiredFields
  <2> HIDE DEF draft
  <2> QED
    BY <1>2, <2>1 DEF Conflicts
<1>9. End(draft) > Start(draft)
  <2>1. CASE draft["daily_start"] = None
    <3>1. draft["daily_end"] = None
      BY <2>1 DEF HalfWindow
    <3> QED
      BY <2>1, <3>1 DEF Start, End
  <2>2. CASE draft["daily_start"] # None
    <3>1. draft["daily_end"] # None
      BY <2>2 DEF HalfWindow
    <3>2. Given(draft, {"daily_start", "daily_end"})
      BY <2>2, <3>1 DEF Given
    <3>3. ~(draft["daily_end"] <= draft["daily_start"])
      <4> HIDE DEF draft
      <4> QED
        BY <1>2, <3>2 DEF Conflicts
    <3>4. draft["daily_start"] \in Int /\ draft["daily_end"] \in Int
      BY <1>3, <2>2, <3>1 DEF Dated
    <3> QED
      BY <2>2, <3>1, <3>3, <3>4 DEF Start, End
  <2> QED
    BY <2>1, <2>2
<1> HIDE DEF draft
<1>10. /\ draft["end_date"] >= draft["start_date"]
       /\ Day(draft["arrival.at"]) >= draft["start_date"]
       /\ Day(draft["departure.at"]) <= draft["end_date"]
       /\ draft["departure.at"] > draft["arrival.at"]
  BY <1>5, <1>6, <1>8
<1>11. IssuesOf(draft) = {}
  BY DEF draft
<1> QED
  BY <1>7, <1>9, <1>10, <1>11 DEF Assembles, draft

\* resolve_anchors and evaluate_anchors come between the check of a draft and
\* assemble_trip_spec, and answers start the check again: a draft that arrives
\* there is one that TripSpec takes, unless it gives half a daily window.
THEOREM CheckedDraftsMakeTrips == Spec => []AssemblesUnlessHalfWindow
<1>1. DraftInv => AssemblesUnlessHalfWindow
  BY CheckedDraftsAssemble DEF DraftInv, HasThread, Checked, Located, AssemblesUnlessHalfWindow
<1> QED
  BY <1>1, DraftsFit, PTL

===============================================================================

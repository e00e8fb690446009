------------------------ MODULE EffectSession_proofs ------------------------
(***************************************************************************)
(* For every set of callers, keys and effects, every descriptor and every  *)
(* horizon: the type invariant of EffectSession, the bound on the runs of  *)
(* an effect, and the promises made to keys and to the callers answered.   *)
(*                                                                         *)
(* KeyRunsOnce is not inductive: that a new run has a new key follows only *)
(* because the keys of all runs are remembered, RunsRemembered.  Neither   *)
(* is AnswersAreRuns: a caller that makes up a request must not hold an    *)
(* answer to an earlier one, AnswersHeld.                                  *)
(***************************************************************************)
EXTENDS EffectSession, FiniteSetTheorems, TLAPS

\* Every run that was asked for with a key left its receipt under that key.
RunsRemembered ==
  \A i \in 1 .. Len(runs) : runs[i].key # NoKey => runs[i].key \in DOMAIN receipts

\* Only a caller that still holds its request holds an acknowledgement of it.
AnswersHeld == \A c \in Caller : answer[c].ok => request[c] # NoRequest

IInv ==
  /\ TypeOK
  /\ RunsWithinBound
  /\ RunsRemembered
  /\ KeyRunsOnce
  /\ ReceiptIsTheRun
  /\ AnswersHeld
  /\ AnswersAreRuns

-----------------------------------------------------------------------------
(* One run of an effect                                                    *)

\* What invoke reads of a held request has its type, and so has its descriptor.
LEMMA HeldRequest ==
  ASSUME TypeOK, NEW c \in Caller, request[c] # NoRequest
  PROVE  /\ request[c] \in Request
         /\ request[c].effect \in Effect
         /\ request[c].key \in Key \cup {NoKey}
         /\ request[c].armedAt \in Nat
         /\ Descriptor[request[c].effect].expires \in Nat
         /\ Descriptor[request[c].effect].max \in Nat
         /\ now \in Nat
<1>1. request[c] \in Request
  BY DEF TypeOK
<1>2. request[c].armedAt \in 0 .. MaxTime + 1 /\ request[c].effect \in Effect
      /\ request[c].key \in Key \cup {NoKey}
  BY <1>1 DEF Request
<1>3. Descriptor[request[c].effect] \in DescriptorType
  BY <1>2, ContractAssumption
<1> QED
  BY <1>1, <1>2, <1>3, SessionAssumption DEF DescriptorType, TypeOK

\* A run is appended to the history with the request's effect and key.
LEMMA RunAppended ==
  ASSUME TypeOK, NEW c \in Caller, InvokeRuns(c)
  PROVE  /\ Len(runs') = Len(runs) + 1
         /\ Len(runs) \in Nat
         /\ runs' \in Seq([effect : Effect, key : Key \cup {NoKey}])
         /\ \A i \in 1 .. Len(runs) : runs'[i] = runs[i]
         /\ runs'[Len(runs) + 1].effect = request[c].effect
         /\ runs'[Len(runs) + 1].key = request[c].key
<1> DEFINE run == [effect |-> request[c].effect, key |-> request[c].key]
<1>1. runs' = Append(runs, run)
  BY DEF InvokeRuns
<1>2. run \in [effect : Effect, key : Key \cup {NoKey}]
  BY HeldRequest DEF InvokeRuns
<1>3. runs \in Seq([effect : Effect, key : Key \cup {NoKey}])
  BY DEF TypeOK
<1>4. runs'[Len(runs) + 1] = run
  BY <1>1, <1>2, <1>3
<1> HIDE DEF run
<1>5. /\ Len(runs') = Len(runs) + 1 /\ Len(runs) \in Nat
      /\ runs' \in Seq([effect : Effect, key : Key \cup {NoKey}])
      /\ \A i \in 1 .. Len(runs) : runs'[i] = runs[i]
  BY <1>1, <1>2, <1>3
<1> QED BY <1>4, <1>5 DEF run

\* What a run leaves in the map of receipts: the old ones, and its own under
\* its key if it has one.
LEMMA ReceiptRemembered ==
  ASSUME TypeOK, NEW c \in Caller, InvokeRuns(c)
  PROVE  /\ DOMAIN receipts' = DOMAIN receipts \cup ({request[c].key} \ {NoKey})
         /\ request[c].key \notin DOMAIN receipts
         /\ \A k \in DOMAIN receipts : receipts'[k] = receipts[k]
         /\ request[c].key # NoKey =>
              receipts'[request[c].key] = NextReceipt(request[c])
BY DEF InvokeRuns, Remember, Seen

\* The new receipt names the effect that ran and the next sequence number.
LEMMA ReceiptOfRun ==
  ASSUME TypeOK, NEW c \in Caller, InvokeRuns(c)
  PROVE  /\ NextReceipt(request[c]) \in Receipt
         /\ NextReceipt(request[c]).descriptor = request[c].effect
         /\ NextReceipt(request[c]).sequence = sequence + 1
<1>1. request[c].effect \in Effect
  BY HeldRequest DEF InvokeRuns
<1>2. sequence + 1 \in Nat
  BY DEF TypeOK
<1> QED BY <1>1, <1>2 DEF NextReceipt, Receipt

\* A run keeps the types.
LEMMA RunKeepsTypes ==
  ASSUME TypeOK, NEW c \in Caller, InvokeRuns(c)
  PROVE  TypeOK'
<1>0. request[c].key \in Key \cup {NoKey}
  BY HeldRequest DEF InvokeRuns
<1>1. DOMAIN receipts' \subseteq Key
  BY <1>0, ReceiptRemembered DEF TypeOK
<1>2. \A k \in DOMAIN receipts' : receipts'[k] \in Receipt
  <2>1. \A k \in DOMAIN receipts : receipts[k] \in Receipt
    BY DEF TypeOK
  <2>2. ASSUME NEW k \in DOMAIN receipts' PROVE receipts'[k] \in Receipt
    <3>1. CASE k \in DOMAIN receipts
      BY <2>1, <3>1, ReceiptRemembered
    <3>2. CASE k = request[c].key /\ k # NoKey
      BY <3>2, ReceiptRemembered, ReceiptOfRun
    <3> QED BY <3>1, <3>2, ReceiptRemembered
  <2> QED BY <2>2
<1>3. invocations' \in [Effect -> Nat]
  <2>1. invocations' = [invocations EXCEPT ![request[c].effect] = @ + 1]
    BY DEF InvokeRuns
  <2>2. invocations \in [Effect -> Nat]
    BY DEF TypeOK
  <2>3. request[c].effect \in Effect
    BY HeldRequest DEF InvokeRuns
  <2>4. invocations[request[c].effect] + 1 \in Nat
    BY <2>2, <2>3
  <2> QED BY <2>1, <2>2, <2>4
<1>4. answer' \in [Caller -> {Refused} \cup [ok : {TRUE}, receipt : Receipt]]
  <2> DEFINE given == [ok |-> TRUE, receipt |-> NextReceipt(request[c])]
  <2>1. given \in [ok : {TRUE}, receipt : Receipt]
    BY ReceiptOfRun
  <2>2. answer' = [answer EXCEPT ![c] = given]
    BY DEF InvokeRuns
  <2> HIDE DEF given
  <2> QED BY <2>1, <2>2 DEF TypeOK
<1>5. /\ now' = now /\ request' = request /\ stopped' = stopped
      /\ sequence' = sequence + 1
  BY DEF InvokeRuns
<1>6. runs' \in Seq([effect : Effect, key : Key \cup {NoKey}])
  BY RunAppended
<1>7. /\ now' \in 0 .. MaxTime
      /\ request' \in [Caller -> Request \cup {NoRequest}]
      /\ stopped' \in BOOLEAN
      /\ sequence' \in Nat
  BY <1>5 DEF TypeOK
<1> QED
  BY <1>1, <1>2, <1>3, <1>4, <1>6, <1>7 DEF TypeOK

\* A run is counted once, for its effect, and only below the bound.
LEMMA RunKeepsBound ==
  ASSUME TypeOK, RunsWithinBound, NEW c \in Caller, InvokeRuns(c)
  PROVE  RunsWithinBound'
<1> DEFINE n == Len(runs) + 1
<1> SUFFICES ASSUME NEW e \in Effect
             PROVE  /\ Cardinality(RunsOf(e)') = invocations'[e]
                    /\ invocations'[e] <= Descriptor[e].max
  BY DEF RunsWithinBound
<1>1. /\ Cardinality(RunsOf(e)) = invocations[e]
      /\ invocations[e] <= Descriptor[e].max
      /\ invocations[e] \in Nat
  BY DEF RunsWithinBound, TypeOK
<1>2. IsFiniteSet(RunsOf(e)) /\ n \notin RunsOf(e)
  <2>1. IsFiniteSet(1 .. Len(runs))
    BY RunAppended, FS_Interval
  <2> QED BY <2>1, RunAppended, FS_Subset DEF RunsOf
<1>3. CASE e = request[c].effect
  <2>1. RunsOf(e)' = RunsOf(e) \cup {n}
    BY <1>3, RunAppended DEF RunsOf
  <2>2. Cardinality(RunsOf(e)') = Cardinality(RunsOf(e)) + 1
    BY <1>2, <2>1, FS_AddElement
  <2>3. invocations'[e] = invocations[e] + 1
    BY <1>3 DEF InvokeRuns, TypeOK
  <2>4. invocations[e] < Descriptor[e].max /\ Descriptor[e].max \in Nat
    BY <1>3, HeldRequest DEF InvokeRuns, Admitted, Bounded
  <2> QED BY <1>1, <2>2, <2>3, <2>4
<1>4. CASE e # request[c].effect
  <2>1. RunsOf(e)' = RunsOf(e)
    BY <1>4, RunAppended DEF RunsOf
  <2>2. invocations'[e] = invocations[e]
    BY <1>4 DEF InvokeRuns, TypeOK
  <2> QED BY <1>1, <2>1, <2>2
<1> QED BY <1>3, <1>4

\* A run keeps every promise made to a key.
LEMMA RunKeepsKeys ==
  ASSUME TypeOK, RunsRemembered, KeyRunsOnce, ReceiptIsTheRun,
         NEW c \in Caller, InvokeRuns(c)
  PROVE  RunsRemembered' /\ KeyRunsOnce' /\ ReceiptIsTheRun'
<1> DEFINE n == Len(runs) + 1
<1>1. \A i \in 1 .. Len(runs') : i \in 1 .. Len(runs) \/ i = n
  BY RunAppended
<1>2. RunsRemembered'
  <2> SUFFICES ASSUME NEW i \in 1 .. Len(runs'), runs'[i].key # NoKey
               PROVE  runs'[i].key \in DOMAIN receipts'
    BY DEF RunsRemembered
  <2>1. CASE i \in 1 .. Len(runs)
    <3>1. runs'[i].key = runs[i].key
      BY <2>1, RunAppended
    <3>2. runs[i].key \in DOMAIN receipts
      BY <2>1, <3>1 DEF RunsRemembered
    <3> QED BY <3>1, <3>2, ReceiptRemembered
  <2>2. CASE i = Len(runs) + 1
    <3>1. runs'[i].key = request[c].key
      BY <2>2, RunAppended
    <3>2. request[c].key \in DOMAIN receipts'
      BY <3>1, ReceiptRemembered
    <3> QED BY <3>1, <3>2
  <2> QED BY <1>1, <2>1, <2>2
<1>3. KeyRunsOnce'
  <2>1. ASSUME NEW i \in 1 .. Len(runs), runs'[i].key = runs'[n].key,
               runs'[i].key # NoKey
        PROVE  FALSE
    <3>1. runs'[i].key = runs[i].key /\ runs'[n].key = request[c].key
      BY RunAppended
    <3>2. runs[i].key \in DOMAIN receipts
      BY <2>1, <3>1 DEF RunsRemembered
    <3> QED BY <2>1, <3>1, <3>2, ReceiptRemembered
  <2>2. \A i, j \in 1 .. Len(runs) :
          runs'[i].key = runs'[j].key /\ runs'[i].key # NoKey => i = j
    BY RunAppended DEF KeyRunsOnce
  <2> HIDE DEF n
  <2> QED BY <1>1, <2>1, <2>2 DEF KeyRunsOnce
<1>4. ReceiptIsTheRun'
  <2>1. sequence' = Len(runs') /\ sequence + 1 = n
    BY RunAppended DEF ReceiptIsTheRun, InvokeRuns
  <2>2. ASSUME NEW k \in DOMAIN receipts'
        PROVE  /\ receipts'[k].sequence \in 1 .. Len(runs')
               /\ runs'[receipts'[k].sequence].key = k
               /\ runs'[receipts'[k].sequence].effect = receipts'[k].descriptor
    <3>1. CASE k \in DOMAIN receipts
      <4>1. receipts'[k] = receipts[k]
        BY <3>1, ReceiptRemembered
      <4>2. /\ receipts[k].sequence \in 1 .. Len(runs)
            /\ runs[receipts[k].sequence].key = k
            /\ runs[receipts[k].sequence].effect = receipts[k].descriptor
        BY <3>1 DEF ReceiptIsTheRun
      <4>3. runs'[receipts[k].sequence] = runs[receipts[k].sequence]
        BY <4>2, RunAppended
      <4>4. receipts[k].sequence \in 1 .. Len(runs')
        BY <4>2, RunAppended
      <4> QED BY <4>1, <4>2, <4>3, <4>4
    <3>2. CASE k = request[c].key /\ k # NoKey
      <4>1. receipts'[k] = NextReceipt(request[c])
        BY <3>2, ReceiptRemembered
      <4>2. /\ receipts'[k].sequence = n
            /\ receipts'[k].descriptor = request[c].effect
        BY <2>1, <4>1, ReceiptOfRun
      <4> QED BY <3>2, <4>2, RunAppended
    <3> QED BY <3>1, <3>2, ReceiptRemembered
  <2> QED BY <2>1, <2>2 DEF ReceiptIsTheRun
<1> QED BY <1>2, <1>3, <1>4

-----------------------------------------------------------------------------
(* What the callers were answered                                          *)

\* A new run is the acknowledgement of its caller alone: the sequence numbers
\* that the others hold are those of earlier runs.
LEMMA RunKeepsAnswers ==
  ASSUME TypeOK, ReceiptIsTheRun, AnswersHeld, AnswersAreRuns,
         NEW c \in Caller, InvokeRuns(c)
  PROVE  AnswersHeld' /\ AnswersAreRuns'
<1> DEFINE n == Len(runs) + 1
<1>1. /\ answer'[c].receipt.sequence = n
      /\ answer'[c].receipt.descriptor = request[c].effect
      /\ \A d \in Caller \ {c} : answer'[d] = answer[d]
      /\ request' = request
  BY ReceiptOfRun DEF InvokeRuns, ReceiptIsTheRun, TypeOK
<1>2. AnswersHeld'
  BY <1>1 DEF AnswersHeld, InvokeRuns
<1>3. ASSUME NEW d \in Caller \ {c}, answer'[d].ok
      PROVE  /\ answer'[d].receipt.sequence \in 1 .. Len(runs)
             /\ runs'[answer'[d].receipt.sequence].effect = answer'[d].receipt.descriptor
             /\ runs'[answer'[d].receipt.sequence].key = request[d].key
  <2>1. /\ answer[d].receipt.sequence \in 1 .. Len(runs)
        /\ runs[answer[d].receipt.sequence].effect = answer[d].receipt.descriptor
        /\ runs[answer[d].receipt.sequence].key = request[d].key
    BY <1>1, <1>3 DEF AnswersAreRuns
  <2>2. \A i \in 1 .. Len(runs) : runs'[i] = runs[i]
    BY RunAppended
  <2> QED BY <1>1, <2>1, <2>2
<1>4. /\ n \in 1 .. Len(runs') /\ n \notin 1 .. Len(runs)
      /\ 1 .. Len(runs) \subseteq 1 .. Len(runs')
  <2>1. Len(runs') = n /\ Len(runs) \in Nat
    BY RunAppended
  <2> QED BY <2>1
<1>5. runs'[n].effect = request[c].effect /\ runs'[n].key = request[c].key
  BY RunAppended
<1> HIDE DEF n
<1>6. ASSUME NEW d \in Caller, answer'[d].ok
      PROVE  /\ answer'[d].receipt.sequence \in 1 .. Len(runs')
             /\ runs'[answer'[d].receipt.sequence].effect = answer'[d].receipt.descriptor
             /\ runs'[answer'[d].receipt.sequence].key = request'[d].key
  BY <1>1, <1>3, <1>4, <1>5, <1>6
<1>7. ASSUME NEW d \in Caller, NEW e \in Caller \ {d}, answer'[d].ok, answer'[e].ok,
             answer'[e].receipt.sequence = answer'[d].receipt.sequence
      PROVE  request'[d].key = request'[e].key /\ request'[d].key # NoKey
  <2>1. d # c /\ e # c
    BY <1>1, <1>3, <1>4, <1>7
  <2> QED BY <1>1, <1>7, <2>1 DEF AnswersAreRuns
<1> QED BY <1>2, <1>6, <1>7 DEF AnswersAreRuns

\* A remembered key is answered with its own run, so whoever else holds that run
\* presented the same key.
LEMMA AgainKeepsAnswers ==
  ASSUME IInv, NEW c \in Caller, InvokeAgain(c)
  PROVE  AnswersHeld' /\ AnswersAreRuns'
<1> DEFINE k == request[c].key
<1>1. k \in DOMAIN receipts /\ k # NoKey
  BY ContractAssumption DEF InvokeAgain, Seen, IInv, TypeOK
<1>2. /\ answer'[c].receipt = receipts[k]
      /\ \A d \in Caller \ {c} : answer'[d] = answer[d]
      /\ request' = request /\ runs' = runs
  BY DEF InvokeAgain, session, IInv, TypeOK
<1>3. AnswersHeld'
  BY <1>2 DEF AnswersHeld, InvokeAgain, IInv
<1>4. /\ receipts[k].sequence \in 1 .. Len(runs)
      /\ runs[receipts[k].sequence].key = k
      /\ runs[receipts[k].sequence].effect = receipts[k].descriptor
  BY <1>1 DEF ReceiptIsTheRun, IInv
<1>5. ASSUME NEW d \in Caller, answer'[d].ok
      PROVE  /\ answer'[d].receipt.sequence \in 1 .. Len(runs')
             /\ runs'[answer'[d].receipt.sequence].effect = answer'[d].receipt.descriptor
             /\ runs'[answer'[d].receipt.sequence].key = request'[d].key
  BY <1>2, <1>4, <1>5 DEF AnswersAreRuns, IInv
<1>6. ASSUME NEW d \in Caller \ {c}, answer'[d].ok,
             answer'[d].receipt.sequence = answer'[c].receipt.sequence
      PROVE  request'[d].key = k
  <2>1. runs'[answer'[d].receipt.sequence].key = request'[d].key
    BY <1>5, <1>6
  <2> HIDE DEF k
  <2> QED BY <1>2, <1>4, <1>6, <2>1
<1>7. ASSUME NEW d \in Caller, NEW e \in Caller \ {d}, answer'[d].ok, answer'[e].ok,
             answer'[e].receipt.sequence = answer'[d].receipt.sequence
      PROVE  request'[d].key = request'[e].key /\ request'[d].key # NoKey
  <2>1. CASE d = c
    BY <1>1, <1>2, <1>6, <1>7, <2>1
  <2>2. CASE e = c
    BY <1>1, <1>2, <1>6, <1>7, <2>2
  <2>3. CASE d # c /\ e # c
    BY <1>2, <1>7, <2>3 DEF AnswersAreRuns, IInv
  <2> QED BY <2>1, <2>2, <2>3
<1> QED BY <1>3, <1>5, <1>7 DEF AnswersAreRuns

-----------------------------------------------------------------------------
(* The invariant *)

\* A new session has run nothing and remembers nothing.
LEMMA InitInv == Init => IInv
<1> SUFFICES ASSUME Init PROVE IInv
  OBVIOUS
<1> USE SessionAssumption DEF Init
<1>1. TypeOK
  <2>1. DOMAIN receipts = {}
    OBVIOUS
  <2>2. runs \in Seq([effect : Effect, key : Key \cup {NoKey}])
    OBVIOUS
  <2>3. now \in 0 .. MaxTime /\ sequence \in Nat
    OBVIOUS
  <2>4. request \in [Caller -> Request \cup {NoRequest}]
    OBVIOUS
  <2>5. invocations \in [Effect -> Nat]
    OBVIOUS
  <2>6. stopped \in BOOLEAN
    BY Zenon
  <2>7. answer \in [Caller -> {Refused} \cup [ok : {TRUE}, receipt : Receipt]]
    OBVIOUS
  <2> HIDE DEF Init
  <2> QED BY <2>1, <2>2, <2>3, <2>4, <2>5, <2>6, <2>7 DEF TypeOK
<1>2. Len(runs) = 0 /\ 1 .. Len(runs) = {} /\ DOMAIN receipts = {}
  OBVIOUS
<1>3. RunsWithinBound
  <2>1. \A e \in Effect : RunsOf(e) = {} /\ Descriptor[e].max \in Nat
    BY <1>2, ContractAssumption DEF RunsOf, DescriptorType
  <2>2. \A e \in Effect : invocations[e] = 0 /\ Cardinality(RunsOf(e)) = 0
    BY <2>1, FS_EmptySet
  <2> SUFFICES ASSUME NEW e \in Effect
               PROVE  /\ Cardinality(RunsOf(e)) = invocations[e]
                      /\ invocations[e] <= Descriptor[e].max
    BY DEF RunsWithinBound
  <2> HIDE DEF Init
  <2>3. invocations[e] = 0 /\ Cardinality(RunsOf(e)) = 0 /\ Descriptor[e].max \in Nat
    BY <2>1, <2>2
  <2> QED BY <2>3
<1>4. RunsRemembered /\ KeyRunsOnce /\ ReceiptIsTheRun
  BY <1>2 DEF RunsRemembered, KeyRunsOnce, ReceiptIsTheRun
<1>5. \A c \in Caller : ~answer[c].ok
  BY DEF Refused
<1>6. AnswersHeld /\ AnswersAreRuns
  BY <1>5 DEF AnswersHeld, AnswersAreRuns
<1> QED BY <1>1, <1>3, <1>4, <1>6 DEF IInv

\* A step that runs nothing disturbs no promise made to a key.
LEMMA QuietKeeps ==
  ASSUME IInv, UNCHANGED <<receipts, invocations, sequence, runs>>
  PROVE  RunsWithinBound' /\ RunsRemembered' /\ KeyRunsOnce' /\ ReceiptIsTheRun'
BY DEF IInv, RunsWithinBound, RunsOf, RunsRemembered, KeyRunsOnce, ReceiptIsTheRun

\* A step that runs nothing and leaves each caller its answer and its request, or
\* takes the answer from it, disturbs no acknowledgement.
LEMMA QuietAnswers ==
  ASSUME IInv, UNCHANGED runs,
         \A c \in Caller : \/ UNCHANGED <<answer[c], request[c]>>
                           \/ ~answer'[c].ok
  PROVE  AnswersHeld' /\ AnswersAreRuns'
<1>1. \A c \in Caller : answer'[c].ok =>
        answer'[c] = answer[c] /\ request'[c] = request[c]
  OBVIOUS
<1>2. AnswersHeld'
  BY <1>1 DEF AnswersHeld, IInv
<1> QED BY <1>1, <1>2 DEF AnswersAreRuns, IInv

\* Every call of the owner and of the callers preserves the invariant.
LEMMA StepInv == IInv /\ [Next]_vars => IInv'
<1> SUFFICES ASSUME IInv, [Next]_vars PROVE IInv'
  OBVIOUS
<1> USE SessionAssumption DEF session
<1>1. CASE Tick
  <2>1. now' \in 0 .. MaxTime
    BY <1>1 DEF Tick, IInv, TypeOK
  <2>2. UNCHANGED <<request, receipts, invocations, stopped, sequence, runs, answer>>
    BY <1>1 DEF Tick
  <2>3. TypeOK'
    BY <2>1, <2>2 DEF IInv, TypeOK
  <2> QED BY <2>2, <2>3, QuietKeeps, QuietAnswers DEF IInv
<1>2. ASSUME NEW c \in Caller, NEW effect \in Effect, NEW key \in Key \cup {NoKey},
             NEW flaw \in Flaw, Prepare(c, effect, key, flaw)
      PROVE  IInv'
  <2> DEFINE made == [effect |-> effect, key |-> key,
                      armedAt |-> IF flaw = "ahead" THEN now + 1 ELSE now,
                      armed |-> flaw # "arm", granted |-> flaw # "grant",
                      fits |-> flaw # "room"]
  <2>1. made \in Request
    BY DEF Request, IInv, TypeOK
  <2>2. request' = [request EXCEPT ![c] = made]
    BY <1>2 DEF Prepare
  <2> HIDE DEF made
  <2>3. TypeOK'
    BY <1>2, <2>1, <2>2 DEF Prepare, IInv, TypeOK
  <2>4. \A d \in Caller : UNCHANGED <<answer[d], request[d]>> \/ ~answer'[d].ok
    BY <1>2, <2>2 DEF Prepare, IInv, TypeOK, AnswersHeld
  <2> QED BY <1>2, <2>3, <2>4, QuietKeeps, QuietAnswers DEF Prepare, IInv
<1>3. ASSUME NEW c \in Caller, Drop(c) PROVE IInv'
  <2>1. TypeOK'
    BY <1>3 DEF Drop, IInv, TypeOK
  <2>2. \A d \in Caller : UNCHANGED <<answer[d], request[d]>> \/ ~answer'[d].ok
    BY <1>3 DEF Drop, Refused, IInv, TypeOK
  <2> QED BY <1>3, <2>1, <2>2, QuietKeeps, QuietAnswers DEF Drop, IInv
<1>4. ASSUME NEW c \in Caller, InvokeRefused(c) PROVE IInv'
  <2>1. TypeOK'
    BY <1>4 DEF InvokeRefused, IInv, TypeOK
  <2>2. \A d \in Caller : UNCHANGED <<answer[d], request[d]>> \/ ~answer'[d].ok
    BY <1>4 DEF InvokeRefused, Refused, IInv, TypeOK
  <2> QED BY <1>4, <2>1, <2>2, QuietKeeps, QuietAnswers DEF InvokeRefused, IInv
<1>5. ASSUME NEW c \in Caller, InvokeAgain(c) PROVE IInv'
  <2> DEFINE given == [ok |-> TRUE, receipt |-> receipts[request[c].key]]
  <2>1. given \in [ok : {TRUE}, receipt : Receipt]
    BY <1>5 DEF InvokeAgain, Seen, IInv, TypeOK
  <2>2. answer' = [answer EXCEPT ![c] = given]
    BY <1>5 DEF InvokeAgain
  <2> HIDE DEF given
  <2>3. TypeOK'
    BY <1>5, <2>1, <2>2 DEF InvokeAgain, IInv, TypeOK
  <2>4. AnswersHeld' /\ AnswersAreRuns'
    BY <1>5, AgainKeepsAnswers
  <2> QED BY <1>5, <2>3, <2>4, QuietKeeps DEF InvokeAgain, IInv
<1>6. ASSUME NEW c \in Caller, InvokeRuns(c) PROVE IInv'
  BY <1>6, RunKeepsTypes, RunKeepsBound, RunKeepsKeys, RunKeepsAnswers DEF IInv
<1>7. CASE Start
  BY <1>7, QuietKeeps, QuietAnswers DEF Start, IInv, TypeOK
<1>8. CASE Stop
  BY <1>8, QuietKeeps, QuietAnswers DEF Stop, IInv, TypeOK
<1>9. CASE UNCHANGED vars
  BY <1>9, QuietKeeps, QuietAnswers DEF vars, IInv, TypeOK
<1> QED
  BY <1>1, <1>2, <1>3, <1>4, <1>5, <1>6, <1>7, <1>8, <1>9 DEF Next

\* Through every interleaving of arms, invocations, retries, stops and
\* restarts: no effect runs more often than its descriptor allows, no key runs
\* twice, each receipt names its key's own run, and each caller's answer names a
\* run made under the key it asked with.
THEOREM SessionInvariant ==
  Spec => [](TypeOK /\ RunsWithinBound /\ KeyRunsOnce /\ ReceiptIsTheRun /\ AnswersAreRuns)
<1>1. IInv => TypeOK /\ RunsWithinBound /\ KeyRunsOnce /\ ReceiptIsTheRun /\ AnswersAreRuns
  BY DEF IInv
<1> QED BY InitInv, StepInv, <1>1, PTL DEF Spec

\* Every step leaves the runs of a stopped session as they are and the
\* receipts given so far unchanged.
LEMMA StepSettles ==
  IInv /\ [Next]_vars =>
    [/\ stopped /\ stopped' => UNCHANGED runs
     /\ \A k \in DOMAIN receipts : k \in DOMAIN receipts' /\ receipts'[k] = receipts[k]]_vars
<1> SUFFICES ASSUME IInv, Next
             PROVE  /\ stopped /\ stopped' => UNCHANGED runs
                    /\ \A k \in DOMAIN receipts :
                         k \in DOMAIN receipts' /\ receipts'[k] = receipts[k]
  OBVIOUS
<1>1. ASSUME NEW c \in Caller, InvokeRuns(c)
      PROVE  /\ ~stopped
             /\ \A k \in DOMAIN receipts :
                  k \in DOMAIN receipts' /\ receipts'[k] = receipts[k]
  BY <1>1, ReceiptRemembered DEF InvokeRuns, Admitted, IInv
<1>2. (\A c \in Caller : ~InvokeRuns(c)) => UNCHANGED <<runs, receipts>>
  BY DEF Next, Tick, Prepare, Drop, InvokeRefused, InvokeAgain, Start, Stop, session
<1> QED BY <1>1, <1>2

\* No effect runs more often than its descriptor allows, over every restart,
\* retry and interleaving of callers (FakeEffectSession::invoke).
THEOREM SessionBounded == Spec => []RunsWithinBound
BY SessionInvariant, PTL

\* Whatever was answered with a receipt is that of the run its key names.
THEOREM SessionReceipts == Spec => []ReceiptIsTheRun
BY SessionInvariant, PTL

\* What a caller was acknowledged with is a run under the key it asked with, and
\* one run acknowledges two callers only when both presented its key.
THEOREM SessionAnswers == Spec => []AnswersAreRuns
BY SessionInvariant, PTL

\* A session its owner stopped runs nothing until it is started again, and an
\* answer once given to a key never changes.
THEOREM SessionSettled == Spec => StoppedAndSettled
BY InitInv, StepInv, StepSettles, PTL DEF Spec, StoppedAndSettled

=============================================================================

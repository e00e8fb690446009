--------------------------- MODULE EffectSession ---------------------------
(***************************************************************************)
(* The registry-backed effect session of src/device.rs (FakeEffectSession) *)
(* with the callers that use it.  A caller arms a request, invokes it at   *)
(* some later time, and may invoke it again: because the answer was lost,  *)
(* because the session refused, or after the owner stopped and started the *)
(* session.  The session takes &mut self, so one call is one step.         *)
(***************************************************************************)
EXTENDS EffectContract, Sequences, FiniteSets

CONSTANTS
  Caller,      \* callers that share the session
  MaxTime      \* bound: the latest monotonic timestamp

ASSUME SessionAssumption == MaxTime \in Nat

VARIABLES
  now,          \* the callers' monotonic clock
  request,      \* caller -> the request it holds, or none
  receipts,     \* key -> receipt, for the keys seen
  invocations,  \* effect -> how often it ran
  stopped,
  sequence,     \* of the last receipt
  answer,       \* caller -> what its last invocation returned
  runs          \* history: every effect run, in order

session == <<receipts, invocations, stopped, sequence, runs>>
vars == <<now, request, session, answer>>

Request == [effect : Effect, key : Key \cup {NoKey}, armedAt : 0 .. MaxTime + 1,
            armed : BOOLEAN, granted : BOOLEAN, fits : BOOLEAN]
Flaw == {"none", "ahead", "arm", "grant", "room"}
NoRequest == [held |-> FALSE]
Refused == [ok |-> FALSE]

\* FakeEffectSession::new
Init ==
  /\ now = 0
  /\ request = [c \in Caller |-> NoRequest]
  /\ receipts = <<>>
  /\ invocations = [e \in Effect |-> 0]
  /\ stopped = FALSE
  /\ sequence = 0
  /\ answer = [c \in Caller |-> Refused]
  /\ runs = <<>>

Tick ==
  /\ now < MaxTime
  /\ now' = now + 1
  /\ UNCHANGED <<request, session, answer>>

\* A caller makes up a request, on a clock that may be a step ahead of the
\* one it will invoke with; at most one thing is wrong with it.
Prepare(c, effect, key, flaw) ==
  /\ request[c] = NoRequest
  /\ request' = [request EXCEPT ![c] =
       [effect |-> effect, key |-> key,
        armedAt |-> IF flaw = "ahead" THEN now + 1 ELSE now,
        armed |-> flaw # "arm", granted |-> flaw # "grant", fits |-> flaw # "room"]]
  /\ UNCHANGED <<now, session, answer>>

\* It may give up on a request, answered or not.
Drop(c) ==
  /\ request' = [request EXCEPT ![c] = NoRequest]
  /\ answer' = [answer EXCEPT ![c] = Refused]
  /\ UNCHANGED <<now, session>>

-----------------------------------------------------------------------------
(* invoke                                                                  *)

Bounded(effect) == invocations[effect] < Descriptor[effect].max

\* Fault: only keys of the same effect count as seen.
SeenPerEffect(r) ==
  /\ r.key \in DOMAIN receipts
  /\ receipts[r.key].descriptor = r.effect

\* The key of the request alone decides, whatever effect it was used for.
Seen(r) == r.key \in DOMAIN receipts

\* Everything invoke refuses before it looks at the key; the bound comes first.
Admitted(r) == ~stopped /\ Authorized(r, now) /\ Bounded(r.effect)

InvokeRefused(c) ==
  /\ request[c] # NoRequest
  /\ ~Admitted(request[c])
  /\ answer' = [answer EXCEPT ![c] = Refused]
  /\ UNCHANGED <<now, request, session>>

InvokeAgain(c) ==
  /\ request[c] # NoRequest
  /\ Admitted(request[c])
  /\ Seen(request[c])
  /\ answer' = [answer EXCEPT ![c] = [ok |-> TRUE, receipt |-> receipts[request[c].key]]]
  /\ UNCHANGED <<now, request, session>>

\* Fault: the receipt of a keyed run is not remembered.
RememberNothing(r, receipt) == receipts

\* Fault: a request without a key is remembered too, like one with an empty key.
RememberKeyless(r, receipt) ==
  [k \in DOMAIN receipts \cup {r.key} |-> IF k = r.key THEN receipt ELSE receipts[k]]

\* The key now names its receipt; a request without a key leaves no trace.
Remember(r, receipt) ==
  [k \in DOMAIN receipts \cup ({r.key} \ {NoKey}) |->
     IF k = r.key THEN receipt ELSE receipts[k]]

\* Fault: the receipt carries the sequence before it is advanced.
NextReceiptStale(r) == [descriptor |-> r.effect, sequence |-> sequence]

NextReceipt(r) == [descriptor |-> r.effect, sequence |-> sequence + 1]

InvokeRuns(c) ==
  /\ request[c] # NoRequest
  /\ Admitted(request[c])
  /\ ~Seen(request[c])
  /\ LET r == request[c]
         receipt == NextReceipt(r)
     IN  /\ invocations' = [invocations EXCEPT ![r.effect] = @ + 1]
         /\ sequence' = sequence + 1
         /\ receipts' = Remember(r, receipt)
         /\ answer' = [answer EXCEPT ![c] = [ok |-> TRUE, receipt |-> receipt]]
         /\ runs' = Append(runs, [effect |-> r.effect, key |-> r.key])
  /\ UNCHANGED <<now, request, stopped>>

-----------------------------------------------------------------------------

\* Fault: a restart forgets how often effects ran.
StartForgets ==
  /\ stopped' = FALSE
  /\ invocations' = [e \in Effect |-> 0]
  /\ UNCHANGED <<now, request, receipts, sequence, runs, answer>>

\* start and stop, by the owner: only the flag changes.
Start ==
  /\ stopped' = FALSE
  /\ UNCHANGED <<now, request, receipts, invocations, sequence, runs, answer>>

Stop ==
  /\ stopped' = TRUE
  /\ UNCHANGED <<now, request, receipts, invocations, sequence, runs, answer>>

Next ==
  \/ Tick
  \/ \E c \in Caller : \/ \E effect \in Effect, key \in Key \cup {NoKey}, flaw \in Flaw :
                             Prepare(c, effect, key, flaw)
                       \/ Drop(c)
                       \/ InvokeRefused(c) \/ InvokeAgain(c) \/ InvokeRuns(c)
  \/ Start
  \/ Stop

Spec == Init /\ [][Next]_vars

-----------------------------------------------------------------------------
(* Properties                                                              *)

Receipt == [descriptor : Effect, sequence : Nat]
RunsOf(effect) == {i \in 1 .. Len(runs) : runs[i].effect = effect}

\* Every field has its type.
TypeOK ==
  /\ now \in 0 .. MaxTime
  /\ request \in [Caller -> Request \cup {NoRequest}]
  /\ DOMAIN receipts \subseteq Key
  /\ \A k \in DOMAIN receipts : receipts[k] \in Receipt
  /\ invocations \in [Effect -> Nat]
  /\ stopped \in BOOLEAN
  /\ sequence \in Nat
  /\ answer \in [Caller -> {Refused} \cup [ok : {TRUE}, receipt : Receipt]]
  /\ runs \in Seq([effect : Effect, key : Key \cup {NoKey}])

\* Through stops, restarts and retries of every caller, the effects really run
\* are exactly those counted, and no effect runs more often than its bound.
RunsWithinBound ==
  \A e \in Effect : /\ Cardinality(RunsOf(e)) = invocations[e]
                    /\ invocations[e] <= Descriptor[e].max

\* One key runs one effect once, whoever presents it and however often.
KeyRunsOnce ==
  \A i, j \in 1 .. Len(runs) :
    runs[i].key = runs[j].key /\ runs[i].key # NoKey => i = j

\* Whatever receipt a key is answered with is that of the key's own run, and
\* receipt sequences number the runs without a gap.
ReceiptIsTheRun ==
  /\ sequence = Len(runs)
  /\ \A k \in DOMAIN receipts :
       /\ receipts[k].sequence \in 1 .. Len(runs)
       /\ LET run == runs[receipts[k].sequence]
          IN  run.key = k /\ run.effect = receipts[k].descriptor

\* What a caller holds as its acknowledgement names a run made under the key it
\* asked with, after any retries and restarts; and one run acknowledges two
\* callers only when both presented its key, so that no request without a key is
\* answered by somebody else's run.
AnswersAreRuns ==
  \A c \in Caller : answer[c].ok =>
    /\ answer[c].receipt.sequence \in 1 .. Len(runs)
    /\ LET run == runs[answer[c].receipt.sequence]
       IN  run.effect = answer[c].receipt.descriptor /\ run.key = request[c].key
    /\ \A d \in Caller \ {c} :
         answer[d].ok /\ answer[d].receipt.sequence = answer[c].receipt.sequence =>
           request[c].key = request[d].key /\ request[c].key # NoKey

\* A session that its owner has stopped runs nothing until it is started, and
\* an answer once given to a key never changes.
StoppedAndSettled ==
  [][/\ stopped /\ stopped' => UNCHANGED runs
     /\ \A k \in DOMAIN receipts : k \in DOMAIN receipts' /\ receipts'[k] = receipts[k]]_vars

\* EffectReceipt: "Durable acknowledgement returned for an invoked effect",
\* naming the "Descriptor that authorized the effect": the effect of an
\* acknowledged request has run.
AcknowledgedMeansRun ==
  \A c \in Caller :
    answer[c].ok => answer[c].receipt.descriptor = request[c].effect

=============================================================================

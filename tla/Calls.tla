------------------------------- MODULE Calls --------------------------------
(***************************************************************************)
(* One call after another of a page and the server through the generated   *)
(* client (frontend/src/entity/service.client.ts), with a server that may  *)
(* be newer than the page, and the rollback dialog, the page's only        *)
(* read-modify-write of a message (RollbackFileList in                     *)
(* frontend/src/components/job-archive.tsx).                               *)
(***************************************************************************)
EXTENDS Wire

CONSTANTS
    FieldNumbers,   \* the numbers by which samples of messages differ
    Picks           \* which case of a oneof a sample has

VARIABLES
    phase,          \* where the call is
    method,         \* the client's method, "" before the first
    sent,           \* the message its sender means
    bytes,          \* what is on the wire
    got,            \* the message its receiver has read
    listed,         \* the jobs of the page: [was, now], as received and as altered in place,
                    \* or <<>>
    shown           \* the archive state, as received, of the job that is rolled back, or <<>>

callVars == <<phase, method, sent, bytes, got, listed, shown>>

Phases == {"quiet", "asked", "served", "answered", "received"}
PENDING == 1
PROCESSING == 3

(* Mutants, never used by the model: what a plausible bug would make of the *)
(* definition of the same name, here or in Wire.                            *)
MutRebuilt(sources, idx) ==
    [i \in DOMAIN sources |->
        IF i < idx THEN sources[i]
        ELSE [create(SourceState) EXCEPT !.source = sources[i].source, !.status = PENDING]]
-----------------------------------------------------------------------------
(* Messages to try: at every depth the fields with the given number only, or *)
(* all but them; extra adds a field the page does not know.                  *)
Samples == [only : BOOLEAN, number : FieldNumbers \cup {0}, pick : Picks, extra : BOOLEAN]

RECURSIVE Sample(_, _)
Sample(T, s) ==
    LET Has(f) == (f.no = s.number) = s.only
        Value(f) == CASE f.kind.wire = "message" -> Sample(f.kind.type, s)
                      [] f.kind.wire = "varint"  -> IF f.form = "maybe" /\ s.pick = 2 THEN 0 ELSE 4
                      [] f.kind.wire = "chunk"   -> "x"
        Least(f) == IF f.kind.wire = "message" THEN create(f.kind.type) ELSE Zero(f.kind)
        Cases(slot) == SelectSeq(T, LAMBDA f : f.slot = slot)
        In(slot) == Cases(slot)[1 + (s.pick % Len(Cases(slot)))]
    IN  [slot \in DOMAIN create(T) |->
            IF slot = "unknown" THEN IF s.extra THEN <<Entry(99, "varint", 7)>> ELSE <<>>
            ELSE IF ~Has(In(slot)) THEN create(T)[slot]
            ELSE CASE In(slot).form = "one"   -> Value(In(slot))
                   [] In(slot).form = "maybe" -> <<Value(In(slot))>>
                   [] In(slot).form = "many"  -> <<Value(In(slot)), Least(In(slot)), Value(In(slot))>>
                   [] In(slot).form = "case"  -> <<In(slot).name, Value(In(slot))>>]
-----------------------------------------------------------------------------
(* The page calls a method of the client; only rollbacks go on from the jobs *)
(* of an earlier call.                                                       *)
Ask(m, s) ==
    /\ phase \in {"quiet", "received"}
    /\ ~s.extra
    /\ phase' = "asked"
    /\ method' = m
    /\ sent' = Sample(ServiceClient[m].I, s)
    /\ bytes' = internalBinaryWrite(ServiceClient[m].I, sent')
    /\ listed' = <<>> /\ shown' = <<>>
    /\ got' = <<>>

Serve ==
    /\ phase = "asked"
    /\ phase' = "served"
    /\ got' = internalBinaryRead(ServiceClient[method].I, bytes, create(ServiceClient[method].I))
    /\ UNCHANGED <<method, sent, bytes, listed, shown>>

Answer(s) ==
    /\ phase = "served"
    /\ phase' = "answered"
    /\ sent' = Sample(ServiceClient[method].O, s)
    /\ bytes' = internalBinaryWrite(ServiceClient[method].O, sent')
    /\ shown' = <<>>
    /\ got' = <<>>
    /\ UNCHANGED <<method, listed>>

(* The promise of the call resolves. *)
Receive ==
    /\ phase = "answered"
    /\ phase' = "received"
    /\ got' = internalBinaryRead(ServiceClient[method].O, bytes, create(ServiceClient[method].O))
    /\ listed' = IF method = "jobList" THEN [was |-> got', now |-> got'] ELSE listed
    /\ UNCHANGED <<method, sent, bytes, shown>>

(* The promise is rejected; what the page has altered stays altered. *)
Refuse ==
    /\ phase = "asked"
    /\ phase' = "quiet"
    /\ method' = "" /\ sent' = <<>> /\ bytes' = <<>> /\ got' = <<>> /\ shown' = <<>>
    /\ UNCHANGED listed

(* The sources from the chosen one on become pending. *)
Reset(sources, idx) ==
    [i \in DOMAIN sources |-> IF i >= idx THEN [sources[i] EXCEPT !.status = PENDING] ELSE sources[i]]

(* In the card of an archive job that is not processing, the user chooses a  *)
(* file of the rollback dialog: the page sends back the state it has, whose  *)
(* sources it has reset in place before the request, so that they stay reset *)
(* for the next rollback if this one is refused.                             *)
RollBack(job, idx) ==
    /\ phase \in {"quiet", "received"}
    /\ listed # <<>>
    /\ job \in DOMAIN listed.now.jobs
    /\ LET j == listed.now.jobs[job]
           state == j.state[1].state[2]
           request == create(JobEditStateRequest)
       IN  /\ j.state # <<>> /\ j.state[1].state # <<>>
           /\ j.state[1].state[1] = "archive"
           /\ j.status # PROCESSING
           /\ idx \in DOMAIN state.sources
           /\ state.sources[idx].source # <<>>
           /\ sent' = [request EXCEPT
                !.id = j.id,
                !.state = <<[create(JobState) EXCEPT !.state =
                    <<"archive", [state EXCEPT !.sources = Reset(state.sources, idx)]>>]>>]
           /\ shown' = <<listed.was.jobs[job].state[1].state[2]>>
    /\ phase' = "asked"
    /\ method' = "jobEditState"
    /\ bytes' = internalBinaryWrite(JobEditStateRequest, sent')
    /\ got' = <<>>
    /\ listed' = [listed EXCEPT !.now.jobs[job].state[1].state[2].sources = Reset(@, idx)]

CallsInit ==
    /\ phase = "quiet" /\ method = "" /\ listed = <<>> /\ shown = <<>>
    /\ sent = <<>> /\ bytes = <<>> /\ got = <<>>

CallsNext ==
    \/ \E m \in DOMAIN ServiceClient, s \in Samples : Ask(m, s)
    \/ Serve \/ Refuse
    \/ \E s \in Samples : Answer(s)
    \/ Receive
    \/ \E job, idx \in 1..3 : RollBack(job, idx)
-----------------------------------------------------------------------------
(* What is read is what was meant: which optional fields are there, which    *)
(* case a oneof has, an embedded message that is there but empty, zeros in   *)
(* lists, and what a newer server added (the generated internalBinaryRead    *)
(* and internalBinaryWrite).                                                 *)
MeaningArrives == phase \in {"served", "received"} => got = sent

(* A page that is older than the server loses nothing of an archive state    *)
(* when it rolls it back, once or again after a refusal: the server reads    *)
(* the state the page was sent, fields unknown to the page included, but for *)
(* the statuses from one file on, which are PENDING (RollbackFileList).      *)
RollbackKeepsTheRest ==
    phase = "served" /\ shown # <<>> =>
        LET now == got.state[1].state[2]
            Unmarked(state) == [state EXCEPT !.sources =
                                    [i \in DOMAIN @ |-> [@[i] EXCEPT !.status = PENDING]]]
        IN  /\ got.state[1].state[1] = "archive"
            /\ Unmarked(now) = Unmarked(shown[1])
            /\ \E idx \in DOMAIN now.sources : \A i \in DOMAIN now.sources :
                  now.sources[i].status = IF i < idx THEN shown[1].sources[i].status ELSE PENDING
=============================================================================

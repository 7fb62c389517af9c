----------------------------- MODULE TapesPage ------------------------------
(***************************************************************************)
(* The page of tapes (useTapesSourceBrowser in                             *)
(* frontend/src/pages/tapes.tsx): the tapes of the library, and the        *)
(* directories of a tape by their positions.  The path shown is made by    *)
(* the page itself, from the path the render of the click had.             *)
(***************************************************************************)
EXTENDS Integers, Sequences, FiniteSets

CONSTANTS
    TapeRoot,       \* the root, where the tapes are listed
    Places,         \* tapes and directories of tapes
    Above,          \* place -> the place it lies in
    TapeCalls       \* requests that may be under way at once

VARIABLES
    stored,         \* the tapes and directories the library has
    entries,        \* the places shown
    listedIn,       \* the place they were listed in
    tapeChain,      \* the path shown
    tapeCalls       \* call -> openFolder or a deletion

tapesVars == <<stored, entries, listedIn, tapeChain, tapeCalls>>

NoOpening == [pc |-> "free"]
Opening(place) == [pc |-> "asked", target |-> place, chain |-> tapeChain]
Inside(place) == {p \in Places : Above[p] = place}

(* The path once the target is listed: up to the target if the path of the  *)
(* click has it, that path and the target if not; the root begins anew.     *)
(* MutChainTo, never used by the model, always appends.                     *)
PrefixTo(chain, i) == SubSeq(chain, 1, i)
MutChainTo(target, chain) == IF target = TapeRoot THEN <<TapeRoot>> ELSE Append(chain, target)
ChainTo(target, chain) ==
    IF target = TapeRoot THEN <<TapeRoot>>
    ELSE IF \E i \in DOMAIN chain : chain[i] = target
    THEN PrefixTo(chain, CHOOSE i \in DOMAIN chain : chain[i] = target)
    ELSE Append(chain, target)
-----------------------------------------------------------------------------
TapesInit ==
    /\ stored = Places
    /\ entries = {} /\ listedIn = TapeRoot
    /\ tapeChain = <<TapeRoot>>
    /\ tapeCalls = [c \in TapeCalls |-> IF c = CHOOSE d \in TapeCalls : TRUE THEN Opening(TapeRoot) ELSE NoOpening]

(* A double click on what is listed, or a click on the path. *)
OpenPlace(c, place) ==
    /\ tapeCalls[c] = NoOpening
    /\ place \in entries \/ \E i \in DOMAIN tapeChain : tapeChain[i] = place
    /\ tapeCalls' = [tapeCalls EXCEPT ![c] = Opening(place)]
    /\ UNCHANGED <<stored, entries, listedIn, tapeChain>>

(* tapeList, or tapeGetPositions, which does not look for the tape. *)
ServePlace(c) ==
    /\ tapeCalls[c].pc = "asked"
    /\ tapeCalls' = [tapeCalls EXCEPT ![c] =
          [pc |-> "served", target |-> @.target, chain |-> @.chain,
           reply |-> IF @.target = TapeRoot THEN Inside(TapeRoot) \cap stored ELSE Inside(@.target)]]
    /\ UNCHANGED <<stored, entries, listedIn, tapeChain>>

ReceivePlace(c) ==
    /\ tapeCalls[c].pc = "served"
    /\ entries' = tapeCalls[c].reply
    /\ listedIn' = tapeCalls[c].target
    /\ tapeChain' = ChainTo(tapeCalls[c].target, tapeCalls[c].chain)
    /\ tapeCalls' = [tapeCalls EXCEPT ![c] = NoOpening]
    /\ UNCHANGED stored

(* The user confirms the deletion of selected tapes; then the place that was *)
(* shown is opened again, with the path the click had.                       *)
DeleteSelected(c, tape) ==
    /\ tapeCalls[c] = NoOpening
    /\ tape \in entries
    /\ tapeCalls' = [tapeCalls EXCEPT ![c] = [pc |-> "delete", tape |-> tape, chain |-> tapeChain]]
    /\ UNCHANGED <<stored, entries, listedIn, tapeChain>>

ServeDelete(c) ==
    /\ tapeCalls[c].pc = "delete"
    /\ stored' = IF Above[tapeCalls[c].tape] = TapeRoot THEN stored \ {tapeCalls[c].tape} ELSE stored
    /\ tapeCalls' = [tapeCalls EXCEPT ![c] =
          [pc |-> "asked", target |-> @.chain[Len(@.chain)], chain |-> @.chain]]
    /\ UNCHANGED <<entries, listedIn, tapeChain>>

FailPlace(c) ==
    /\ tapeCalls[c] # NoOpening
    /\ tapeCalls' = [tapeCalls EXCEPT ![c] = NoOpening]
    /\ UNCHANGED <<stored, entries, listedIn, tapeChain>>

TapesNext ==
    \E c \in TapeCalls :
        \/ ServePlace(c) \/ ReceivePlace(c) \/ ServeDelete(c) \/ FailPlace(c)
        \/ \E place \in Places \cup {TapeRoot} : OpenPlace(c, place) \/ DeleteSelected(c, place)

TapesSpec == TapesInit /\ [][TapesNext]_tapesVars
-----------------------------------------------------------------------------
(* Whatever the user clicks while answers are under way, the path shown is a *)
(* path from the root that ends where the entries were listed (tapes.tsx:33  *)
(* to 71, which makes the path of the click, not of the answer).             *)
ChainIsAPath ==
    /\ tapeChain[1] = TapeRoot
    /\ \A i \in 1..(Len(tapeChain) - 1) : Above[tapeChain[i + 1]] = tapeChain[i]
    /\ tapeChain[Len(tapeChain)] = listedIn
=============================================================================

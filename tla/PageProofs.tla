----------------------------- MODULE PageProofs ------------------------------
(***************************************************************************)
(* Proofs about the pages of the browser.  The log dialog shows a prefix   *)
(* of the log, the path of the page of tapes is a path, the page of jobs   *)
(* shows what it no longer asks for as it is unless a refresh wrote over   *)
(* another and never has two intervals, and the waiting list is the user's *)
(* whenever its sizes come: for any number of requests and any order of    *)
(* their answers, any tree of tapes, any number of jobs and any limit of a *)
(* reply.                                                                  *)
(***************************************************************************)
EXTENDS LogConsole, TapesPage, JobsPage, Waitlist, SequenceTheorems,
        FiniteSetTheorems, WellFoundedInduction, TLAPS

-----------------------------------------------------------------------------
(* The log dialog *)

(* A request works on a log and an offset that belong together, though they *)
(* may be those of an earlier render; what was served ends in the log.      *)
SoundLogCall(call) ==
    \/ call = NoLogCall
    \/ \E n \in 0..written, by \in {"latest", "earlier", "none"} :
          \/ call = [pc |-> "asked", log |-> Upto(n), offset |-> n, effect |-> by]
          \/ \E end \in n..written :
                call = [pc |-> "served", log |-> Upto(n), offset |-> n, effect |-> by, end |-> end]

LogInv ==
    /\ written \in Nat
    /\ LogIsPrefix
    /\ DOMAIN logCalls = LogCalls
    /\ \A c \in LogCalls : SoundLogCall(logCalls[c])

LEMMA UptoIsSeq == \A n \in Nat : Upto(n) \in Seq(Nat) /\ Len(Upto(n)) = n
  BY DEF Upto

(* An answer adds exactly what its request had not.                         *)
LEMMA UptoGrows ==
    ASSUME NEW n \in Nat, NEW m \in Nat, n <= m
    PROVE  Upto(n) \o [i \in 1..(m - n) |-> n + i] = Upto(m)
  <1> DEFINE more == [i \in 1..(m - n) |-> n + i]
             both == Upto(n) \o more
  <1>1. more \in Seq(Nat) /\ Len(more) = m - n /\ \A i \in 1..(m - n) : more[i] = n + i
    OBVIOUS
  <1>2. Upto(n) \in Seq(Nat) /\ Len(Upto(n)) = n /\ Upto(m) \in Seq(Nat) /\ Len(Upto(m)) = m
    BY UptoIsSeq
  <1> HIDE DEF more
  <1>3. both \in Seq(Nat)
    BY <1>1, <1>2, ConcatProperties
  <1>4. Len(both) = m
    BY <1>1, <1>2, ConcatProperties
  <1>5. \A i \in 1..m : both[i] = IF i <= n THEN Upto(n)[i] ELSE more[i - n]
    BY <1>1, <1>2, ConcatProperties
  <1> HIDE DEF both
  <1>6. \A i \in 1..m : both[i] = i
    BY <1>5, <1>1 DEF Upto
  <1>7. \A i \in 1..m : Upto(m)[i] = i
    BY DEF Upto
  <1>8. \A i \in 1..Len(both) : both[i] = Upto(m)[i]
    BY <1>4, <1>6, <1>7
  <1>9. both = Upto(m)
    BY <1>2, <1>3, <1>4, <1>8, SeqEqual
  <1> QED
    BY <1>9 DEF both, more

LEMMA LogStarts == LogInit => LogInv
  BY DEF LogInit, LogInv, LogIsPrefix, SoundLogCall, Upto

(* A log that grows leaves what was asked and served sound.                 *)
LEMMA SoundStays ==
    ASSUME NEW call, SoundLogCall(call), written \in Nat, written' \in Nat, written' >= written
    PROVE  SoundLogCall(call)'
  BY DEF SoundLogCall, NoLogCall, Upto

LEMMA SoundInStep ==
    ASSUME written' = written, NEW c, SoundLogCall(logCalls'[c])
    PROVE  SoundLogCall(logCalls[c])'
  BY DEF SoundLogCall, Upto

(* A request that is asked starts from what is shown.                       *)
LEMMA AskedIsSound ==
    ASSUME LogInv, NEW by \in {"latest", "earlier", "none"}
    PROVE  SoundLogCall(LogCall(by))
  BY DEF LogInv, LogIsPrefix, SoundLogCall, LogCall

(* What cleaning up an effect leaves is as sound as before.                 *)
LEMMA LeftIsSound ==
    ASSUME \A c \in LogCalls : SoundLogCall(logCalls[c])
    PROVE  /\ DOMAIN Left(logCalls) = LogCalls
           /\ \A c \in LogCalls : SoundLogCall(Left(logCalls)[c])
  <1>1. DOMAIN Left(logCalls) = LogCalls
    BY DEF Left
  <1>2. ASSUME NEW c \in LogCalls PROVE SoundLogCall(Left(logCalls)[c])
    <2>1. CASE logCalls[c].pc # "free" /\ logCalls[c].effect = "latest"
      <3>1. Left(logCalls)[c] = [logCalls[c] EXCEPT !.effect = "earlier"]
        BY <2>1 DEF Left
      <3>2. PICK n \in 0..written, by \in {"latest", "earlier", "none"} :
                \/ logCalls[c] = [pc |-> "asked", log |-> Upto(n), offset |-> n, effect |-> by]
                \/ \E end \in n..written :
                      logCalls[c] = [pc |-> "served", log |-> Upto(n), offset |-> n, effect |-> by, end |-> end]
        BY <2>1 DEF SoundLogCall, NoLogCall
      <3>3. CASE logCalls[c] = [pc |-> "asked", log |-> Upto(n), offset |-> n, effect |-> by]
        <4>1. Left(logCalls)[c] = [pc |-> "asked", log |-> Upto(n), offset |-> n, effect |-> "earlier"]
          BY <3>1, <3>3
        <4> QED
          BY <4>1 DEF SoundLogCall
      <3>4. ASSUME NEW end \in n..written,
                   logCalls[c] = [pc |-> "served", log |-> Upto(n), offset |-> n, effect |-> by, end |-> end]
            PROVE  SoundLogCall(Left(logCalls)[c])
        <4>1. Left(logCalls)[c] =
                  [pc |-> "served", log |-> Upto(n), offset |-> n, effect |-> "earlier", end |-> end]
          BY <3>1, <3>4
        <4> QED
          BY <4>1 DEF SoundLogCall
      <3> QED
        BY <3>2, <3>3, <3>4
    <2>2. CASE ~(logCalls[c].pc # "free" /\ logCalls[c].effect = "latest")
      BY <2>2 DEF Left
    <2> QED
      BY <2>1, <2>2
  <1> QED
    BY <1>1, <1>2

(* An answer shows the log up to where it was served.                       *)
LEMMA AnswerIsPrefix ==
    ASSUME LogInv, NEW c \in LogCalls, logCalls[c].pc = "served"
    PROVE  logCalls[c].end \in 0..written /\ Extended(logCalls[c]) = Upto(logCalls[c].end)
  <1>1. PICK n \in 0..written, by \in {"latest", "earlier", "none"}, end \in 0..written :
            n <= end /\ logCalls[c] = [pc |-> "served", log |-> Upto(n), offset |-> n, effect |-> by, end |-> end]
    BY DEF LogInv, SoundLogCall, NoLogCall
  <1>2. n \in Nat /\ end \in Nat /\ n <= end /\ end \in 0..written
    BY <1>1 DEF LogInv
  <1>3. Extended(logCalls[c]) = Upto(n) \o [i \in 1..(end - n) |-> n + i]
    BY <1>1 DEF Extended
  <1>4. Upto(n) \o [i \in 1..(end - n) |-> n + i] = Upto(end)
    BY <1>2, UptoGrows
  <1>5. logCalls[c].end = end
    BY <1>1
  <1> QED
    BY <1>2, <1>3, <1>4, <1>5

LEMMA LogGoesOn == LogInv /\ [LogNext]_logVars => LogInv'
  <1> SUFFICES ASSUME LogInv, [LogNext]_logVars PROVE LogInv'
    OBVIOUS
  <1>w. written \in Nat /\ offset \in 0..written
    BY DEF LogInv, LogIsPrefix
  <1>s. ASSUME written' = written, log' = log, offset' = offset, DOMAIN logCalls' = LogCalls,
               \A c \in LogCalls : SoundLogCall(logCalls'[c])
        PROVE  LogInv'
    <2>1. \A c \in LogCalls : SoundLogCall(logCalls[c])'
      BY <1>s, SoundInStep
    <2> QED
      BY <1>s, <2>1 DEF LogInv, LogIsPrefix, Upto
  <1>1. CASE WriteLog
    <2>1. written' \in Nat /\ written' >= written /\ UNCHANGED <<log, offset, logCalls>>
      BY <1>1, <1>w DEF WriteLog
    <2>2. \A c \in LogCalls : SoundLogCall(logCalls[c])'
      BY <2>1, <1>w, SoundStays DEF LogInv
    <2> QED
      BY <2>1, <2>2, <1>w DEF LogInv, LogIsPrefix, Upto
  <1>2. CASE SetInterval
    BY <1>2, <1>s DEF SetInterval, LogInv
  <1>3. CASE CloseLog
    BY <1>3, <1>s, LeftIsSound DEF CloseLog, LogInv
  <1>4. ASSUME NEW c \in LogCalls, OpenLog(c) \/ LogTick(c) PROVE LogInv'
    <2>1. \E by \in {"latest", "earlier", "none"} : logCalls' = [logCalls EXCEPT ![c] = LogCall(by)]
      BY <1>4 DEF OpenLog, LogTick
    <2> QED
      BY <1>4, <1>s, <2>1, AskedIsSound DEF OpenLog, LogTick, LogInv
  <1>5. ASSUME NEW c \in LogCalls, ServeLog(c) PROVE LogInv'
    <2>1. PICK n \in 0..written, by \in {"latest", "earlier", "none"} :
              logCalls[c] = [pc |-> "asked", log |-> Upto(n), offset |-> n, effect |-> by]
      BY <1>5 DEF ServeLog, LogInv, SoundLogCall, NoLogCall
    <2>2. logCalls'[c] = [pc |-> "served", log |-> Upto(n), offset |-> n, effect |-> by, end |-> written]
      BY <1>5, <2>1 DEF ServeLog, LogInv
    <2>3. SoundLogCall(logCalls'[c])
      BY <2>2, <1>w DEF SoundLogCall
    <2> QED
      BY <1>5, <1>s, <2>3 DEF ServeLog, LogInv
  <1>6. ASSUME NEW c \in LogCalls, ReceiveNothing(c) \/ FailLog(c) PROVE LogInv'
    BY <1>6, <1>s DEF ReceiveNothing, FailLog, LogInv, SoundLogCall
  <1>7. ASSUME NEW c \in LogCalls, ReceiveLog(c) PROVE LogInv'
    <2>1. /\ log' = Upto(logCalls[c].end) /\ offset' = logCalls[c].end /\ offset' \in 0..written
          /\ written' = written
          /\ logCalls' = [Left(logCalls) EXCEPT ![c] =
                            [pc |-> "asked", log |-> log', offset |-> offset', effect |-> "latest"]]
      BY <1>7, AnswerIsPrefix DEF ReceiveLog
    <2>2. DOMAIN Left(logCalls) = LogCalls /\ \A d \in LogCalls : SoundLogCall(Left(logCalls)[d])
      BY LeftIsSound DEF LogInv
    <2>3. DOMAIN logCalls' = LogCalls /\ \A d \in LogCalls : SoundLogCall(logCalls'[d])
      <3>1. SoundLogCall([pc |-> "asked", log |-> log', offset |-> offset', effect |-> "latest"])
        BY <2>1 DEF SoundLogCall
      <3> QED
        BY <2>1, <2>2, <3>1
    <2>4. \A d \in LogCalls : SoundLogCall(logCalls[d])'
      BY <2>1, <2>3, SoundInStep
    <2> QED
      BY <2>1, <2>3, <2>4, <1>w DEF LogInv, LogIsPrefix, Upto
  <1>8. CASE UNCHANGED logVars
    BY <1>8, <1>s DEF logVars, LogInv
  <1> QED
    BY <1>1, <1>2, <1>3, <1>4, <1>5, <1>6, <1>7, <1>8 DEF LogNext

(* However many intervals run and in whatever order their answers come, the *)
(* dialog shows the log up to its offset (job-log.tsx:46-50).               *)
THEOREM LogIsShownInOrder == LogSpec => []LogIsPrefix
  <1>1. LogInv => LogIsPrefix
    BY DEF LogInv
  <1> QED
    BY LogStarts, LogGoesOn, <1>1, PTL DEF LogSpec

-----------------------------------------------------------------------------
(* The page of tapes *)

Shown == Places \cup {TapeRoot}

IsPath(chain) ==
    /\ chain \in Seq(Shown) /\ Len(chain) >= 1
    /\ chain[1] = TapeRoot
    /\ \A i \in 1..(Len(chain) - 1) : Above[chain[i + 1]] = chain[i]

(* What is opened lies on the path of its click or one step below its end.  *)
Opens(target, chain) ==
    /\ IsPath(chain)
    /\ target \in Shown
    /\ \/ \E i \in DOMAIN chain : chain[i] = target
       \/ target = TapeRoot
       \/ Above[target] = chain[Len(chain)]

SoundOpening(call) ==
    \/ call = NoOpening
    \/ \E target \in Shown, chain \in Seq(Shown) :
          /\ Opens(target, chain)
          /\ \/ call = [pc |-> "asked", target |-> target, chain |-> chain]
             \/ \E reply \in SUBSET Inside(target) :
                   call = [pc |-> "served", target |-> target, chain |-> chain, reply |-> reply]
    \/ \E tape \in Shown, chain \in Seq(Shown) :
          IsPath(chain) /\ call = [pc |-> "delete", tape |-> tape, chain |-> chain]

TapesInv ==
    /\ IsPath(tapeChain)
    /\ tapeChain[Len(tapeChain)] = listedIn
    /\ entries \subseteq Inside(listedIn)
    /\ DOMAIN tapeCalls = TapeCalls
    /\ \A c \in TapeCalls : SoundOpening(tapeCalls[c])

(* What openFolder makes of a path is a path that ends where it opened.     *)
LEMMA ChainToIsPath ==
    ASSUME NEW target, NEW chain, Opens(target, chain)
    PROVE  /\ IsPath(ChainTo(target, chain))
           /\ ChainTo(target, chain)[Len(ChainTo(target, chain))] = target
  <1>1. chain \in Seq(Shown) /\ Len(chain) \in Nat /\ Len(chain) >= 1 /\ DOMAIN chain = 1..Len(chain)
    BY DEF Opens, IsPath
  <1>2. CASE target = TapeRoot
    BY <1>2 DEF ChainTo, IsPath, Shown
  <1>3. CASE target # TapeRoot /\ \E i \in DOMAIN chain : chain[i] = target
    <2> DEFINE at == CHOOSE i \in DOMAIN chain : chain[i] = target
    <2>1. at \in 1..Len(chain) /\ chain[at] = target
      BY <1>1, <1>3
    <2>2. ChainTo(target, chain) = SubSeq(chain, 1, at)
      BY <1>3 DEF ChainTo, PrefixTo
    <2> HIDE DEF at
    <2>3. \A i \in 1..at : chain[i] \in Shown
      BY <1>1, <2>1, ElementOfSeq
    <2>4. /\ SubSeq(chain, 1, at) \in Seq(Shown)
          /\ Len(SubSeq(chain, 1, at)) = at
          /\ \A i \in 1..at : SubSeq(chain, 1, at)[i] = chain[i]
      BY <2>1, <2>3
    <2> HIDE DEF IsPath
    <2>5. IsPath(SubSeq(chain, 1, at))
      <3>1. chain[1] = TapeRoot /\ \A i \in 1..(Len(chain) - 1) : Above[chain[i + 1]] = chain[i]
        BY DEF Opens, IsPath
      <3>2. \A i \in 1..(at - 1) : Above[SubSeq(chain, 1, at)[i + 1]] = SubSeq(chain, 1, at)[i]
        BY <3>1, <2>4, <2>1, <1>1
      <3> QED
        BY <3>1, <3>2, <2>4, <2>1 DEF IsPath
    <2> QED
      BY <2>1, <2>2, <2>4, <2>5
  <1>4. CASE target # TapeRoot /\ ~(\E i \in DOMAIN chain : chain[i] = target)
    <2> DEFINE n == Len(chain)
               more == Append(chain, target)
    <2>1. ChainTo(target, chain) = more
      BY <1>4 DEF ChainTo
    <2>2. target \in Shown /\ Above[target] = chain[n]
      BY <1>4 DEF Opens
    <2>3. more \in Seq(Shown) /\ Len(more) = n + 1 /\ more[n + 1] = target
          /\ \A i \in 1..n : more[i] = chain[i]
      BY <1>1, <2>2
    <2> HIDE DEF more
    <2>4. chain[1] = TapeRoot /\ \A i \in 1..(n - 1) : Above[chain[i + 1]] = chain[i]
      BY DEF Opens, IsPath
    <2>5. \A i \in 1..n : Above[more[i + 1]] = more[i]
      BY <1>1, <2>2, <2>3, <2>4
    <2> QED
      BY <1>1, <2>1, <2>3, <2>4, <2>5 DEF IsPath
  <1> QED
    BY <1>2, <1>3, <1>4

LEMMA TapesStart == TapesInit => TapesInv
  <1> SUFFICES ASSUME TapesInit PROVE TapesInv
    OBVIOUS
  <1>1. IsPath(<<TapeRoot>>)
    BY DEF IsPath, Shown
  <1>2. Opens(TapeRoot, <<TapeRoot>>) /\ <<TapeRoot>> \in Seq(Shown)
    BY <1>1 DEF Opens, Shown
  <1>3. SoundOpening(Opening(TapeRoot))
    BY <1>2 DEF SoundOpening, Opening, TapesInit, Shown
  <1>4. SoundOpening(NoOpening)
    BY DEF SoundOpening
  <1> QED
    BY <1>1, <1>3, <1>4 DEF TapesInit, TapesInv

LEMMA TapesGoOn == TapesInv /\ [TapesNext]_tapesVars => TapesInv'
  <1> SUFFICES ASSUME TapesInv, [TapesNext]_tapesVars PROVE TapesInv'
    OBVIOUS
  <1>s. ASSUME UNCHANGED <<entries, listedIn, tapeChain>>, NEW c \in TapeCalls, NEW call,
               SoundOpening(call), tapeCalls' = [tapeCalls EXCEPT ![c] = call]
        PROVE  TapesInv'
    <2>1. UNCHANGED IsPath(tapeChain)
      BY <1>s
    <2>2. DOMAIN tapeCalls' = TapeCalls /\ \A d \in TapeCalls : SoundOpening(tapeCalls'[d])
      BY <1>s DEF TapesInv
    <2> QED
      BY <1>s, <2>1, <2>2 DEF TapesInv
  <1>1. ASSUME NEW c \in TapeCalls, ServePlace(c) PROVE TapesInv'
    <2>1. PICK target \in Shown, chain \in Seq(Shown) :
              Opens(target, chain) /\ tapeCalls[c] = [pc |-> "asked", target |-> target, chain |-> chain]
      BY <1>1 DEF ServePlace, TapesInv, SoundOpening, NoOpening
    <2> DEFINE reply == IF target = TapeRoot THEN Inside(TapeRoot) \cap stored ELSE Inside(target)
    <2>2. tapeCalls' = [tapeCalls EXCEPT ![c] =
              [pc |-> "served", target |-> target, chain |-> chain, reply |-> reply]]
      BY <1>1, <2>1 DEF ServePlace, TapesInv
    <2>3. reply \subseteq Inside(target)
      OBVIOUS
    <2> HIDE DEF reply
    <2>4. SoundOpening([pc |-> "served", target |-> target, chain |-> chain, reply |-> reply])
      BY <2>1, <2>3 DEF SoundOpening
    <2> QED
      BY <1>1, <1>s, <2>2, <2>4 DEF ServePlace
  <1>2. ASSUME NEW c \in TapeCalls, ReceivePlace(c) PROVE TapesInv'
    <2>1. PICK target \in Shown, chain \in Seq(Shown), reply \in SUBSET Places :
              /\ reply \subseteq Inside(target)
              /\ Opens(target, chain)
              /\ tapeCalls[c] = [pc |-> "served", target |-> target, chain |-> chain, reply |-> reply]
      BY <1>2 DEF ReceivePlace, TapesInv, SoundOpening, NoOpening, Inside
    <2>2. /\ entries' = reply /\ listedIn' = target
          /\ tapeChain' = ChainTo(target, chain)
          /\ tapeCalls' = [tapeCalls EXCEPT ![c] = NoOpening]
      BY <1>2, <2>1 DEF ReceivePlace
    <2>3. SoundOpening(NoOpening)
      BY DEF SoundOpening
    <2>4. \A d \in TapeCalls : SoundOpening(tapeCalls'[d])
      BY <2>2, <2>3 DEF TapesInv
    <2>5. (\A d \in TapeCalls : SoundOpening(tapeCalls[d]))'
      BY <2>4 DEF SoundOpening
    <2> QED
      BY <2>1, <2>2, <2>5, ChainToIsPath DEF TapesInv
  <1>3. ASSUME NEW c \in TapeCalls, ServeDelete(c) PROVE TapesInv'
    <2>1. PICK tape \in Shown, chain \in Seq(Shown) :
              IsPath(chain) /\ tapeCalls[c] = [pc |-> "delete", tape |-> tape, chain |-> chain]
      BY <1>3 DEF ServeDelete, TapesInv, SoundOpening, NoOpening
    <2>2. tapeCalls' = [tapeCalls EXCEPT ![c] = [pc |-> "asked", target |-> chain[Len(chain)], chain |-> chain]]
      BY <1>3, <2>1 DEF ServeDelete, TapesInv
    <2>3. Opens(chain[Len(chain)], chain)
      BY <2>1, ElementOfSeq DEF Opens, IsPath
    <2>4. SoundOpening([pc |-> "asked", target |-> chain[Len(chain)], chain |-> chain])
      BY <2>1, <2>3 DEF SoundOpening, Opens
    <2> QED
      BY <1>3, <1>s, <2>2, <2>4 DEF ServeDelete
  <1>4. ASSUME NEW c \in TapeCalls, FailPlace(c) PROVE TapesInv'
    BY <1>4, <1>s DEF FailPlace, SoundOpening
  <1>5. ASSUME NEW c \in TapeCalls, NEW place \in Places \cup {TapeRoot}, OpenPlace(c, place)
        PROVE  TapesInv'
    <2>1. Opens(place, tapeChain)
      BY <1>5 DEF OpenPlace, Opens, TapesInv, Shown, Inside
    <2>2. SoundOpening(Opening(place))
      BY <2>1 DEF SoundOpening, Opening, Opens, IsPath
    <2> QED
      BY <1>5, <1>s, <2>2 DEF OpenPlace
  <1>6. ASSUME NEW c \in TapeCalls, NEW tape \in Places \cup {TapeRoot}, DeleteSelected(c, tape)
        PROVE  TapesInv'
    <2>1. SoundOpening([pc |-> "delete", tape |-> tape, chain |-> tapeChain])
      BY DEF SoundOpening, TapesInv, IsPath, Shown
    <2> QED
      BY <1>6, <1>s, <2>1 DEF DeleteSelected
  <1>7. CASE UNCHANGED tapesVars
    BY <1>7 DEF tapesVars, TapesInv, SoundOpening
  <1> QED
    BY <1>1, <1>2, <1>3, <1>4, <1>5, <1>6, <1>7 DEF TapesNext

(* Whatever the user clicks while answers are under way, the path shown     *)
(* leads from the root to what is listed (tapes.tsx:31-74).                 *)
THEOREM PathLeadsToTheListing == TapesSpec => []ChainIsAPath
  <1>1. TapesInv => ChainIsAPath
    BY DEF TapesInv, IsPath, ChainIsAPath
  <1> QED
    BY TapesStart, TapesGoOn, <1>1, PTL DEF TapesSpec

-----------------------------------------------------------------------------
(* The page of jobs *)

LEMMA MaxIsLargest ==
    ASSUME NEW n \in Nat, NEW S \in SUBSET (0..n), S # {}
    PROVE  Max(S) \in S /\ \A y \in S : Max(S) >= y
  <1> DEFINE T == {m \in Nat : \E x \in S : m = n - x}
  <1>1. T \subseteq Nat /\ T # {}
    <2>1. PICK x \in S : x \in 0..n
      OBVIOUS
    <2>2. n - x \in T
      BY <2>1
    <2> QED
      BY <2>2
  <1>2. PICK m \in T : \A k \in T : ~(<<k, m>> \in OpToRel(<, Nat))
    BY <1>1, NatLessThanWellFounded, WFMin
  <1>3. \A k \in T : ~(k < m)
    BY <1>1, <1>2 DEF OpToRel
  <1>4. PICK x \in S : m = n - x
    OBVIOUS
  <1>5. \A y \in S : x >= y
    <2> TAKE y \in S
    <2>1. n - y \in T
      OBVIOUS
    <2> QED
      BY <1>3, <1>4, <2>1
  <1> QED
    BY <1>5 DEF Max

(* A reply has the changes that are longest ago: with a row it has every     *)
(* row that changed earlier, however many there are.                        *)
LEMMA EarliestFirst ==
    ASSUME NEW since \in Nat, DOMAIN table = PageJobs, \A j \in PageJobs : table[j].time \in Nat
    PROVE  LET R == ListRecentlyUpdateJob(since)
           IN  /\ DOMAIN R \subseteq Since(since)
               /\ \A j \in DOMAIN R : R[j] = table[j]
               /\ \A j \in Since(since), m \in DOMAIN R : table[j].time <= table[m].time => j \in DOMAIN R
  <1> DEFINE Earlier(j) == {i \in Since(since) : table[i].time < table[j].time}
  <1>1. IsFiniteSet(Since(since))
    BY FS_Subset, JobsAssumption DEF Since
  <1>2. DOMAIN ListRecentlyUpdateJob(since) = {j \in Since(since) : Cardinality(Earlier(j)) < Limit}
    <2> DEFINE rank == [j \in DOMAIN table |-> table[j].time]
    <2>1. \A j \in Since(since) : {i \in Since(since) : rank[i] < rank[j]} = Earlier(j)
      BY DEF Since
    <2>2. DOMAIN ListRecentlyUpdateJob(since) = Page(Since(since), rank)
      BY DEF ListRecentlyUpdateJob, RowsOf
    <2> QED
      BY <2>1, <2>2 DEF Page
  <1>3. \A j \in DOMAIN ListRecentlyUpdateJob(since) : ListRecentlyUpdateJob(since)[j] = table[j]
    BY DEF ListRecentlyUpdateJob, RowsOf
  <1>4. ASSUME NEW j \in Since(since), NEW m \in DOMAIN ListRecentlyUpdateJob(since),
               table[j].time <= table[m].time
        PROVE  Cardinality(Earlier(j)) < Limit
    <2>1. table[j].time \in Nat /\ table[m].time \in Nat /\ m \in Since(since)
      BY <1>2 DEF Since
    <2>2. Earlier(j) \subseteq Earlier(m)
      BY <1>4, <2>1 DEF Since
    <2>3. IsFiniteSet(Earlier(m))
      BY <1>1, FS_Subset
    <2>4. Cardinality(Earlier(j)) <= Cardinality(Earlier(m)) /\ IsFiniteSet(Earlier(j))
      BY <2>2, <2>3, FS_Subset
    <2>5. Cardinality(Earlier(j)) \in Nat /\ Cardinality(Earlier(m)) \in Nat
      BY <2>3, <2>4, FS_CardinalityType
    <2>6. Cardinality(Earlier(m)) < Limit
      BY <1>2
    <2> QED
      BY <2>4, <2>5, <2>6, JobsAssumption
  <1> QED
    BY <1>2, <1>3, <1>4

(* js shows every row it has, or that changed after time f, and that changed *)
(* at time l or earlier.                                                    *)
ShowsUpTo(js, l, f) ==
    \A j \in PageJobs :
        table[j].time <= l /\ (j \in DOMAIN js \/ table[j].time > f) =>
            IF Visible(table[j]) THEN j \in DOMAIN js /\ js[j] = table[j] ELSE j \notin DOMAIN js

(* A row of a reply is the row of the table, unless that has changed since, *)
(* which is later than all the reply has.                                   *)
LaterThan(j, reply) == \A i \in DOMAIN reply : table[j].time > reply[i].time
Rows(reply) ==
    /\ reply = [j \in DOMAIN reply |-> reply[j]]
    /\ \A j \in DOMAIN reply :
          j \in PageJobs /\ reply[j].time \in 0..clock /\ (reply[j] = table[j] \/ LaterThan(j, reply))

(* The rest of the table is known already or later than the reply.          *)
Complete(reply, since) ==
    \A j \in PageJobs \ DOMAIN reply : table[j].time <= since \/ LaterThan(j, reply)
Newer(reply, since) == \A j \in DOMAIN reply : reply[j].time > since

IsState(state) ==
    state = [jobs |-> state.jobs, latest |-> state.latest] /\ state.latest \in 0..clock

(* What is known of a call, whatever has been set since it began.           *)
Sound(call) ==
    \/ call.pc = "free"
    \/ /\ call.pc \in {"pressed", "asked", "served", "display"}
       /\ IsState(call.from)
       /\ call.pc \in {"asked", "served"} => call.full \in BOOLEAN /\ (call.full => call.from = Blank)
       /\ call.pc = "served" =>
             /\ Rows(call.reply)
             /\ ~call.full => Complete(call.reply, call.from.latest) /\ Newer(call.reply, call.from.latest)
       /\ call.pc = "display" => call.updated \/ call.results = call.from.jobs

TableInv ==
    /\ clock \in Nat
    /\ DOMAIN table = PageJobs
    /\ \A j \in PageJobs : table[j].time \in 0..clock
    /\ DOMAIN jobCalls = JobCalls
    /\ inOrder \in BOOLEAN

Fresh == queued = Blank /\ render = Blank /\ first = 0 /\ \A c \in JobCalls : jobCalls[c] = NoRefresh

(* The first list is asked for once, and who sets a time before it comes    *)
(* sets a later one than that of the blank page.                            *)
FullCall(call) == call.pc \in {"asked", "served"} /\ call.full
FirstList ==
    \A c, d \in JobCalls :
        FullCall(jobCalls[c]) =>
            /\ FullCall(jobCalls[d]) => c = d
            /\ Owes(jobCalls[d]) => jobCalls[d].from.latest > 0

(* Either nobody owes rows and the page is to show what it should, or one   *)
(* call does and has them, or some call does whose state is no more: that   *)
(* one can only write over what is newer, or fail.                          *)
AllShown(js) == ShowsUpTo(js, queued.latest, first)
Paid == AllShown(queued.jobs) /\ \A c \in JobCalls : ~Owes(jobCalls[c])
Owed(c) ==
    /\ Owes(jobCalls[c]) /\ jobCalls[c].from = queued /\ AllShown(jobCalls[c].results)
    /\ \A d \in JobCalls : Owes(jobCalls[d]) => d = c
Doomed(c) == Owes(jobCalls[c]) /\ jobCalls[c].from.latest < queued.latest
Settled == Paid \/ \E c \in JobCalls : Owed(c) \/ Doomed(c)

OrderInv ==
    /\ IsState(queued) /\ IsState(render)
    /\ \A c \in JobCalls : Sound(jobCalls[c])
    /\ FirstList
    /\ Settled

JobsInv ==
    /\ TableInv
    /\ page = "new" => Fresh
    /\ inOrder /\ page = "mounted" => OrderInv

LEMMA JobsStart == JobsInit => JobsInv
  <1> SUFFICES ASSUME JobsInit PROVE JobsInv
    OBVIOUS
  <1>1. TableInv
    BY DEF JobsInit, TableInv
  <1>2. page = "new" /\ Fresh
    BY DEF JobsInit, Fresh
  <1> QED
    BY <1>1, <1>2 DEF JobsInv

LEMMA LatestIsLargest ==
    ASSUME clock \in Nat, NEW reply, \A j \in DOMAIN reply : reply[j].time \in 0..clock
    PROVE  /\ LatestOf(reply) \in 0..clock
           /\ \A j \in DOMAIN reply : reply[j].time <= LatestOf(reply)
           /\ LatestOf(reply) = 0 \/ \E j \in DOMAIN reply : reply[j].time = LatestOf(reply)
  <1> DEFINE S == {reply[j].time : j \in DOMAIN reply} \cup {0}
  <1>1. S \in SUBSET (0..clock) /\ S # {}
    OBVIOUS
  <1>2. Max(S) \in S /\ \A y \in S : Max(S) >= y
    BY <1>1, MaxIsLargest
  <1>3. LatestOf(reply) = Max(S)
    BY DEF LatestOf
  <1> QED
    BY <1>1, <1>2, <1>3

LEMMA TableIsKept ==
    ASSUME JobsInv, JobsNext
    PROVE  TableInv'
  <1> USE DEF JobsInv, TableInv
  <1>1. ASSUME NEW j \in PageJobs, NEW status, ChangeJob(j, status)
        PROVE  TableInv'
    <2>1. /\ clock' = clock + 1 /\ inOrder' = inOrder /\ jobCalls' = jobCalls
          /\ table' = [table EXCEPT ![j] = [time |-> clock + 1, status |-> status]]
      BY <1>1 DEF ChangeJob
    <2>2. DOMAIN table' = PageJobs /\ \A i \in PageJobs : table'[i].time \in 0..clock'
      BY <2>1
    <2> QED
      BY <2>1, <2>2
  <1>2. ASSUME NEW c \in JobCalls, Mount(c) PROVE TableInv'
    BY <1>2 DEF Mount, Refresh
  <1>3. ASSUME NEW c \in JobCalls, Message(c) \/ Poll(c) PROVE TableInv'
    BY <1>3 DEF Message, Poll, Asks, Refresh
  <1>4. ASSUME NEW c \in JobCalls, Press(c) \/ CardAsks(c) \/ ServeJobs(c) PROVE TableInv'
    BY <1>4 DEF Press, CardAsks, ServeJobs
  <1>5. ASSUME NEW c \in JobCalls, ReceiveJobs(c) PROVE TableInv'
    BY <1>5 DEF ReceiveJobs
  <1>6. ASSUME NEW c \in JobCalls, ReceiveDisplays(c) PROVE TableInv'
    BY <1>6 DEF ReceiveDisplays
  <1>7. ASSUME NEW c \in JobCalls, FailJobs(c) PROVE TableInv'
    BY <1>7 DEF FailJobs
  <1>8. CASE Render \/ Connect \/ Onerror \/ Fallback
    BY <1>8 DEF Render, Connect, Onerror, Fallback, StreamOnly
  <1>9. CASE LeaveJobs
    BY <1>9 DEF LeaveJobs
  <1> QED
    BY <1>1, <1>2, <1>3, <1>4, <1>5, <1>6, <1>7, <1>8, <1>9 DEF JobsNext, Answers

(* What a change of a row leaves: the row is later than all that is shown   *)
(* and all a reply has.                                                     *)
LEMMA ChangeIsLater ==
    ASSUME TableInv, OrderInv, NEW j \in PageJobs, NEW status, ChangeJob(j, status)
    PROVE  OrderInv'
  <1>1. /\ clock' = clock + 1 /\ clock \in Nat
        /\ table' = [table EXCEPT ![j] = [time |-> clock + 1, status |-> status]] /\ DOMAIN table = PageJobs
        /\ table'[j].time = clock + 1
        /\ \A i \in PageJobs : i # j => table'[i] = table[i]
        /\ \A i \in PageJobs : table[i].time \in Nat /\ table'[i].time \in Nat
    BY DEF ChangeJob, TableInv
  <1>2. UNCHANGED <<page, queued, render, jobCalls, first>> /\ queued.latest \in 0..clock
    BY DEF ChangeJob, OrderInv, IsState, stateVars
  <1>3. ASSUME NEW js, AllShown(js)
        PROVE  ShowsUpTo(js, queued.latest, first)'
    <2> SUFFICES ASSUME NEW i \in PageJobs, table'[i].time <= queued.latest,
                        i \in DOMAIN js \/ table'[i].time > first
                 PROVE  IF Visible(table'[i]) THEN i \in DOMAIN js /\ js[i] = table'[i] ELSE i \notin DOMAIN js
      BY <1>2 DEF ShowsUpTo, Visible
    <2>1. i # j
      BY <1>1, <1>2
    <2> QED
      BY <1>1, <1>3, <2>1 DEF ShowsUpTo, AllShown
  <1>4. ASSUME NEW reply, Rows(reply) PROVE LaterThan(j, reply)'
    BY <1>1, <1>4 DEF Rows, LaterThan
  <1>5. ASSUME NEW reply, NEW i \in PageJobs, LaterThan(i, reply), Rows(reply) PROVE LaterThan(i, reply)'
    BY <1>1, <1>4, <1>5 DEF LaterThan
  <1>6. ASSUME NEW reply, Rows(reply) PROVE Rows(reply)'
    BY <1>1, <1>4, <1>5, <1>6 DEF Rows
  <1>7. ASSUME NEW reply, NEW since, since \in 0..clock, Rows(reply), Complete(reply, since)
        PROVE  Complete(reply, since)'
    BY <1>1, <1>4, <1>5, <1>7 DEF Complete
  <1>8. ASSUME NEW state, IsState(state) PROVE IsState(state)'
    BY <1>1, <1>8 DEF IsState
  <1>9. ASSUME NEW call, Sound(call) PROVE Sound(call)'
    <2>1. call.pc # "free" => call.from.latest \in 0..clock
      BY <1>9 DEF Sound, IsState
    <2>2. call.pc # "free" => IsState(call.from)'
      BY <1>8, <1>9 DEF Sound
    <2>3. call.pc = "served" => Rows(call.reply)'
      BY <1>6, <1>9 DEF Sound
    <2>4. call.pc = "served" /\ ~call.full => Complete(call.reply, call.from.latest)'
      BY <1>7, <1>9, <2>1 DEF Sound
    <2> QED
      BY <1>9, <2>2, <2>3, <2>4 DEF Sound, Newer
  <1>10. Settled'
    BY <1>2, <1>3 DEF OrderInv, Settled, Paid, Owed, Doomed, AllShown, Owes
  <1>11. FirstList' /\ IsState(queued)' /\ IsState(render)'
    BY <1>2, <1>8 DEF OrderInv, FirstList, FullCall, Owes
  <1>12. \A c \in JobCalls : Sound(jobCalls[c])'
    BY <1>2, <1>9 DEF OrderInv
  <1> QED
    BY <1>10, <1>11, <1>12 DEF OrderInv

(* A call that owed nothing goes on or ends without setting anything.       *)
LEMMA QuietIsGood ==
    ASSUME TableInv, OrderInv, NEW c \in JobCalls, ~Owes(jobCalls[c]),
           NEW call, Sound(call), ~Owes(call), FullCall(call) => FullCall(jobCalls[c]),
           jobCalls' = [jobCalls EXCEPT ![c] = call],
           UNCHANGED <<table, clock, queued, render, first>>
    PROVE  OrderInv'
  <1>1. jobCalls'[c] = call /\ \A d \in JobCalls : d # c => jobCalls'[d] = jobCalls[d]
    BY DEF TableInv
  <1>2. IsState(queued)' /\ IsState(render)'
    BY DEF OrderInv, IsState
  <1>3. \A d \in JobCalls : Sound(jobCalls[d])'
    <2>1. ASSUME NEW x, Sound(x) PROVE Sound(x)'
      <3>1. \A reply, since : Rows(reply)' = Rows(reply) /\ Complete(reply, since)' = Complete(reply, since)
        BY DEF Rows, Complete, LaterThan
      <3> QED
        BY <2>1, <3>1 DEF Sound, IsState, Newer
    <2>2. \A d \in JobCalls : Sound(jobCalls'[d])
      BY <1>1 DEF OrderInv
    <2>3. ASSUME NEW d \in JobCalls PROVE Sound(jobCalls[d])'
      BY <2>1, <2>2
    <2> QED
      BY <2>3
  <1>4. \A d \in JobCalls : (Owes(jobCalls[d])' <=> Owes(jobCalls[d])) /\ (Owes(jobCalls[d]) => d # c)
    BY <1>1 DEF Owes
  <1>5. \A d \in JobCalls : FullCall(jobCalls[d])' => FullCall(jobCalls[d])
    BY <1>1 DEF FullCall
  <1>6. FirstList'
    BY <1>1, <1>4, <1>5 DEF OrderInv, FirstList
  <1>7. ASSUME NEW js, AllShown(js) PROVE ShowsUpTo(js, queued.latest, first)'
    BY <1>7 DEF AllShown, ShowsUpTo
  <1>8. Settled'
    <2>1. CASE Paid
      BY <1>4, <1>7, <2>1 DEF Settled, Paid, AllShown
    <2>2. ASSUME NEW d \in JobCalls, Owed(d) PROVE Owed(d)'
      BY <1>1, <1>4, <1>7, <2>2 DEF Owed, AllShown
    <2>3. ASSUME NEW d \in JobCalls, Doomed(d) PROVE Doomed(d)'
      BY <1>1, <1>4, <2>3 DEF Doomed
    <2> QED
      BY <2>1, <2>2, <2>3 DEF OrderInv, Settled
  <1> QED
    BY <1>2, <1>3, <1>6, <1>8 DEF OrderInv

(* A refresh begins, or the request of a card: it is of the render.         *)
LEMMA BeginsGood ==
    ASSUME TableInv, OrderInv, NEW c \in JobCalls, Asks(c) \/ Press(c) \/ CardAsks(c)
    PROVE  OrderInv'
  <1>1. UNCHANGED <<table, clock, queued, render, first>>
    BY DEF Asks, Press, CardAsks, stateVars
  <1>2. Sound(jobCalls[c]) /\ IsState(render)
    BY DEF OrderInv
  <1>3. ASSUME NEW call, call.pc = "pressed" \/ (call.pc = "asked" /\ call.full = FALSE), IsState(call.from)
        PROVE  Sound(call) /\ ~Owes(call) /\ ~FullCall(call)
    BY <1>3 DEF Sound, Owes, FullCall
  <1>4. \E call : Sound(call) /\ ~Owes(call) /\ ~FullCall(call) /\ jobCalls' = [jobCalls EXCEPT ![c] = call]
    <2>1. CASE Asks(c)
      <3> DEFINE call == [pc |-> "asked", full |-> FALSE, from |-> render]
      <3>1. Sound(call) /\ ~Owes(call) /\ ~FullCall(call)
        BY <1>2, <1>3
      <3>2. jobCalls' = [jobCalls EXCEPT ![c] = call]
        BY <2>1 DEF Asks, Refresh
      <3> HIDE DEF call
      <3> QED
        BY <3>1, <3>2
    <2>2. CASE Press(c)
      <3> DEFINE call == [pc |-> "pressed", from |-> render]
      <3>1. Sound(call) /\ ~Owes(call) /\ ~FullCall(call)
        BY <1>2, <1>3
      <3>2. jobCalls' = [jobCalls EXCEPT ![c] = call]
        BY <2>2 DEF Press
      <3> HIDE DEF call
      <3> QED
        BY <3>1, <3>2
    <2>3. CASE CardAsks(c)
      <3> DEFINE call == [pc |-> "asked", full |-> FALSE, from |-> jobCalls[c].from]
      <3>1. Sound(call) /\ ~Owes(call) /\ ~FullCall(call)
        BY <1>2, <1>3, <2>3 DEF CardAsks, Sound
      <3>2. jobCalls' = [jobCalls EXCEPT ![c] = call]
        BY <2>3 DEF CardAsks, TableInv
      <3> HIDE DEF call
      <3> QED
        BY <3>1, <3>2
    <2> QED
      BY <2>1, <2>2, <2>3
  <1>5. ~Owes(jobCalls[c])
    BY DEF Asks, Refresh, Press, CardAsks, NoRefresh, Owes
  <1> QED
    BY <1>1, <1>4, <1>5, QuietIsGood

LEMMA MountIsGood ==
    ASSUME TableInv, page = "new" => Fresh, NEW c \in JobCalls, Mount(c)
    PROVE  OrderInv'
  <1>1. /\ jobCalls' = [jobCalls EXCEPT ![c] = [pc |-> "asked", full |-> TRUE, from |-> render]]
        /\ UNCHANGED <<table, clock, queued, render, first>>
        /\ Fresh
    BY DEF Mount, Refresh, stateVars
  <1>2. /\ jobCalls'[c].pc = "asked" /\ jobCalls'[c].full = TRUE /\ jobCalls'[c].from = Blank
        /\ \A d \in JobCalls : d # c => jobCalls'[d].pc = "free"
    BY <1>1 DEF Fresh, NoRefresh, TableInv
  <1>3. IsState(Blank)'
    BY <1>1 DEF IsState, Blank, TableInv
  <1>4. \A d \in JobCalls : Sound(jobCalls[d])'
    BY <1>2, <1>3 DEF Sound
  <1>5. \A d \in JobCalls : ~Owes(jobCalls[d])'
    BY <1>2 DEF Owes
  <1>6. FirstList'
    BY <1>2, <1>5 DEF FirstList, FullCall
  <1>7. Settled'
    BY <1>1, <1>5 DEF Settled, Paid, AllShown, ShowsUpTo, Fresh, Blank, TableInv
  <1> QED
    BY <1>1, <1>3, <1>4, <1>6, <1>7 DEF OrderInv, Fresh, Blank

LEMMA ServeIsGood ==
    ASSUME TableInv, OrderInv, NEW c \in JobCalls, ServeJobs(c)
    PROVE  OrderInv'
  <1> USE DEF TableInv
  <1> DEFINE full == jobCalls[c].full
             from == jobCalls[c].from
             reply == IF full THEN ListJob ELSE ListRecentlyUpdateJob(from.latest)
             call == [pc |-> "served", full |-> full, from |-> from, reply |-> reply]
  <1>1. /\ jobCalls[c].pc = "asked"
        /\ jobCalls' = [jobCalls EXCEPT ![c] = call]
        /\ UNCHANGED <<table, clock, queued, render, first>>
    BY DEF ServeJobs, stateVars
  <1>2. full \in BOOLEAN /\ IsState(from) /\ (full => from = Blank)
    BY <1>1 DEF OrderInv, Sound
  <1>3. from.latest \in Nat
    BY <1>2 DEF IsState
  <1>4. reply = [j \in DOMAIN reply |-> reply[j]] /\ \A j \in DOMAIN reply : j \in PageJobs /\ reply[j] = table[j]
    <2>1. CASE full
      BY <2>1 DEF ListJob, RowsOf, Page
    <2>2. CASE ~full
      <3>1. reply = ListRecentlyUpdateJob(from.latest)
        BY <2>2
      <3>2. ListRecentlyUpdateJob(from.latest) = RowsOf(DOMAIN ListRecentlyUpdateJob(from.latest))
        BY DEF ListRecentlyUpdateJob, RowsOf
      <3>3. DOMAIN ListRecentlyUpdateJob(from.latest) \subseteq Since(from.latest)
        BY <1>3, EarliestFirst
      <3> QED
        BY <3>1, <3>2, <3>3 DEF RowsOf, Since
    <2> QED
      BY <1>2, <2>1, <2>2
  <1>5. Rows(reply)
    BY <1>4 DEF Rows
  <1>6. ASSUME ~full PROVE Complete(reply, from.latest) /\ Newer(reply, from.latest)
    <2>1. /\ reply = ListRecentlyUpdateJob(from.latest) /\ DOMAIN reply \subseteq Since(from.latest)
          /\ \A j \in Since(from.latest), m \in DOMAIN reply : table[j].time <= table[m].time => j \in DOMAIN reply
      BY <1>3, <1>6, EarliestFirst
    <2>2. ASSUME NEW j \in PageJobs \ DOMAIN reply, ~(table[j].time <= from.latest)
          PROVE  \A i \in DOMAIN reply : table[j].time > reply[i].time
      <3>1. j \in Since(from.latest)
        BY <1>3, <2>2 DEF Since
      <3> QED
        BY <1>4, <2>1, <2>2, <3>1
    <2> QED
      BY <1>4, <2>1, <2>2 DEF Complete, LaterThan, Newer, Since
  <1> HIDE DEF full, from, reply
  <1>7. call.pc = "served" /\ call.full = full /\ call.from = from /\ call.reply = reply
    OBVIOUS
  <1> HIDE DEF call
  <1>8. Sound(call)
    BY <1>2, <1>5, <1>6, <1>7 DEF Sound
  <1>9. ~Owes(call) /\ ~Owes(jobCalls[c]) /\ (FullCall(call) => FullCall(jobCalls[c]))
    BY <1>1, <1>7 DEF Owes, FullCall, full
  <1> QED
    BY <1>1, <1>8, <1>9, QuietIsGood

(* The time a refresh leaves the page to ask from. *)
NextLatest(call) == IF call.reply # <<>> THEN LatestOf(call.reply) ELSE call.from.latest
NextFirst(call) == IF call.full THEN LatestOf(call.reply) ELSE first

LEMMA NextIsLater ==
    ASSUME TableInv, NEW call, Sound(call), call.pc = "served"
    PROVE  /\ NextLatest(call) \in 0..clock
           /\ ~call.full /\ call.reply # <<>> => NextLatest(call) > call.from.latest
  <1> DEFINE reply == call.reply
  <1>1. Rows(reply) /\ IsState(call.from) /\ (~call.full => Newer(reply, call.from.latest))
    BY DEF Sound
  <1>2. LatestOf(reply) \in 0..clock /\ \A j \in DOMAIN reply : reply[j].time \in 0..clock /\ reply[j].time <= LatestOf(reply)
    BY <1>1, LatestIsLargest DEF Rows, TableInv
  <1>3. ASSUME reply # <<>> PROVE \E j : j \in DOMAIN reply
    <2>1. ASSUME DOMAIN reply = {} PROVE reply = <<>>
      BY <1>1, <2>1 DEF Rows
    <2> QED
      BY <1>3, <2>1
  <1> QED
    BY <1>1, <1>2, <1>3 DEF NextLatest, IsState, Newer, TableInv

LEMMA ResultsAreGood ==
    ASSUME TableInv, NEW call, Sound(call), call.pc = "served",
           call.full \/ ShowsUpTo(call.from.jobs, call.from.latest, first)
    PROVE  ShowsUpTo(Results(call), NextLatest(call), NextFirst(call))
  <1> USE DEF TableInv
  <1> DEFINE reply == call.reply
             known == call.from.jobs
             since == call.from.latest
             M == LatestOf(reply)
  <1>1. /\ call.full \in BOOLEAN /\ (call.full => known = <<>> /\ since = 0) /\ since \in 0..clock
        /\ Rows(reply) /\ (~call.full => Complete(reply, since))
    BY DEF Sound, Blank, IsState
  <1>2. /\ M \in 0..clock
        /\ M = 0 \/ \E j \in DOMAIN reply : reply[j].time = M
    BY <1>1, LatestIsLargest DEF Rows
  <1>3. ASSUME NEW j \in PageJobs, LaterThan(j, reply), table[j].time <= M
        PROVE  table[j].time = 0 /\ j \notin DOMAIN reply
    BY <1>1, <1>2, <1>3 DEF LaterThan, Rows
  <1>4. ASSUME NEW j \in DOMAIN reply, table[j].time <= M PROVE reply[j] = table[j]
    BY <1>1, <1>3, <1>4 DEF Rows
  <1>5. CASE reply = <<>> /\ call.full
    <2>1. NextLatest(call) = 0 /\ Results(call) = <<>> /\ NextFirst(call) = M /\ M \in Nat
      BY <1>1, <1>2, <1>5 DEF NextLatest, NextFirst, Results
    <2>2. \A j : j \notin DOMAIN Results(call)
      BY <2>1
    <2>3. \A j \in PageJobs : ~(table[j].time <= 0 /\ table[j].time > M)
      BY <2>1
    <2> QED
      BY <2>1, <2>2, <2>3 DEF ShowsUpTo
  <1>6. CASE reply = <<>> /\ ~call.full
    BY <1>1, <1>6 DEF NextLatest, NextFirst, Results
  <1>7. CASE reply # <<>>
    <2> DEFINE all == [j \in DOMAIN known \cup DOMAIN reply |-> IF j \in DOMAIN reply THEN reply[j] ELSE known[j]]
               results == Results(call)
    <2>1. results = [j \in {j \in DOMAIN all : Visible(all[j])} |-> all[j]]
      BY <1>1, <1>7 DEF Results, Restrict
    <2>2. /\ DOMAIN results = {j \in DOMAIN known \cup DOMAIN reply : Visible(all[j])}
          /\ \A j \in DOMAIN results : results[j] = all[j]
      BY <2>1
    <2>3. NextLatest(call) = M
      BY <1>7 DEF NextLatest
    <2> SUFFICES ASSUME NEW j \in PageJobs, table[j].time <= M,
                        j \in DOMAIN results \/ table[j].time > NextFirst(call)
                 PROVE  IF Visible(table[j]) THEN j \in DOMAIN results /\ results[j] = table[j]
                        ELSE j \notin DOMAIN results
      BY <1>2, <2>3 DEF ShowsUpTo
    <2>4. CASE j \in DOMAIN reply
      <3>1. all[j] = table[j] /\ j \in DOMAIN all
        BY <1>4, <2>4
      <3> QED
        BY <2>2, <3>1
    <2>5. CASE j \notin DOMAIN reply
      <3>1. ~call.full
        <4>1. ASSUME call.full PROVE FALSE
          <5>1. DOMAIN known = {} /\ NextFirst(call) = M
            BY <1>1, <4>1 DEF NextFirst
          <5>2. j \in DOMAIN results
            BY <1>2, <5>1
          <5> QED
            BY <2>2, <2>5, <5>1, <5>2
        <4> QED
          BY <4>1
      <3>2. table[j].time <= since
        BY <1>1, <1>3, <2>5, <3>1 DEF Complete
      <3>3. NextFirst(call) = first /\ ShowsUpTo(known, since, first)
        BY <1>1, <3>1 DEF NextFirst
      <3>4. j \in DOMAIN results => j \in DOMAIN known /\ results[j] = known[j]
        BY <2>2, <2>5
      <3>5. j \in DOMAIN known => all[j] = known[j]
        BY <2>5
      <3> QED
        BY <2>2, <3>2, <3>3, <3>4, <3>5 DEF ShowsUpTo
    <2> QED
      BY <2>4, <2>5
  <1> QED
    BY <1>1, <1>5, <1>6, <1>7

(* A clean write of a reply: nothing else has been set since its render.    *)
LEMMA ReceiveIsGood ==
    ASSUME TableInv, OrderInv, inOrder', NEW c \in JobCalls, ReceiveJobs(c)
    PROVE  OrderInv'
  <1> USE DEF TableInv
  <1> DEFINE call == jobCalls[c]
             results == Results(call)
             displays == \E j \in DOMAIN results : results[j].status = "processing"
             updated == call.full \/ call.reply # <<>>
             from == call.from
             next == [from EXCEPT !.latest = IF call.reply # <<>> THEN LatestOf(call.reply) ELSE @]
             shows == [pc |-> "display", from |-> next, results |-> results, updated |-> updated]
             becomes == IF displays THEN shows ELSE NoRefresh
  <1>1. /\ call.pc = "served"
        /\ queued' = [jobs |-> IF updated /\ ~displays THEN results ELSE queued.jobs,
                      latest |-> IF call.reply # <<>> THEN next.latest ELSE queued.latest]
        /\ first' = NextFirst(call)
        /\ jobCalls' = [jobCalls EXCEPT ![c] = becomes]
        /\ UNCHANGED <<table, clock, render>>
    BY DEF ReceiveJobs, NextFirst
  <1>2. inOrder /\ (updated => queued = from)
    <2>1. inOrder' = (inOrder /\ (updated => queued = from))
      BY DEF ReceiveJobs
    <2> HIDE DEF updated, from
    <2> QED
      BY <2>1, Zenon
  <1>3. Sound(call) /\ IsState(from) /\ IsState(queued) /\ IsState(render)
    BY <1>1 DEF OrderInv, Sound
  <1>4. NextLatest(call) \in 0..clock /\ (~call.full /\ call.reply # <<>> => NextLatest(call) > from.latest)
    BY <1>1, <1>3, NextIsLater
  <1>5. next = [jobs |-> from.jobs, latest |-> NextLatest(call)]
    BY <1>3 DEF NextLatest, IsState
  <1>6. ~updated => results = from.jobs /\ next = from
    BY <1>3, <1>5 DEF NextLatest, Results, IsState
  <1>7. IsState(next) /\ next.latest = NextLatest(call) /\ next.jobs = from.jobs
    BY <1>4, <1>5 DEF IsState
  <1>8. shows.pc = "display" /\ shows.from = next /\ shows.results = results /\ shows.updated = updated
    OBVIOUS
  <1>9. ~FullCall(becomes) /\ (Owes(becomes) => displays /\ updated) /\ ~Owes(call)
    BY <1>1, <1>8 DEF FullCall, Owes, NoRefresh
  <1>10. Sound(becomes)
    <2> HIDE DEF next, results, updated, shows, displays, call, from
    <2>1. Sound(shows)
      BY <1>6, <1>7, <1>8 DEF Sound
    <2> QED
      BY <2>1 DEF Sound, NoRefresh
  <1>u. updated <=> call.full \/ call.reply # <<>>
    OBVIOUS
  <1>r. becomes = IF displays THEN shows ELSE NoRefresh
    OBVIOUS
  <1>o. call = jobCalls[c] /\ from = call.from
    OBVIOUS
  <1>R. results = Results(call)
    OBVIOUS
  <1> HIDE DEF next, results, updated, shows, displays, call, from, becomes
  <1>11. CASE ~updated
    <2>1. queued' = queued
      BY <1>1, <1>3, <1>6, <1>u, <1>11 DEF IsState
    <2>2. first' = first
      BY <1>1, <1>u, <1>11 DEF NextFirst
    <2> QED
      BY <1>1, <1>9, <1>10, <1>11, <1>o, <2>1, <2>2, QuietIsGood
  <1>12. CASE updated
    <2>1. queued = from
      BY <1>2, <1>12
    <2>2. queued' = [jobs |-> IF displays THEN queued.jobs ELSE results, latest |-> NextLatest(call)]
      BY <1>1, <1>7, <1>12, <1>o, <2>1 DEF NextLatest
    <2>3. IsState(queued)' /\ IsState(render)'
      BY <1>1, <1>3, <1>4, <2>2 DEF IsState
    <2>4. jobCalls'[c] = becomes /\ \A d \in JobCalls : d # c => jobCalls'[d] = jobCalls[d]
      BY <1>1
    <2>5. \A d \in JobCalls : Sound(jobCalls[d])'
      <3>1. ASSUME NEW x, Sound(x) PROVE Sound(x)'
        <4>1. \A reply, since : Rows(reply)' = Rows(reply) /\ Complete(reply, since)' = Complete(reply, since)
          BY <1>1 DEF Rows, Complete, LaterThan
        <4> QED
          BY <1>1, <3>1, <4>1 DEF Sound, IsState, Newer
      <3>2. \A d \in JobCalls : Sound(jobCalls'[d])
        BY <1>10, <2>4 DEF OrderInv
      <3>3. ASSUME NEW d \in JobCalls PROVE Sound(jobCalls[d])'
        BY <3>1, <3>2
      <3> QED
        BY <3>3
    <2>6. \A d \in JobCalls : Owes(jobCalls[d]) => d # c /\ jobCalls[d].from.latest \in Nat
      <3>1. \A d \in JobCalls : Owes(jobCalls[d]) => d # c
        BY <1>9, <1>o
      <3>2. ASSUME NEW d \in JobCalls, Owes(jobCalls[d]) PROVE jobCalls[d].from.latest \in 0..clock
        BY <3>2 DEF OrderInv, Sound, Owes, IsState
      <3> QED
        BY <3>1, <3>2
    <2>7. ASSUME NEW x \in JobCalls, FullCall(jobCalls[x])'
          PROVE  x # c /\ FullCall(jobCalls[x]) /\ ~call.full
      <3>1. x # c
        BY <1>9, <2>4, <2>7 DEF FullCall
      <3>2. FullCall(jobCalls[x])
        BY <2>4, <2>7, <3>1 DEF FullCall
      <3> QED
        BY <1>1, <1>o, <3>1, <3>2 DEF OrderInv, FirstList, FullCall
    <2>8. FirstList'
      <3> SUFFICES ASSUME NEW x \in JobCalls, NEW d \in JobCalls, FullCall(jobCalls[x])'
                   PROVE  /\ FullCall(jobCalls[d])' => x = d
                          /\ Owes(jobCalls[d])' => jobCalls'[d].from.latest > 0
        BY DEF FirstList
      <3>1. FullCall(jobCalls[d])' => x = d
        BY <2>7 DEF OrderInv, FirstList
      <3>2. ASSUME Owes(jobCalls[d])', d # c PROVE jobCalls'[d].from.latest > 0
        BY <2>4, <2>7, <3>2 DEF OrderInv, FirstList, Owes
      <3>3. ASSUME Owes(jobCalls[d])', d = c PROVE jobCalls'[d].from.latest > 0
        <4>1. Owes(becomes)
          BY <2>4, <3>3 DEF Owes
        <4>2. jobCalls'[d].from = next
          BY <1>8, <1>9, <1>r, <2>4, <3>3, <4>1
        <4>3. call.reply # <<>> /\ ~call.full
          BY <1>u, <1>12, <2>7
        <4> QED
          BY <1>3, <1>4, <1>7, <4>2, <4>3 DEF IsState
      <3> QED
        BY <3>1, <3>2, <3>3
    <2>9. ASSUME ~call.full, NEW d \in JobCalls, Owed(d) \/ Doomed(d)
          PROVE  Doomed(d)'
      <3>1. Owes(jobCalls[d]) /\ d # c /\ jobCalls[d].from.latest \in Nat
        BY <2>6, <2>9 DEF Owed, Doomed
      <3>2. jobCalls[d].from.latest <= from.latest
        BY <1>3, <2>1, <2>9, <3>1 DEF Owed, Doomed, IsState
      <3>3. queued'.latest > from.latest /\ queued'.latest \in Nat /\ from.latest \in Nat
        BY <1>3, <1>4, <1>u, <1>12, <2>2, <2>9 DEF IsState
      <3> QED
        BY <2>4, <3>1, <3>2, <3>3 DEF Doomed, Owes
    <2>10. ASSUME call.full, NEW d \in JobCalls, Owed(d) \/ Doomed(d)
           PROVE  FALSE
      <3>1. FullCall(call) /\ from = Blank
        BY <1>1, <1>3, <1>o, <2>10 DEF FullCall, Sound
      <3>2. queued.latest = 0
        BY <2>1, <3>1 DEF Blank
      <3>3. Owes(jobCalls[d]) /\ jobCalls[d].from.latest \in Nat
        BY <2>6, <2>10 DEF Owed, Doomed
      <3>4. jobCalls[d].from.latest > 0
        BY <1>o, <3>1, <3>3 DEF OrderInv, FirstList
      <3> QED
        BY <2>10, <3>2, <3>3, <3>4 DEF Owed, Doomed
    <2>11. ASSUME Paid PROVE Settled'
      <3>1. ShowsUpTo(from.jobs, from.latest, first)
        BY <2>1, <2>11 DEF Paid, AllShown
      <3>2. ShowsUpTo(results, NextLatest(call), NextFirst(call))
        BY <1>1, <1>3, <1>o, <1>R, <3>1, ResultsAreGood
      <3>3. queued'.latest = NextLatest(call) /\ first' = NextFirst(call)
        BY <1>1, <2>2
      <3>4. PICK rows : rows = results
        OBVIOUS
      <3>5. AllShown(rows)'
        BY <1>1, <3>2, <3>3, <3>4 DEF AllShown, ShowsUpTo
      <3>6. \A d \in JobCalls : Owes(jobCalls[d])' => d = c
        BY <2>4, <2>11 DEF Paid, Owes
      <3>7. CASE displays
        <4>1. becomes = shows /\ Owes(jobCalls[c])'
          BY <1>8, <1>12, <1>r, <2>4, <3>7 DEF Owes
        <4>2. queued' = next
          BY <1>5, <2>1, <2>2, <3>7
        <4>3. jobCalls'[c].from = queued' /\ jobCalls'[c].results = results
          BY <1>8, <2>4, <4>1, <4>2
        <4>4. AllShown(jobCalls[c].results)'
          BY <3>4, <3>5, <4>3 DEF AllShown
        <4> QED
          BY <3>6, <4>1, <4>3, <4>4 DEF Settled, Owed
      <3>8. CASE ~displays
        <4>1. queued'.jobs = results
          BY <2>2, <3>8
        <4>2. ~Owes(jobCalls[c])'
          BY <1>9, <2>4, <3>8 DEF Owes
        <4>3. AllShown(queued.jobs)'
          BY <3>4, <3>5, <4>1 DEF AllShown
        <4> QED
          BY <3>6, <4>2, <4>3 DEF Settled, Paid
      <3> QED
        BY <3>7, <3>8
    <2>12. Settled'
      BY <2>9, <2>10, <2>11 DEF OrderInv, Settled
    <2> QED
      BY <2>3, <2>5, <2>8, <2>12 DEF OrderInv
  <1> QED
    BY <1>11, <1>12

(* The displays are here.  A call that owes nothing writes what was set when *)
(* it began, and is in order only if it still is; one that owes its rows     *)
(* pays them.                                                                *)
LEMMA DisplaysAreGood ==
    ASSUME TableInv, OrderInv, inOrder', NEW c \in JobCalls, ReceiveDisplays(c)
    PROVE  OrderInv'
  <1> USE DEF TableInv
  <1>1. /\ jobCalls[c].pc = "display"
        /\ queued' = [queued EXCEPT !.jobs = jobCalls[c].results]
        /\ jobCalls' = [jobCalls EXCEPT ![c] = NoRefresh]
        /\ UNCHANGED <<table, clock, render, first>>
    BY DEF ReceiveDisplays
  <1>2. queued = jobCalls[c].from
    <2>1. inOrder' = (inOrder /\ queued = jobCalls[c].from)
      BY DEF ReceiveDisplays
    <2> QED
      BY <2>1, Zenon
  <1>3. IsState(queued) /\ Sound(NoRefresh) /\ ~Owes(NoRefresh) /\ ~FullCall(NoRefresh)
    BY DEF OrderInv, Sound, NoRefresh, Owes, FullCall
  <1>4. CASE ~Owes(jobCalls[c])
    <2>1. jobCalls[c].results = queued.jobs
      BY <1>1, <1>2, <1>4 DEF OrderInv, Sound, Owes
    <2>2. queued' = queued
      BY <1>1, <1>3, <2>1 DEF IsState
    <2> QED
      BY <1>1, <1>3, <1>4, <2>2, QuietIsGood
  <1>5. CASE Owes(jobCalls[c])
    <2>1. jobCalls'[c] = NoRefresh /\ \A d \in JobCalls : d # c => jobCalls'[d] = jobCalls[d]
      BY <1>1
    <2>2. queued' = [jobs |-> jobCalls[c].results, latest |-> queued.latest]
      BY <1>1, <1>3 DEF IsState
    <2>3. IsState(queued)' /\ IsState(render)'
      BY <1>1, <1>3, <2>2 DEF IsState, OrderInv
    <2>4. \A d \in JobCalls : Sound(jobCalls[d])'
      <3>1. ASSUME NEW x, Sound(x) PROVE Sound(x)'
        <4>1. \A reply, since : Rows(reply)' = Rows(reply) /\ Complete(reply, since)' = Complete(reply, since)
          BY <1>1 DEF Rows, Complete, LaterThan
        <4> QED
          BY <1>1, <3>1, <4>1 DEF Sound, IsState, Newer
      <3>2. \A d \in JobCalls : Sound(jobCalls'[d])
        BY <1>3, <2>1 DEF OrderInv
      <3>3. ASSUME NEW d \in JobCalls PROVE Sound(jobCalls[d])'
        BY <3>1, <3>2
      <3> QED
        BY <3>3
    <2>5. /\ \A d \in JobCalls : Owes(jobCalls[d])' => Owes(jobCalls[d]) /\ d # c
          /\ \A d \in JobCalls : FullCall(jobCalls[d])' => FullCall(jobCalls[d]) /\ d # c
      BY <1>3, <2>1 DEF Owes, FullCall, NoRefresh
    <2>6. FirstList'
      BY <2>1, <2>5 DEF OrderInv, FirstList
    <2>7. ASSUME \E d \in JobCalls : Owed(d) PROVE Settled'
      <3>1. PICK d \in JobCalls : Owed(d)
        BY <2>7
      <3>2. d = c
        BY <1>5, <3>1 DEF Owed
      <3>3. ShowsUpTo(jobCalls[c].results, queued.latest, first)
        BY <3>1, <3>2 DEF Owed, AllShown
      <3>4. AllShown(queued.jobs)'
        BY <1>1, <2>2, <3>3 DEF AllShown, ShowsUpTo
      <3>5. \A e \in JobCalls : ~Owes(jobCalls[e])'
        BY <2>5, <3>1, <3>2 DEF Owed
      <3> QED
        BY <3>4, <3>5 DEF Settled, Paid
    <2>8. ASSUME NEW d \in JobCalls, Doomed(d) PROVE Doomed(d)'
      <3>1. d # c
        BY <1>2, <1>3, <2>8 DEF Doomed, IsState
      <3> QED
        BY <2>1, <2>2, <2>8, <3>1 DEF Doomed, Owes
    <2>9. Settled'
      BY <1>5, <2>7, <2>8 DEF OrderInv, Settled, Paid
    <2> QED
      BY <2>3, <2>4, <2>6, <2>9 DEF OrderInv
  <1> QED
    BY <1>4, <1>5

LEMMA FailIsGood ==
    ASSUME TableInv, OrderInv, inOrder', NEW c \in JobCalls, FailJobs(c)
    PROVE  OrderInv'
  <1>1. ~Owes(jobCalls[c])
    <2>1. inOrder' = (inOrder /\ ~Owes(jobCalls[c]))
      BY DEF FailJobs
    <2> QED
      BY <2>1, Zenon
  <1>2. Sound(NoRefresh) /\ ~Owes(NoRefresh) /\ ~FullCall(NoRefresh)
    BY DEF Sound, NoRefresh, Owes, FullCall
  <1> QED
    BY <1>1, <1>2, QuietIsGood DEF FailJobs, stateVars

(* What has nothing to do with refreshes leaves all as it was. *)
LEMMA OthersAreGood ==
    ASSUME TableInv, OrderInv, UNCHANGED <<table, clock, queued, jobCalls, first>>,
           render' \in {queued, render}
    PROVE  OrderInv'
  <1>1. IsState(queued)' /\ IsState(render)'
    BY DEF OrderInv, IsState
  <1>2. \A d \in JobCalls : Sound(jobCalls[d])'
    <2>1. \A reply, since : Rows(reply)' = Rows(reply) /\ Complete(reply, since)' = Complete(reply, since)
      BY DEF Rows, Complete, LaterThan
    <2>2. ASSUME NEW x, Sound(x) PROVE Sound(x)'
      BY <2>1, <2>2 DEF Sound, IsState, Newer
    <2>3. \A d \in JobCalls : Sound(jobCalls'[d])
      BY DEF OrderInv
    <2>4. ASSUME NEW d \in JobCalls PROVE Sound(jobCalls[d])'
      BY <2>2, <2>3
    <2> QED
      BY <2>4
  <1>3. FirstList'
    BY DEF OrderInv, FirstList, FullCall, Owes
  <1>4. Settled'
    BY DEF OrderInv, Settled, Paid, Owed, Doomed, AllShown, ShowsUpTo, Owes
  <1> QED
    BY <1>1, <1>2, <1>3, <1>4 DEF OrderInv

(* The invariant is inductive. *)
LEMMA JobsGoOn == JobsInv /\ [JobsNext]_jobsVars => JobsInv'
  <1> SUFFICES ASSUME JobsInv, [JobsNext]_jobsVars PROVE JobsInv'
    OBVIOUS
  <1>1. CASE UNCHANGED jobsVars
    <2>1. UNCHANGED <<table, clock, page, queued, render, jobCalls, inOrder, first>>
      BY <1>1 DEF jobsVars, stateVars
    <2>2. TableInv' /\ (page' = "new" => Fresh')
      BY <2>1 DEF JobsInv, TableInv, Fresh
    <2>3. inOrder' /\ page' = "mounted" => OrderInv'
      BY <2>1, OthersAreGood DEF JobsInv
    <2> QED
      BY <2>2, <2>3 DEF JobsInv
  <1>2. CASE JobsNext
    <2>1. TableInv'
      BY <1>2, TableIsKept
    <2>2. page' = "new" => Fresh'
      <3>1. ASSUME NEW c \in JobCalls, Answers(c) \/ FailJobs(c), page = "new" PROVE FALSE
        <4>1. jobCalls[c] = NoRefresh /\ NoRefresh.pc = "free"
          BY <3>1 DEF JobsInv, Fresh, NoRefresh
        <4> QED
          BY <3>1, <4>1 DEF Answers, CardAsks, ServeJobs, ReceiveJobs, ReceiveDisplays, FailJobs
      <3>2. ASSUME NEW j \in PageJobs, NEW status, ChangeJob(j, status), page' = "new" PROVE Fresh'
        BY <3>2 DEF ChangeJob, stateVars, JobsInv, Fresh
      <3>3. CASE Render \/ Connect \/ Onerror \/ Fallback
        BY <3>3 DEF Render, Connect, Onerror, Fallback, StreamOnly, stateVars, JobsInv, Fresh
      <3>4. ASSUME NEW c \in JobCalls, Mount(c) \/ Message(c) \/ Poll(c) \/ Press(c), page' = "new" PROVE FALSE
        BY <3>4 DEF Mount, Message, Poll, Asks, Press
      <3>5. LeaveJobs => page' # "new"
        BY DEF LeaveJobs
      <3>6. ASSUME NEW c \in JobCalls, Answers(c) \/ FailJobs(c) PROVE page' = page
        BY <3>6 DEF Answers, CardAsks, ServeJobs, ReceiveJobs, ReceiveDisplays, FailJobs
      <3> QED
        BY <1>2, <3>1, <3>2, <3>3, <3>4, <3>5, <3>6 DEF JobsNext
    <2> SUFFICES ASSUME inOrder', page' = "mounted" PROVE OrderInv'
      BY <2>1, <2>2 DEF JobsInv
    <2>p. ASSUME NEW c \in JobCalls, Answers(c) \/ FailJobs(c) PROVE inOrder /\ page = "mounted"
      <3>1. CASE CardAsks(c) \/ ServeJobs(c)
        BY <3>1 DEF CardAsks, ServeJobs
      <3>2. ASSUME NEW b, inOrder' = (inOrder /\ b) PROVE inOrder
        BY <3>2, Zenon
      <3>3. CASE ReceiveJobs(c)
        BY <3>2, <3>3 DEF ReceiveJobs
      <3>4. CASE ReceiveDisplays(c) \/ FailJobs(c)
        BY <3>2, <3>4 DEF ReceiveDisplays, FailJobs
      <3> QED
        BY <2>p, <3>1, <3>3, <3>4 DEF Answers
    <2>3. ASSUME NEW j \in PageJobs, NEW status, ChangeJob(j, status) PROVE OrderInv'
      BY <2>3, ChangeIsLater DEF ChangeJob, JobsInv
    <2>4. ASSUME NEW c \in JobCalls, Mount(c) PROVE OrderInv'
      BY <2>4, MountIsGood DEF JobsInv
    <2>5. ASSUME NEW c \in JobCalls, Message(c) \/ Poll(c) \/ Press(c) PROVE OrderInv'
      BY <2>5, BeginsGood DEF Message, Poll, Asks, Press, JobsInv
    <2>6. ASSUME NEW c \in JobCalls, Answers(c) PROVE OrderInv'
      <3>1. TableInv /\ OrderInv
        BY <2>6, <2>p DEF JobsInv
      <3> QED
        BY <2>6, <3>1, BeginsGood, ServeIsGood, ReceiveIsGood, DisplaysAreGood DEF Answers
    <2>7. ASSUME NEW c \in JobCalls, FailJobs(c) PROVE OrderInv'
      BY <2>7, <2>p, FailIsGood DEF JobsInv
    <2>8. CASE Render
      BY <2>8, OthersAreGood DEF Render, JobsInv
    <2>9. CASE Connect \/ Onerror \/ Fallback
      BY <2>9, OthersAreGood DEF Connect, Onerror, Fallback, StreamOnly, stateVars, JobsInv
    <2>10. CASE LeaveJobs
      BY <2>10 DEF LeaveJobs
    <2> QED
      BY <1>2, <2>3, <2>4, <2>5, <2>6, <2>7, <2>8, <2>9, <2>10 DEF JobsNext
  <1> QED
    BY <1>1, <1>2

(* What the page no longer asks for is shown as it is, until a refresh       *)
(* writes over what was set since the render it began from, or fails with    *)
(* its time set and its rows not: for any number of jobs, of refreshes at    *)
(* once and of rows in a reply, with cards that keep refreshes of old        *)
(* renders (refresh, jobs.tsx:35-96; ListRecentlyUpdateJob,                  *)
(* executor/job.go:140-160).                                                 *)
THEOREM ChangesAreNotLost == JobsSpec => []JobsUpToDate
  <1>1. JobsInv => JobsUpToDate
    <2> SUFFICES ASSUME JobsInv, inOrder, page = "mounted", render = queued,
                        \A c \in JobCalls : ~Owes(jobCalls[c])
                 PROVE  ShowsUpTo(queued.jobs, queued.latest, first)
      BY DEF JobsUpToDate, ShowsUpTo, JobsInv, TableInv
    <2>1. Settled /\ \A c \in JobCalls : ~Owes(jobCalls[c])
      BY DEF JobsInv, OrderInv
    <2> QED
      BY <2>1 DEF Settled, Paid, Owed, Doomed, AllShown
  <1> QED
    BY <1>1, JobsStart, JobsGoOn, PTL DEF JobsSpec
-----------------------------------------------------------------------------
TimerInv ==
    /\ timers \in {0, 1}
    /\ timers = 1 => stream = "closed"
    /\ fallback /\ ~usePolling => timers = 0
    /\ page = "new" => timers = 0 /\ ~fallback
    /\ page = "left" => timers = 0 /\ ~fallback

LEMMA TimersGoOn == TimerInv /\ [JobsNext]_jobsVars => TimerInv'
  <1> SUFFICES ASSUME TimerInv, [JobsNext]_jobsVars PROVE TimerInv'
    OBVIOUS
  <1> USE DEF TimerInv
  <1>1. ASSUME UNCHANGED <<streamVars, page>> PROVE TimerInv'
    BY <1>1 DEF streamVars
  <1>2. ASSUME NEW c \in JobCalls, Mount(c) PROVE TimerInv'
    BY <1>2 DEF Mount
  <1>3. ASSUME NEW c \in JobCalls, Message(c) \/ Poll(c) \/ Press(c) \/ Answers(c) \/ FailJobs(c)
        PROVE  TimerInv'
    BY <1>1, <1>3 DEF Message, Poll, Asks, Press, Answers, CardAsks, ServeJobs, ReceiveJobs, ReceiveDisplays, FailJobs
  <1>4. ASSUME NEW j \in PageJobs, NEW status, ChangeJob(j, status) PROVE TimerInv'
    BY <1>1, <1>4 DEF ChangeJob
  <1>5. CASE Render \/ Connect
    BY <1>1, <1>5 DEF Render, Connect, StreamOnly
  <1>6. CASE Onerror
    BY <1>6 DEF Onerror, StreamOnly
  <1>7. CASE Fallback
    BY <1>7 DEF Fallback, PollsAfterAll, StreamOnly
  <1>8. CASE LeaveJobs
    BY <1>8 DEF LeaveJobs
  <1>9. CASE UNCHANGED jobsVars
    BY <1>1, <1>9 DEF jobsVars
  <1> QED
    BY <1>2, <1>3, <1>4, <1>5, <1>6, <1>7, <1>8, <1>9 DEF JobsNext

(* At most one interval polls, and none once the page is left, in whatever  *)
(* order the stream connects, fails and the 3 s timer fires (the effect of   *)
(* jobs.tsx:95-159).                                                        *)
THEOREM OneInterval == JobsSpec => []OneTimer
  <1>1. JobsInit => TimerInv
    BY DEF JobsInit, TimerInv
  <1>2. TimerInv => OneTimer
    BY DEF TimerInv, OneTimer
  <1> QED
    BY <1>1, <1>2, TimersGoOn, PTL DEF JobsSpec
-----------------------------------------------------------------------------
(* The waiting list *)

(* Induction, as statements about sets of natural numbers. *)
LEMMA LeastNat ==
    ASSUME NEW T \in SUBSET Nat, T # {}
    PROVE  \E x \in T : \A y \in T : x <= y
  <1> DEFINE R == OpToRel(<, Nat)
  <1>1. IsWellFoundedOn(R, Nat)
    BY NatLessThanWellFounded
  <1> HIDE DEF R
  <1>2. \E x \in T : \A y \in T : ~(<<y, x>> \in R)
    BY <1>1, WFMin
  <1>3. PICK x \in T : \A y \in T : ~(<<y, x>> \in R)
    BY <1>2
  <1>4. \A y \in T : y < x => <<y, x>> \in R
    BY DEF R, OpToRel
  <1>5. \A y \in T : ~(y < x)
    BY <1>3, <1>4
  <1> QED
    BY <1>5

LEMMA UpTo ==
    ASSUME NEW N \in Nat, NEW S, 0 \in S, \A n \in 0..N : n \in S /\ n < N => n + 1 \in S
    PROVE  N \in S
  <1> DEFINE T == (0..N) \ S
  <1>1. SUFFICES ASSUME T # {} PROVE FALSE
    OBVIOUS
  <1>0. T \in SUBSET Nat
    OBVIOUS
  <1>2. PICK x \in T : \A y \in T : x <= y
    BY <1>0, <1>1, LeastNat
  <1>3. x # 0 /\ x - 1 \in 0..N /\ x - 1 < N /\ x - 1 \notin T
    BY <1>2
  <1>4. (x - 1) + 1 \in S
    BY <1>3
  <1> QED
    BY <1>4

(* What is selected of a list are entries of it, no entry is selected twice, *)
(* and all that are in the set are.                                          *)
Selects(r, list, n, set) ==
    /\ \A a \in DOMAIN r : \E i \in 1..n : r[a] = list[i]
    /\ \A a, b \in DOMAIN r : a # b => \E i, j \in 1..n : i # j /\ r[a] = list[i] /\ r[b] = list[j]
    /\ \A i \in 1..n : list[i] \in set => \E a \in DOMAIN r : r[a] = list[i]

LEMMA SelectsNext ==
    ASSUME NEW X, NEW list \in Seq(X), NEW set, NEW n \in 0..Len(list), n < Len(list),
           NEW r \in Seq(X), Selects(r, list, n, set),
           NEW q, q = IF list[n + 1] \in set THEN Append(r, list[n + 1]) ELSE r
    PROVE  q \in Seq(X) /\ Selects(q, list, n + 1, set)
  <1>0. n + 1 \in 1..(n + 1) /\ 1..n \subseteq 1..(n + 1) /\ (\A i \in 1..(n + 1) : i \in 1..n \/ i = n + 1)
    OBVIOUS
  <1>1. CASE list[n + 1] \notin set
    BY <1>0, <1>1 DEF Selects
  <1>2. CASE list[n + 1] \in set
    <2> DEFINE x == list[n + 1]
               m == Len(r) + 1
    <2>1. x \in X /\ q = Append(r, x)
      BY <1>2
    <2> HIDE DEF x
    <2>2. q \in Seq(X) /\ DOMAIN q = 1..m /\ DOMAIN r = 1..Len(r) /\ Len(r) \in Nat /\ q[m] = x
          /\ \A a \in DOMAIN r : q[a] = r[a]
      BY <2>1
    <2>3. m \in DOMAIN q /\ \A a \in DOMAIN q : a \in DOMAIN r \/ a = m
      BY <2>2
    <2>4. DOMAIN r \subseteq DOMAIN q
      BY <2>2
    <2> HIDE DEF m
    <2>5. \A a \in DOMAIN q : \E i \in 1..(n + 1) : q[a] = list[i]
      BY <1>0, <2>2, <2>3 DEF Selects, x
    <2>6. ASSUME NEW a \in DOMAIN q, NEW b \in DOMAIN q, a # b
          PROVE  \E i, j \in 1..(n + 1) : i # j /\ q[a] = list[i] /\ q[b] = list[j]
      <3>1. CASE a \in DOMAIN r /\ b \in DOMAIN r
        BY <1>0, <2>2, <2>6, <3>1 DEF Selects
      <3>2. CASE a \in DOMAIN r /\ b = m
        <4>1. PICK i \in 1..n : r[a] = list[i]
          BY <3>2 DEF Selects
        <4>2. i # n + 1 /\ i \in 1..(n + 1)
          OBVIOUS
        <4> QED
          BY <1>0, <2>2, <3>2, <4>1, <4>2 DEF x
      <3>3. CASE a = m /\ b \in DOMAIN r
        <4>1. PICK i \in 1..n : r[b] = list[i]
          BY <3>3 DEF Selects
        <4>2. i # n + 1 /\ i \in 1..(n + 1)
          OBVIOUS
        <4> QED
          BY <1>0, <2>2, <3>3, <4>1, <4>2 DEF x
      <3> QED
        BY <2>3, <2>6, <3>1, <3>2, <3>3
    <2>7. \A i \in 1..(n + 1) : list[i] \in set => \E a \in DOMAIN q : q[a] = list[i]
      BY <1>0, <2>2, <2>3, <2>4 DEF Selects, x
    <2> QED
      BY <2>2, <2>5, <2>6, <2>7 DEF Selects
  <1> QED
    BY <1>1, <1>2

(* Filtering is a function of how far it has come. *)
Filters(g, list, set, m) ==
    g = [n \in 0..m |-> IF n = 0 THEN <<>>
                        ELSE IF list[n] \in set THEN Append(g[n - 1], list[n]) ELSE g[n - 1]]

LEMMA FilterExists ==
    ASSUME NEW X, NEW list \in Seq(X), NEW set
    PROVE  \E g : Filters(g, list, set, Len(list))
  <1> DEFINE N == Len(list)
             S == {m \in 0..N : \E g \in [0..m -> Seq(X)] : Filters(g, list, set, m)}
  <1>1. 0 \in S
    <2> DEFINE g == [n \in 0..0 |-> <<>>]
    <2>1. g \in [0..0 -> Seq(X)] /\ Filters(g, list, set, 0)
      BY DEF Filters
    <2> HIDE DEF g
    <2> QED
      BY <2>1
  <1>2. ASSUME NEW m \in 0..N, m \in S, m < N
        PROVE  m + 1 \in S
    <2>1. PICK g \in [0..m -> Seq(X)] : Filters(g, list, set, m)
      BY <1>2
    <2> DEFINE x == list[m + 1]
               last == IF x \in set THEN Append(g[m], x) ELSE g[m]
    <2>2. x \in X /\ g[m] \in Seq(X)
      BY <1>2
    <2>3. last \in Seq(X)
      BY <2>2
    <2> DEFINE h == [n \in 0..(m + 1) |-> IF n <= m THEN g[n] ELSE last]
    <2>4. h \in [0..(m + 1) -> Seq(X)]
      BY <2>3
    <2>5. ASSUME NEW n \in 0..(m + 1)
          PROVE  h[n] = IF n = 0 THEN <<>> ELSE IF list[n] \in set THEN Append(h[n - 1], list[n]) ELSE h[n - 1]
      <3>1. CASE n = 0
        BY <3>1, <2>1 DEF Filters
      <3>2. CASE n > 0 /\ n <= m
        <4>1. h[n] = g[n] /\ h[n - 1] = g[n - 1]
          BY <3>2
        <4>3. n \in 0..m /\ n # 0
          BY <3>2
        <4>2. g[n] = IF list[n] \in set THEN Append(g[n - 1], list[n]) ELSE g[n - 1]
          BY <2>1, <4>3 DEF Filters
        <4> QED
          BY <4>1, <4>2, <3>2
      <3>3. CASE n = m + 1
        BY <3>3
      <3> QED
        BY <3>1, <3>2, <3>3
    <2>6. Filters(h, list, set, m + 1)
      BY <2>5 DEF Filters
    <2> HIDE DEF h
    <2> QED
      BY <2>4, <2>6, <1>2
  <1> HIDE DEF S
  <1>3. N \in S
    BY <1>1, <1>2, UpTo
  <1> QED
    BY <1>3 DEF S

LEMMA SelectedIs ==
    ASSUME NEW X, NEW list \in Seq(X), NEW set
    PROVE  Selected(list, set) \in Seq(X) /\ Selects(Selected(list, set), list, Len(list), set)
  <1> DEFINE N == Len(list)
             run == CHOOSE run : Filters(run, list, set, N)
             S == {n \in 0..N : run[n] \in Seq(X) /\ Selects(run[n], list, n, set)}
  <1>1. Filters(run, list, set, N)
    BY FilterExists
  <1>2. Selected(list, set) = run[N]
    BY DEF Selected, Filters
  <1> HIDE DEF run
  <1>3. 0 \in S
    BY <1>1 DEF Filters, Selects
  <1>4. ASSUME NEW n \in 0..N, n \in S, n < N
        PROVE  n + 1 \in S
    <2> DEFINE r == run[n]
               q == run[n + 1]
    <2>1. r \in Seq(X) /\ Selects(r, list, n, set)
      BY <1>4
    <2>4. n + 1 \in 0..N /\ n + 1 # 0 /\ (n + 1) - 1 = n
      BY <1>4
    <2>2. q = IF list[n + 1] \in set THEN Append(r, list[n + 1]) ELSE r
      BY <1>1, <2>4 DEF Filters
    <2> HIDE DEF r, q
    <2>3. q \in Seq(X) /\ Selects(q, list, n + 1, set)
      BY <1>4, <2>1, <2>2, SelectsNext
    <2> QED
      BY <1>4, <2>3 DEF q
  <1> HIDE DEF S
  <1>5. N \in S
    BY <1>3, <1>4, UpTo
  <1> QED
    BY <1>2, <1>5 DEF S

(* What a filter of entries by their ids leaves are the ids it leaves.      *)
Entries == [id : Sources, size : {Unknown, Known}]
IdsOf(list) == [i \in DOMAIN list |-> list[i].id]
Of(ids) == [id : ids, size : {Unknown, Known}]

LEMMA IdsOfNext ==
    ASSUME NEW list \in Seq(Entries), NEW x \in Entries
    PROVE  IdsOf(list) \in Seq(Sources) /\ IdsOf(Append(list, x)) = Append(IdsOf(list), x.id)
  <1> DEFINE n == Len(list)
             more == Append(list, x)
             ids == IdsOf(list)
  <1>0. x.id \in Sources
    BY DEF Entries
  <1>1. n \in Nat /\ DOMAIN list = 1..n /\ (\A i \in 1..n : list[i] \in Entries) /\ x.id \in Sources
    BY <1>0
  <1>2. ids \in Seq(Sources) /\ Len(ids) = n /\ \A i \in 1..n : ids[i] = list[i].id
    <2>1. ids = [i \in 1..n |-> list[i].id] /\ \A i \in 1..n : list[i].id \in Sources
      BY <1>1 DEF Entries, IdsOf
    <2> QED
      BY <1>1, <2>1
  <1>3. more \in Seq(Entries) /\ DOMAIN more = 1..(n + 1) /\ more[n + 1] = x /\ \A i \in 1..n : more[i] = list[i]
    BY <1>1
  <1> HIDE DEF more, ids, n
  <1>4. /\ Append(ids, x.id) = [i \in 1..(n + 1) |-> IF i = n + 1 THEN x.id ELSE ids[i]]
    BY <1>1, <1>2
  <1>5. \A i \in 1..(n + 1) : i \in 1..n \/ i = n + 1
    BY <1>1
  <1>6. \A i \in 1..(n + 1) : more[i].id = IF i = n + 1 THEN x.id ELSE ids[i]
    BY <1>2, <1>3, <1>5
  <1>7. IdsOf(more) = [i \in 1..(n + 1) |-> more[i].id]
    BY <1>3 DEF IdsOf
  <1>8. IdsOf(more) = Append(ids, x.id)
    BY <1>4, <1>6, <1>7
  <1> QED
    BY <1>2, <1>8 DEF more, ids

LEMMA SelectedIds ==
    ASSUME NEW list \in Seq(Entries), NEW ids
    PROVE  IdsOf(Selected(list, Of(ids))) = Selected(IdsOf(list), ids)
  <1> DEFINE N == Len(list)
             names == IdsOf(list)
             set == Of(ids)
             run == CHOOSE run : Filters(run, list, set, N)
             byId == CHOOSE byId : Filters(byId, names, ids, N)
             S == {n \in 0..N : run[n] \in Seq(Entries) /\ IdsOf(run[n]) = byId[n]}
  <1>0. N \in Nat /\ DOMAIN list = 1..N /\ \A i \in 1..N : list[i] \in Entries
    OBVIOUS
  <1>1. names \in Seq(Sources) /\ Len(names) = N /\ \A i \in 1..N : names[i] = list[i].id
    <2>1. names = [i \in 1..N |-> list[i].id] /\ \A i \in 1..N : list[i].id \in Sources
      BY <1>0 DEF Entries, IdsOf
    <2> QED
      BY <1>0, <2>1
  <1> HIDE DEF names, set
  <1>2. Filters(run, list, set, N) /\ Filters(byId, names, ids, N)
    <2>1. Filters(run, list, set, N)
      BY FilterExists
    <2>2. \E g : Filters(g, names, ids, Len(names))
      BY <1>1, FilterExists
    <2> QED
      BY <1>1, <2>1, <2>2
  <1>3. Selected(list, set) = run[N] /\ Selected(names, ids) = byId[N]
    <2>1. Selected(list, set) = run[N]
      BY DEF Selected, Filters
    <2>2. Selected(names, ids) = byId[N]
      BY <1>1 DEF Selected, Filters
    <2> QED
      BY <2>1, <2>2
  <1> HIDE DEF run, byId
  <1>4. 0 \in S
    BY <1>0, <1>2 DEF Filters, IdsOf
  <1>5. ASSUME NEW n \in 0..N, n \in S, n < N
        PROVE  n + 1 \in S
    <2> DEFINE x == list[n + 1]
               r == run[n]
               q == run[n + 1]
               s == byId[n + 1]
    <2>1. r \in Seq(Entries) /\ IdsOf(r) = byId[n]
      BY <1>5
    <2>2. n + 1 \in 1..N /\ n + 1 \in 0..N /\ n + 1 # 0 /\ (n + 1) - 1 = n
      BY <1>0, <1>5
    <2>3. x \in Entries /\ names[n + 1] = x.id
      BY <1>0, <1>1, <2>2
    <2>4. q = IF x \in set THEN Append(r, x) ELSE r
      BY <1>2, <2>2 DEF Filters
    <2>5. s = IF x.id \in ids THEN Append(byId[n], x.id) ELSE byId[n]
      BY <1>2, <2>2, <2>3 DEF Filters
    <2> HIDE DEF x, r, q, s
    <2>6. x \in set <=> x.id \in ids
      BY <2>3 DEF set, Of, Entries
    <2>7. q \in Seq(Entries)
      BY <2>1, <2>3, <2>4
    <2>8. IdsOf(q) = s
      BY <2>1, <2>3, <2>4, <2>5, <2>6, IdsOfNext
    <2> QED
      BY <2>2, <2>7, <2>8 DEF q, s
  <1> HIDE DEF S
  <1>6. N \in S
    BY <1>0, <1>4, <1>5, UpTo
  <1> QED
    BY <1>3, <1>6 DEF S, names, set
-----------------------------------------------------------------------------
(* Both lists are the user's; what the loops have yet to ask for, and on     *)
(* which lists they began, does not matter.                                  *)
WaitInv ==
    /\ waiting \in Seq(Entries) /\ setting \in Seq(Entries)
    /\ wanted \in Seq(Sources)
    /\ ListIsTheUsers

LEMMA WaitStarts == WaitInit => WaitInv
  BY DEF WaitInit, WaitInv, ListIsTheUsers, IsInjective

LEMMA AddIsGood ==
    ASSUME WaitInv, NEW d \in Drops, NEW ids \in Seq(Sources), AddFiles(d, ids)
    PROVE  WaitInv'
  <1> DEFINE new == [i \in DOMAIN ids |-> Dropped(ids[i])]
             n == Len(waiting)
             k == Len(ids)
  <1>1. /\ IsInjective(ids) /\ \A i \in DOMAIN ids : ids[i] \notin Ids(waiting)
        /\ waiting' = waiting \o new /\ setting' = waiting' /\ wanted' = wanted \o ids
    BY DEF AddFiles, SetByUser
  <1>0. waiting \in Seq(Entries) /\ wanted \in Seq(Sources) /\ IsInjective(wanted) /\ IdsOf(waiting) = wanted
    BY DEF WaitInv, ListIsTheUsers, IdsOf
  <1>2. /\ waiting \in Seq(Entries) /\ wanted \in Seq(Sources) /\ IsInjective(wanted) /\ IdsOf(waiting) = wanted
        /\ n \in Nat /\ k \in Nat /\ DOMAIN waiting = 1..n /\ DOMAIN ids = 1..k
    BY <1>0
  <1>3. wanted = [i \in 1..n |-> waiting[i].id] /\ Len(wanted) = n
    BY <1>2 DEF IdsOf
  <1>4. new \in Seq(Entries) /\ Len(new) = k /\ \A i \in 1..k : new[i].id = ids[i]
    <2>1. \A i \in 1..k : Dropped(ids[i]) \in Entries /\ Dropped(ids[i]).id = ids[i]
      BY <1>2 DEF Dropped, Entries, Unknown, Known
    <2>2. new = [i \in 1..k |-> Dropped(ids[i])]
      BY <1>2
    <2> QED
      BY <1>2, <2>1, <2>2
  <1> HIDE DEF new
  <1>5. /\ waiting' \in Seq(Entries) /\ DOMAIN waiting' = 1..(n + k)
        /\ \A i \in 1..(n + k) : waiting'[i] = IF i <= n THEN waiting[i] ELSE new[i - n]
    <2>0. waiting \o new \in Seq(Entries) /\ Len(waiting \o new) = Len(waiting) + Len(new)
          /\ \A i \in 1..(Len(waiting) + Len(new)) :
                (waiting \o new)[i] = IF i <= Len(waiting) THEN waiting[i] ELSE new[i - Len(waiting)]
      <3>1. waiting \in Seq(Entries) /\ new \in Seq(Entries)
        BY <1>2, <1>4
      <3> QED
        BY <3>1, ConcatProperties
    <2>1. /\ waiting \o new \in Seq(Entries) /\ Len(waiting \o new) = n + k
          /\ \A i \in 1..(n + k) : (waiting \o new)[i] = IF i <= n THEN waiting[i] ELSE new[i - n]
      BY <1>4, <2>0
    <2> HIDE DEF n, k
    <2> QED
      BY <1>1, <1>2, <2>1
  <1>6. /\ wanted' \in Seq(Sources) /\ DOMAIN wanted' = 1..(n + k)
        /\ \A i \in 1..(n + k) : wanted'[i] = IF i <= n THEN wanted[i] ELSE ids[i - n]
    <2>1. /\ wanted \o ids \in Seq(Sources) /\ Len(wanted \o ids) = n + k
          /\ \A i \in 1..(n + k) : (wanted \o ids)[i] = IF i <= n THEN wanted[i] ELSE ids[i - n]
      BY <1>2, <1>3, ConcatProperties
    <2> HIDE DEF n, k
    <2> QED
      BY <1>1, <1>2, <2>1
  <1> HIDE DEF n, k
  <1>7. \A i \in 1..(n + k) : i \in 1..n \/ (i - n \in 1..k /\ ~(i <= n))
    BY <1>2
  <1>8. \A i \in 1..(n + k) : waiting'[i].id = wanted'[i]
    BY <1>2, <1>3, <1>4, <1>5, <1>6, <1>7
  <1>9. [i \in DOMAIN waiting' |-> waiting'[i].id] = wanted'
    <2>1. wanted' = [i \in 1..(n + k) |-> wanted'[i]]
      BY <1>6
    <2> QED
      BY <1>5, <1>8, <2>1
  <1>10. IsInjective(wanted')
    <2>1. \A i, j \in 1..n : i # j => wanted[i] # wanted[j]
      BY <1>2, <1>3 DEF IsInjective
    <2>2. \A i, j \in 1..k : i # j => ids[i] # ids[j]
      BY <1>1, <1>2 DEF IsInjective
    <2>3. \A i \in 1..n, j \in 1..k : wanted[i] # ids[j]
      BY <1>1, <1>2, <1>3 DEF Ids
    <2>4. \A i \in 1..n : i \in 1..(n + k) /\ i <= n
      BY <1>2
    <2>5. \A i \in 1..n : wanted'[i] = wanted[i]
      BY <1>6, <2>4
    <2>6. \A i \in 1..(n + k) : ~(i <= n) => wanted'[i] = ids[i - n]
      BY <1>6
    <2> SUFFICES ASSUME NEW i \in 1..(n + k), NEW j \in 1..(n + k), i # j
                 PROVE  wanted'[i] # wanted'[j]
      BY <1>6 DEF IsInjective
    <2>7. CASE i \in 1..n /\ j \in 1..n
      BY <2>1, <2>5, <2>7
    <2>8. CASE i - n \in 1..k /\ ~(i <= n) /\ j - n \in 1..k /\ ~(j <= n)
      <3>1. i - n # j - n
        BY <1>2
      <3> QED
        BY <2>2, <2>6, <2>8, <3>1
    <2>9. CASE i \in 1..n /\ j - n \in 1..k /\ ~(j <= n)
      BY <2>3, <2>5, <2>6, <2>9
    <2>10. CASE j \in 1..n /\ i - n \in 1..k /\ ~(i <= n)
      BY <2>3, <2>5, <2>6, <2>10
    <2> QED
      BY <1>7, <2>7, <2>8, <2>9, <2>10
  <1> QED
    BY <1>1, <1>5, <1>6, <1>9, <1>10 DEF WaitInv, ListIsTheUsers

LEMMA RemoveIsGood ==
    ASSUME WaitInv, NEW ids, RemoveFiles(ids)
    PROVE  WaitInv'
  <1> DEFINE keep == Sources \ ids
             left == Of(keep)
  <1>1. waiting' = Selected(waiting, left) /\ setting' = waiting' /\ wanted' = Selected(wanted, keep)
    BY DEF RemoveFiles, SetByUser, Of
  <1>2. waiting \in Seq(Entries) /\ wanted \in Seq(Sources) /\ IsInjective(wanted) /\ IdsOf(waiting) = wanted
    BY DEF WaitInv, ListIsTheUsers, IdsOf
  <1>3. IdsOf(waiting') = wanted'
    BY <1>1, <1>2, SelectedIds
  <1> HIDE DEF keep, left
  <1>4. waiting' \in Seq(Entries)
    BY <1>1, <1>2, SelectedIs
  <1>5. wanted' \in Seq(Sources) /\ Selects(wanted', wanted, Len(wanted), keep)
    BY <1>1, <1>2, SelectedIs
  <1>6. IsInjective(wanted')
    <2>1. \A i, j \in 1..Len(wanted) : i # j => wanted[i] # wanted[j]
      BY <1>2 DEF IsInjective
    <2>2. \A a, b \in DOMAIN wanted' : a # b => wanted'[a] # wanted'[b]
      BY <1>5, <2>1 DEF Selects
    <2> QED
      BY <2>2 DEF IsInjective
  <1> QED
    BY <1>1, <1>3, <1>4, <1>5, <1>6 DEF WaitInv, ListIsTheUsers, IdsOf

(* A size changes no id: the list it is set on is the user's, whatever the   *)
(* directory it is the size of.                                              *)
LEMMA ArrivesIsGood ==
    ASSUME WaitInv, NEW d \in Drops, SizeArrives(d)
    PROVE  WaitInv'
  <1> DEFINE id == Head(loops[d].left)
  <1>1. setting' = Sized(waiting, id) /\ UNCHANGED <<waiting, wanted>>
    BY DEF SizeArrives
  <1> HIDE DEF id
  <1>2. waiting \in Seq(Entries) /\ wanted \in Seq(Sources) /\ IsInjective(wanted) /\ IdsOf(waiting) = wanted
    BY DEF WaitInv, ListIsTheUsers, IdsOf
  <1>3. \A i \in 1..Len(waiting) : waiting[i] \in Entries /\ DOMAIN waiting = 1..Len(waiting)
    BY <1>2
  <1>4. DOMAIN setting' = DOMAIN waiting /\ setting' = [i \in 1..Len(waiting) |-> setting'[i]]
    BY <1>1, <1>2 DEF Sized
  <1>5. \A i \in 1..Len(waiting) : setting'[i] \in Entries /\ setting'[i].id = waiting[i].id
    BY <1>1, <1>3 DEF Sized, Entries, Known, Unknown
  <1>6. setting' \in Seq(Entries)
    BY <1>2, <1>4, <1>5
  <1>7. [i \in DOMAIN setting' |-> setting'[i].id] = wanted
    BY <1>2, <1>4, <1>5 DEF IdsOf
  <1> QED
    BY <1>1, <1>6, <1>7 DEF WaitInv, ListIsTheUsers

LEMMA WaitGoesOn == WaitInv /\ [WaitNext]_waitVars => WaitInv'
  <1> SUFFICES ASSUME WaitInv, [WaitNext]_waitVars PROVE WaitInv'
    OBVIOUS
  <1>1. ASSUME NEW d \in Drops, NEW ids \in BoundedSeq(Sources, 2), AddFiles(d, ids)
        PROVE  WaitInv'
    <2>2. PICK m \in 0..2 : ids \in [1..m -> Sources]
      BY DEF BoundedSeq, SeqOf
    <2>1. ids \in Seq(Sources)
      BY <2>2, SeqDef
    <2> QED
      BY <1>1, <2>1, AddIsGood
  <1>2. CASE UNCHANGED <<waiting, setting, wanted>>
    BY <1>2 DEF WaitInv, ListIsTheUsers
  <1>3. CASE ShowSizes
    BY <1>3 DEF ShowSizes, WaitInv, ListIsTheUsers
  <1>4. ASSUME NEW d \in Drops, SizeFails(d) PROVE WaitInv'
    BY <1>2, <1>4 DEF SizeFails
  <1>5. CASE CreateJob
    BY <1>2, <1>5 DEF CreateJob
  <1>6. CASE WaitNext
    BY <1>1, <1>3, <1>4, <1>5, <1>6, RemoveIsGood, ArrivesIsGood DEF WaitNext
  <1>7. CASE UNCHANGED waitVars
    BY <1>2, <1>7 DEF waitVars
  <1> QED
    BY <1>6, <1>7

(* Sizes that come late, set on the list of an older render and rendered     *)
(* later still, neither bring an entry back nor take one away: what is       *)
(* listed, and sent with a job, is what the user dropped and did not remove, *)
(* in order and each source once, for any number of drops that ask side by   *)
(* side (onFileAction and onFileSizeUpdated in pages/backup.tsx).            *)
THEOREM AnswersKeepTheList == WaitSpec => []ListIsTheUsers
  <1>1. WaitInv => ListIsTheUsers
    BY DEF WaitInv
  <1> QED
    BY <1>1, WaitStarts, WaitGoesOn, PTL DEF WaitSpec
=============================================================================

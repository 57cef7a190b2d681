----------------------------- MODULE SoftwareProofs -----------------------------
(* What is proved of the parts of the crate that work in memory of their own   *)
(* and reach no device: the synchronization objects, for any number of threads *)
(* and objects; then drawing, for any framebuffer, operation, triangle and     *)
(* line.                                                                       *)
EXTENDS GpuSync, Rasterizer, FiniteSetTheorems, WellFoundedInduction, TLAPS

--------------------------------------------------------------------------------
(* The synchronization objects: what they promise to any number of threads     *)
(* that signal, wait for and reset any number of objects at the same time.     *)

(* Where a thread stands tells which object it works on.                    *)
Fits(place) ==
  /\ place.pc \in {"flag", "value", "sweepValue"} => place.object \in Fences
  /\ place.pc = "flag" => place.target \in Payload
  /\ place.pc \in {"check", "clock"} => place.object \in Objects

PlacesOK == \A t \in Threads : Fits(thread[t])

(* Between the two words of a signal and of a reset.                        *)
HalfDone ==
  \A f \in Fences :
    /\ f \in Signaled \intersect Resetting => f \in overlapped
    /\ f \in Resetting /\ flag[f] => f \in overlapped
    /\ f \in Signaled => value[f] \in Payload \/ f \in overlapped

(* A thread compares the clock only after a look that found nothing.        *)
LookedFirst == \A t \in Threads : Doing(t, "clock") => t \in clear

(* What reset_all has visited is clear or was signaled meanwhile; of the     *)
(* fence it is visiting that holds of the flag already.                     *)
SweptIsClear ==
  \A t \in Threads : Sweeping(t) =>
    /\ \A o \in created \ thread[t].todo : IsClear(o) \/ o \in since[t]
    /\ Doing(t, "sweepValue") /\ flag[thread[t].object] => thread[t].object \in since[t]

(* TypeOK without the history variables.                                    *)
WordsOK ==
  /\ created \subseteq Objects
  /\ flag \in [Fences -> BOOLEAN] /\ value \in [Fences -> Payload \union {0}]
  /\ counter \in [Semaphores -> 0..MaxCount] /\ fired \in [Events -> BOOLEAN]
  /\ thread \in [Threads -> Places]
  /\ PlacesOK

SyncInv ==
  /\ TypeOK /\ PlacesOK
  /\ QuietFenceIsZero /\ FlagPublishesValue /\ HalfDone
  /\ LookedFirst /\ SweptIsClear

-----------------------------------------------------------------------------
LEMMA SignaledIs ==
  \A f : f \in Signaled <=>
            \E t \in Threads : thread[t].pc = "flag" /\ thread[t].object = f
BY DEF Signaled, Doing

LEMMA ResettingIs ==
  \A f : f \in Resetting <=>
            \E t \in Threads : /\ thread[t].pc \in {"value", "sweepValue"}
                              /\ thread[t].object = f
BY DEF Resetting

LEMMA InitEstablishes == Init => SyncInv
BY SignaledIs, ResettingIs, SyncAssumption
   DEF Init, SyncInv, TypeOK, NoObject, Places, Labels, PlacesOK, Fits, HalfDone, LookedFirst,
       SweptIsClear, QuietFenceIsZero, FlagPublishesValue, Waiting, Sweeping, Doing

(* A thread moves: one entry of the table changes.                          *)
LEMMA ThreadMoves ==
  ASSUME thread \in [Threads -> Places], PlacesOK,
         NEW t \in Threads, NEW place \in Places, Fits(place),
         thread' = [thread EXCEPT ![t] = place]
  PROVE  thread' \in [Threads -> Places] /\ PlacesOK'
BY DEF PlacesOK

LEMMA PlaceMoves ==
  ASSUME NEW p \in Places, NEW label \in Labels, NEW o \in Objects \union {"none"},
         NEW n \in Nat, NEW due \in SUBSET Objects
  PROVE  /\ NoObject \in Places
         /\ [p EXCEPT !.pc = label] \in Places
         /\ [p EXCEPT !.pc = label, !.object = o, !.target = n] \in Places
         /\ [p EXCEPT !.pc = label, !.object = o] \in Places
         /\ [p EXCEPT !.pc = label, !.todo = due] \in Places
         /\ [p EXCEPT !.expired = TRUE] \in Places
BY DEF Places, NoObject, Labels

(* The words and the table after a step of an operation.                    *)
LEMMA CallMoves ==
  ASSUME WordsOK, NEW t \in Threads, Call(t)
  PROVE  WordsOK'
<1> DEFINE p == thread[t]
<1>0. p \in Places /\ Fits(p) /\ 0 \in Nat /\ Fences \subseteq Objects
  BY DEF WordsOK, PlacesOK, Objects
<1>1. ASSUME NEW f \in Fences, ResetFence(t, f)
      PROVE  WordsOK'
  <2> DEFINE q == [p EXCEPT !.pc = "value", !.object = f, !.target = 0]
  <2>1. thread' = [thread EXCEPT ![t] = q]
    BY <1>1 DEF ResetFence, Start
  <2>2. q \in Places /\ Fits(q)
    BY <1>0, <1>1, SyncAssumption DEF Places, Labels, Fits
  <2>3. thread' \in [Threads -> Places] /\ PlacesOK'
    BY <2>1, <2>2, ThreadMoves DEF WordsOK
  <2> QED BY <2>3, <1>0, <1>1 DEF ResetFence, WordsOK
<1>2. ASSUME NEW f \in Fences, NEW v \in Payload, SignalFence(t, f, v)
      PROVE  WordsOK'
  <2> DEFINE q == [p EXCEPT !.pc = "flag", !.object = f, !.target = v]
  <2>1. thread' = [thread EXCEPT ![t] = q]
    BY <1>2 DEF SignalFence, Start
  <2>2. q \in Places /\ Fits(q)
    BY <1>0, <1>2, SyncAssumption DEF Places, Labels, Fits
  <2>3. thread' \in [Threads -> Places] /\ PlacesOK'
    BY <2>1, <2>2, ThreadMoves DEF WordsOK
  <2> QED BY <2>3, <1>0, <1>2 DEF SignalFence, WordsOK
<1>3. ASSUME NEW o \in Objects, NEW n \in Nat, Wait(t, o, n)
      PROVE  WordsOK'
  <2> DEFINE q == [p EXCEPT !.pc = "check", !.object = o, !.target = n]
  <2>1. thread' = [thread EXCEPT ![t] = q]
    BY <1>3 DEF Wait, Start
  <2>2. q \in Places /\ Fits(q)
    BY <1>0, <1>3, SyncAssumption DEF Places, Labels, InManager, Fits
  <2>3. thread' \in [Threads -> Places] /\ PlacesOK'
    BY <2>1, <2>2, ThreadMoves DEF WordsOK
  <2> QED BY <2>3, <1>0, <1>3 DEF Wait, WordsOK, words
<1>4. ASSUME ResetAll(t)
      PROVE  WordsOK'
  <2> DEFINE q == [p EXCEPT !.pc = "sweep", !.todo = created]
  <2>1. thread' = [thread EXCEPT ![t] = q]
    BY <1>4 DEF ResetAll, BeginSweep
  <2>2. q \in Places /\ Fits(q)
    BY <1>0, <1>4, SyncAssumption DEF Places, Labels, InManager, Fits, WordsOK
  <2>3. thread' \in [Threads -> Places] /\ PlacesOK'
    BY <2>1, <2>2, ThreadMoves DEF WordsOK
  <2> QED BY <2>3, <1>0, <1>4 DEF ResetAll, BeginSweep, WordsOK, words
<1> QED BY <1>1, <1>2, <1>3, <1>4, SyncAssumption DEF Call, Objects

LEMMA ContinueMoves ==
  ASSUME WordsOK, NEW t \in Threads, Continue(t) \/ Expire(t)
  PROVE  WordsOK'
<1> DEFINE p == thread[t]
<1>0. p \in Places /\ Fits(p) /\ 0 \in Nat /\ Fences \subseteq Objects
  BY DEF WordsOK, PlacesOK, Objects
<1>1. ASSUME RaiseFlag(t) \/ ClearValue(t)
      PROVE  WordsOK'
  <2> DEFINE q == NoObject
  <2>1. thread' = [thread EXCEPT ![t] = q]
    BY <1>1 DEF RaiseFlag, ClearValue, Finish
  <2>2. q \in Places /\ Fits(q)
    BY <1>0, <1>1, SyncAssumption DEF Places, Labels, InManager, Fits, NoObject
  <2>3. thread' \in [Threads -> Places] /\ PlacesOK'
    BY <2>1, <2>2, ThreadMoves DEF WordsOK
  <2> QED BY <2>3, <1>0, <1>1 DEF RaiseFlag, ClearValue, WordsOK, Doing, Fits
<1>2. ASSUME Check(t) \/ CompareClock(t) \/ FinishSweep(t), thread' = [thread EXCEPT ![t] = NoObject]
      PROVE  WordsOK'
  <2> DEFINE q == NoObject
  <2>1. thread' = [thread EXCEPT ![t] = q]
    BY <1>2 DEF WordsOK
  <2>2. q \in Places /\ Fits(q)
    BY <1>0, <1>2, SyncAssumption DEF Places, Labels, InManager, Fits, NoObject
  <2>3. thread' \in [Threads -> Places] /\ PlacesOK'
    BY <2>1, <2>2, ThreadMoves DEF WordsOK
  <2> QED BY <2>3, <1>0, <1>2 DEF Check, CompareClock, FinishSweep, WordsOK, words
<1>3. ASSUME Check(t) \/ CompareClock(t), NEW label \in {"check", "clock"}, thread' = [thread EXCEPT ![t].pc = label]
      PROVE  WordsOK'
  <2> DEFINE q == [p EXCEPT !.pc = label]
  <2>1. thread' = [thread EXCEPT ![t] = q]
    BY <1>3 DEF WordsOK
  <2>2. q \in Places /\ Fits(q)
    BY <1>0, <1>3, SyncAssumption DEF Places, Labels, InManager, Fits, Check, CompareClock, Doing
  <2>3. thread' \in [Threads -> Places] /\ PlacesOK'
    BY <2>1, <2>2, ThreadMoves DEF WordsOK
  <2> QED BY <2>3, <1>0, <1>3 DEF Check, CompareClock, WordsOK, words
<1>4. ASSUME NEW f \in Fences, SweepFence(t, f)
      PROVE  WordsOK'
  <2> DEFINE q == [p EXCEPT !.pc = "sweepValue", !.object = f]
  <2>1. thread' = [thread EXCEPT ![t] = q]
    BY <1>4 DEF SweepFence
  <2>2. q \in Places /\ Fits(q)
    BY <1>0, <1>4, SyncAssumption DEF Places, Labels, InManager, Fits
  <2>3. thread' \in [Threads -> Places] /\ PlacesOK'
    BY <2>1, <2>2, ThreadMoves DEF WordsOK
  <2> QED BY <2>3, <1>0, <1>4 DEF SweepFence, WordsOK
<1>5. ASSUME NEW o \in Objects, SweepWord(t, o)
      PROVE  WordsOK'
  <2> DEFINE q == [p EXCEPT !.pc = "sweep", !.todo = @ \ {o}]
  <2>1. thread' = [thread EXCEPT ![t] = q]
    BY <1>5 DEF SweepWord, Swept
  <2>2. q \in Places /\ Fits(q)
    BY <1>0, <1>5, SyncAssumption DEF Places, Labels, InManager, Fits
  <2>3. thread' \in [Threads -> Places] /\ PlacesOK'
    BY <2>1, <2>2, ThreadMoves DEF WordsOK
  <2>4. counter' \in [Semaphores -> 0..MaxCount] /\ fired' \in [Events -> BOOLEAN]
    <3>1. CASE counter' = [counter EXCEPT ![o] = 0] /\ UNCHANGED fired
      <4>1. 0 \in 0..MaxCount
        BY SyncAssumption
      <4> QED BY <3>1, <4>1 DEF WordsOK
    <3>2. CASE fired' = [fired EXCEPT ![o] = FALSE] /\ UNCHANGED counter
      BY <3>2 DEF WordsOK
    <3> QED BY <1>5, <3>1, <3>2 DEF SweepWord
  <2> QED BY <2>3, <2>4, <1>5 DEF SweepWord, WordsOK
<1>6. ASSUME SweepValue(t)
      PROVE  WordsOK'
  <2> DEFINE q == [p EXCEPT !.pc = "sweep", !.todo = @ \ {p.object}]
  <2>1. thread' = [thread EXCEPT ![t] = q]
    BY <1>6 DEF SweepValue, Swept
  <2>2. q \in Places /\ Fits(q)
    BY <1>0, <1>6, SyncAssumption DEF Places, Labels, InManager, Fits
  <2>3. thread' \in [Threads -> Places] /\ PlacesOK'
    BY <2>1, <2>2, ThreadMoves DEF WordsOK
  <2> QED BY <2>3, <1>0, <1>6 DEF SweepValue, WordsOK, Doing, Fits
<1>7. ASSUME Expire(t)
      PROVE  WordsOK'
  <2> DEFINE q == [p EXCEPT !.expired = TRUE]
  <2>1. thread' = [thread EXCEPT ![t] = q]
    BY <1>7 DEF Expire
  <2>2. q \in Places /\ Fits(q)
    BY <1>0, <1>7, SyncAssumption DEF Places, Fits
  <2>3. thread' \in [Threads -> Places] /\ PlacesOK'
    BY <2>1, <2>2, ThreadMoves DEF WordsOK
  <2> QED BY <2>3, <1>0, <1>7 DEF Expire, WordsOK, words
<1>8. CASE Check(t) \/ CompareClock(t) \/ FinishSweep(t)
  BY <1>8, <1>2, <1>3 DEF Check, CompareClock, FinishSweep, Finish, Goto
<1> QED BY <1>1, <1>4, <1>5, <1>6, <1>7, <1>8 DEF Continue, SweepFence

LEMMA StepKeepsWords ==
  ASSUME WordsOK, Step
  PROVE  WordsOK'
<1>1. CASE \E o \in Objects : CreateObject(o)
  BY <1>1 DEF CreateObject, words, WordsOK, PlacesOK
<1>2. CASE \E s \in Semaphores : SignalSemaphore(s) \/ ResetSemaphore(s)
  BY <1>2, SyncAssumption DEF SignalSemaphore, ResetSemaphore, WordsOK, PlacesOK
<1>3. CASE \E e \in Events, b \in BOOLEAN : StoreEvent(e, b)
  BY <1>3 DEF StoreEvent, WordsOK, PlacesOK
<1> QED BY <1>1, <1>2, <1>3, CallMoves, ContinueMoves DEF Step

-----------------------------------------------------------------------------
(* Fences.                                                                 *)
FencesOK == QuietFenceIsZero /\ FlagPublishesValue /\ HalfDone

RememberOverlaps == overlapped' = overlapped \union (Signaled' \intersect Resetting')

(* Nobody enters or leaves a fence: whoever works on one stays there.       *)
LEMMA NobodyMoves ==
  ASSUME FencesOK, RememberOverlaps, flag' = flag, value' = value,
         Signaled' = Signaled, Resetting' = Resetting
  PROVE  FencesOK'
BY DEF FencesOK, RememberOverlaps, QuietFenceIsZero, FlagPublishesValue, HalfDone

LEMMA CallKeepsFences ==
  ASSUME WordsOK, FencesOK, NEW t \in Threads, Call(t), RememberOverlaps
  PROVE  FencesOK'
<1>0. thread \in [Threads -> Places] /\ thread[t] \in Places
  BY DEF WordsOK
<1>1. ASSUME NEW f \in Fences, ResetFence(t, f)
      PROVE  FencesOK'
  <2>1. /\ Resetting' = Resetting \union {f} /\ Signaled' = Signaled
        /\ flag' = [flag EXCEPT ![f] = FALSE] /\ value' = value
    BY <1>0, <1>1 DEF ResetFence, Start, Doing, Signaled, Resetting, Places
  <2> QED BY <2>1 DEF FencesOK, RememberOverlaps, QuietFenceIsZero, FlagPublishesValue,
                      HalfDone, WordsOK
<1>2. ASSUME NEW f \in Fences, NEW v \in Payload, SignalFence(t, f, v)
      PROVE  FencesOK'
  <2>1. /\ Signaled' = Signaled \union {f} /\ Resetting' = Resetting
        /\ value' = [value EXCEPT ![f] = v] /\ flag' = flag
    BY <1>0, <1>2 DEF SignalFence, Start, Doing, Signaled, Resetting, Places
  <2> QED BY <2>1 DEF FencesOK, RememberOverlaps, QuietFenceIsZero, FlagPublishesValue,
                      HalfDone, WordsOK
<1>3. ASSUME NEW o \in Objects, NEW n \in Nat, Wait(t, o, n)
      PROVE  FencesOK'
  <2>1. Signaled' = Signaled /\ Resetting' = Resetting /\ flag' = flag /\ value' = value
    BY <1>0, <1>3 DEF Wait, Start, Doing, Signaled, Resetting, Places, words
  <2> QED BY <2>1, NobodyMoves
<1>4. CASE ResetAll(t)
  <2>1. Signaled' = Signaled /\ Resetting' = Resetting /\ flag' = flag /\ value' = value
    BY <1>0, <1>4 DEF ResetAll, BeginSweep, Doing, Signaled, Resetting, Places, words
  <2> QED BY <2>1, NobodyMoves
<1> QED BY <1>1, <1>2, <1>3, <1>4, SyncAssumption DEF Call, Objects

LEMMA ContinueKeepsFences ==
  ASSUME WordsOK, FencesOK, NEW t \in Threads, Continue(t) \/ Expire(t), RememberOverlaps
  PROVE  FencesOK'
<1> DEFINE g == thread[t].object
<1>0. /\ thread \in [Threads -> Places] /\ thread[t] \in Places /\ Fits(thread[t])
      /\ flag \in [Fences -> BOOLEAN] /\ value \in [Fences -> Payload \union {0}]
  BY DEF WordsOK, PlacesOK
<1>1. CASE RaiseFlag(t)
  <2>1. g \in Fences /\ g \in Signaled
    BY <1>0, <1>1 DEF RaiseFlag, Doing, Fits, Signaled
  <2>2. /\ Signaled \ {g} \subseteq Signaled' /\ Signaled' \subseteq Signaled
        /\ Resetting' = Resetting
        /\ flag' = [flag EXCEPT ![g] = TRUE] /\ value' = value
    BY <1>0, <1>1 DEF RaiseFlag, Finish, NoObject, Doing, Signaled, Resetting, Places
  <2> HIDE DEF g
  <2> QED BY <1>0, <2>1, <2>2 DEF FencesOK, RememberOverlaps, QuietFenceIsZero,
                                  FlagPublishesValue, HalfDone
<1>2. CASE ClearValue(t) \/ SweepValue(t)
  <2>1. g \in Fences /\ g \in Resetting
    BY <1>0, <1>2 DEF ClearValue, SweepValue, Doing, Fits, Resetting
  <2>2. /\ Resetting \ {g} \subseteq Resetting' /\ Resetting' \subseteq Resetting
        /\ Signaled' = Signaled
        /\ value' = [value EXCEPT ![g] = 0] /\ flag' = flag
    BY <1>0, <1>2 DEF ClearValue, SweepValue, Swept, Finish, NoObject, Doing, Signaled,
                      Resetting, Places
  <2> HIDE DEF g
  <2> QED BY <1>0, <2>1, <2>2 DEF FencesOK, RememberOverlaps, QuietFenceIsZero,
                                  FlagPublishesValue, HalfDone
<1>3. ASSUME NEW f \in Fences, SweepFence(t, f)
      PROVE  FencesOK'
  <2>1. /\ Resetting' = Resetting \union {f} /\ Signaled' = Signaled
        /\ flag' = [flag EXCEPT ![f] = FALSE] /\ value' = value
    BY <1>0, <1>3 DEF SweepFence, Doing, Signaled, Resetting, Places
  <2> QED BY <1>0, <2>1 DEF FencesOK, RememberOverlaps, QuietFenceIsZero,
                            FlagPublishesValue, HalfDone
<1>4. CASE Check(t) \/ CompareClock(t) \/ FinishSweep(t) \/ Expire(t)
  <2>1. Signaled' = Signaled /\ Resetting' = Resetting /\ flag' = flag /\ value' = value
    BY <1>0, <1>4 DEF Check, CompareClock, FinishSweep, Expire, Finish, Goto, NoObject,
                      Doing, Signaled, Resetting, Places, words
  <2> QED BY <2>1, NobodyMoves
<1>5. ASSUME NEW o \in Objects, SweepWord(t, o)
      PROVE  FencesOK'
  <2>1. Doing(t, "sweep") /\ Swept(t, o) /\ flag' = flag /\ value' = value
    BY <1>5 DEF SweepWord
  <2>2. Signaled' = Signaled /\ Resetting' = Resetting
    BY <1>0, <2>1 DEF Swept, Doing, Signaled, Resetting, Places
  <2> QED BY <2>1, <2>2, NobodyMoves
<1> QED BY <1>1, <1>2, <1>3, <1>4, <1>5 DEF Continue, SweepFence

LEMMA StepKeepsFences ==
  ASSUME WordsOK, FencesOK, Step, RememberOverlaps
  PROVE  FencesOK'
<1>1. CASE \/ \E o \in Objects : CreateObject(o)
           \/ \E s \in Semaphores : SignalSemaphore(s) \/ ResetSemaphore(s)
           \/ \E e \in Events, b \in BOOLEAN : StoreEvent(e, b)
  <2>1. Signaled' = Signaled /\ Resetting' = Resetting /\ flag' = flag /\ value' = value
    BY <1>1 DEF CreateObject, SignalSemaphore, ResetSemaphore, StoreEvent, words,
                Doing, Signaled, Resetting
  <2> QED BY <2>1, NobodyMoves
<1> QED BY <1>1, CallKeepsFences, ContinueKeepsFences DEF Step

(* A step of an operation moves the thread it belongs to and no other.      *)
LEMMA OneThreadMoves ==
  ASSUME thread \in [Threads -> Places], NEW u \in Threads, Step, thread'[u] # thread[u]
  PROVE  Call(u) \/ Continue(u) \/ Expire(u)
<1>1. PICK t \in Threads : Call(t) \/ Continue(t) \/ Expire(t)
  BY DEF Step, CreateObject, SignalSemaphore, ResetSemaphore, StoreEvent, words
<1>2. t = u
  BY <1>1 DEF Call, Continue, Expire, ResetFence, SignalFence, Wait, ResetAll, BeginSweep,
       Start, RaiseFlag, ClearValue, Check, CompareClock, SweepFence, SweepWord,
       SweepValue, Swept, FinishSweep, Finish, Goto
<1> QED BY <1>1, <1>2

-----------------------------------------------------------------------------
(* Waits.                                                                  *)
RememberWaits ==
  clear' = {t \in Threads : Waiting(t)' /\
              (t \in clear \/ ~Ready(thread[t].object, thread[t].target)')}

LEMMA StepKeepsLook ==
  ASSUME WordsOK, LookedFirst, Step, RememberWaits
  PROVE  LookedFirst'
<1> SUFFICES ASSUME NEW u \in Threads, (thread[u].pc = "clock")'
             PROVE  u \in clear'
  BY DEF LookedFirst, Doing
<1>0. thread \in [Threads -> Places] /\ Waiting(u)'
  BY DEF WordsOK, Waiting
<1>1. CASE thread[u].pc = "clock"
  BY <1>0, <1>1 DEF LookedFirst, Doing, RememberWaits
<1>2. CASE thread[u].pc # "clock"
  <2>1. Call(u) \/ Continue(u) \/ Expire(u)
    BY <1>0, <1>2, OneThreadMoves
  <2>3. ~Call(u)
    BY <1>0, <1>2 DEF Call, ResetFence, SignalFence, Wait, ResetAll, BeginSweep, Start, Places
  <2>4. ~Expire(u)
    BY <1>0, <1>2 DEF Expire, Places
  <2>5. ~(RaiseFlag(u) \/ ClearValue(u) \/ SweepValue(u) \/ FinishSweep(u))
    BY <1>0 DEF RaiseFlag, ClearValue, SweepValue, FinishSweep, Swept, Finish, NoObject, Places
  <2>6. ~CompareClock(u) /\ ~\E o \in Objects : SweepFence(u, o)
    BY <1>0, <1>2 DEF CompareClock, Doing, SweepFence, Places
  <2>7. \A o \in Objects : ~SweepWord(u, o)
    <3> SUFFICES ASSUME NEW o \in Objects, SweepWord(u, o) PROVE FALSE
      OBVIOUS
    <3>1. Swept(u, o)
      BY DEF SweepWord
    <3> QED BY <1>0, <3>1 DEF Swept, Places
  <2>8. Check(u)
    BY <2>1, <2>3, <2>4, <2>5, <2>6, <2>7 DEF Continue
  <2> DEFINE o == thread[u].object
             n == thread[u].target
  <2>9. thread' = [thread EXCEPT ![u].pc = "clock"] /\ ~Ready(o, n) /\ words' = words
    BY <1>0, <2>8 DEF Check, Goto, Finish, NoObject, Places
  <2>10. thread'[u].object = o /\ thread'[u].target = n
    BY <1>0, <2>9 DEF Places
  <2>11. ~Ready(thread[u].object, thread[u].target)'
    BY <2>9, <2>10 DEF Ready, words
  <2> QED BY <1>0, <2>11 DEF RememberWaits
<1> QED BY <1>1, <1>2

-----------------------------------------------------------------------------
(* reset_all.                                                              *)
Touched == Signaled \union Signaled'
             \union {s \in Semaphores : counter'[s] > counter[s]}
             \union {e \in Events : fired'[e] /\ ~fired[e]}

RememberSignals ==
  since' = [t \in Threads |-> IF Sweeping(t)' THEN since[t] \union Touched ELSE {}]

(* A flag goes up, and a value becomes one that was signaled, only at the    *)
(* hands of a thread that is signaling the fence.                          *)
LEMMA FencesAreSignaled ==
  ASSUME WordsOK, Step, NEW f \in Fences
  PROVE  /\ flag'[f] => flag[f] \/ f \in Signaled
         /\ value'[f] = value[f] \/ value'[f] = 0 \/ f \in Signaled'
<1>0. /\ thread \in [Threads -> Places] /\ flag \in [Fences -> BOOLEAN]
      /\ value \in [Fences -> Payload \union {0}]
  BY DEF WordsOK
<1>1. CASE \/ \E o \in Objects : CreateObject(o)
           \/ \E s \in Semaphores : SignalSemaphore(s) \/ ResetSemaphore(s)
           \/ \E e \in Events, b \in BOOLEAN : StoreEvent(e, b)
  BY <1>1 DEF CreateObject, SignalSemaphore, ResetSemaphore, StoreEvent, words
<1>2. ASSUME NEW t \in Threads, NEW g \in Fences, NEW v \in Payload, SignalFence(t, g, v)
      PROVE  /\ flag'[f] => flag[f]
             /\ value'[f] = value[f] \/ f \in Signaled'
  <2>1. value' = [value EXCEPT ![g] = v] /\ flag' = flag
    BY <1>2 DEF SignalFence
  <2>2. g \in Signaled'
    BY <1>0, <1>2 DEF SignalFence, Start, Doing, Signaled, Places
  <2> QED BY <1>0, <2>1, <2>2
<1>3. ASSUME NEW t \in Threads, RaiseFlag(t)
      PROVE  value' = value /\ (flag'[f] => flag[f] \/ f \in Signaled)
  BY <1>0, <1>3 DEF RaiseFlag, Doing, Signaled
<1>4. ASSUME NEW t \in Threads, NEW o \in Objects,
             \/ ResetFence(t, o) \/ ClearValue(t) \/ SweepFence(t, o) \/ SweepValue(t)
      PROVE  (flag'[f] => flag[f]) /\ (value'[f] = value[f] \/ value'[f] = 0)
  BY <1>0, <1>4 DEF ResetFence, ClearValue, SweepFence, SweepValue
<1>5. ASSUME NEW t \in Threads, NEW o \in Objects, NEW n \in Nat,
             \/ Wait(t, o, n) \/ ResetAll(t) \/ Check(t) \/ CompareClock(t)
             \/ FinishSweep(t) \/ Expire(t)
      PROVE  flag' = flag /\ value' = value
  BY <1>5 DEF Wait, ResetAll, BeginSweep, Check, CompareClock, FinishSweep, Expire, words
<1>6. ASSUME NEW t \in Threads, NEW o \in Objects, SweepWord(t, o)
      PROVE  flag' = flag /\ value' = value
  BY <1>6 DEF SweepWord
<1> QED BY <1>1, <1>2, <1>3, <1>4, <1>5, <1>6, SyncAssumption DEF Step, Call, Continue, Objects

(* What is clear stays clear, or was signaled in this step.                 *)
LEMMA ClearStaysClear ==
  ASSUME WordsOK, WordsOK', Step, NEW o \in Objects, IsClear(o)
  PROVE  IsClear(o)' \/ o \in Touched
<1>1. CASE o \in Fences
  <2>1. ~flag[o] /\ value[o] = 0
    BY <1>1 DEF IsClear
  <2>2. (~flag'[o] /\ value'[o] = 0) \/ o \in Touched
    BY <1>1, <2>1, FencesAreSignaled DEF Touched
  <2> QED BY <1>1, <2>2, SyncAssumption DEF IsClear
<1>2. CASE o \in Semaphores
  <2>1. counter[o] = 0 /\ counter'[o] \in Nat
    BY <1>2, SyncAssumption DEF IsClear, WordsOK
  <2>2. counter'[o] = 0 \/ o \in Touched
    BY <1>2, <2>1 DEF Touched
  <2> QED BY <1>2, <2>2, SyncAssumption DEF IsClear
<1>3. CASE o \in Events
  <2>1. ~fired[o]
    BY <1>3, SyncAssumption DEF IsClear
  <2>2. ~fired'[o] \/ o \in Touched
    BY <1>3, <2>1 DEF Touched
  <2> QED BY <1>3, <2>2, SyncAssumption DEF IsClear
<1> QED BY <1>1, <1>2, <1>3 DEF Objects

LEMMA StepKeepsSwept ==
  ASSUME WordsOK, WordsOK', SweptIsClear, Step, RememberSignals
  PROVE  SweptIsClear'
<1> SUFFICES ASSUME NEW u \in Threads, Sweeping(u)'
             PROVE  /\ \A o \in created' \ thread'[u].todo : IsClear(o)' \/ o \in since'[u]
                    /\ thread'[u].pc = "sweepValue" /\ flag'[thread'[u].object]
                         => thread'[u].object \in since'[u]
  BY DEF SweptIsClear, Doing
<1>0. /\ thread \in [Threads -> Places] /\ thread[u] \in Places /\ Fits(thread[u])
      /\ created \subseteq Objects /\ since'[u] = since[u] \union Touched
      /\ flag \in [Fences -> BOOLEAN] /\ value \in [Fences -> Payload \union {0}]
  BY DEF WordsOK, PlacesOK, RememberSignals
(* An object that was visited before remains so.                            *)
<1>1. ASSUME Sweeping(u), NEW o \in created \ thread[u].todo
      PROVE  IsClear(o)' \/ o \in since'[u]
  BY <1>0, <1>1, ClearStaysClear DEF SweptIsClear
<1>2. CASE thread'[u] = thread[u]
  <2>1. Sweeping(u) /\ thread[u].pc \in InManager
    BY <1>2 DEF Sweeping, InManager
  <2>2. created' = created
    BY <2>1 DEF Step, CreateObject, SignalSemaphore, ResetSemaphore, StoreEvent, Call,
        ResetFence, SignalFence, Wait, ResetAll, BeginSweep, Continue, RaiseFlag, ClearValue,
        Check, CompareClock, SweepFence, SweepWord, SweepValue, FinishSweep, Expire
  <2>3. ASSUME thread[u].pc = "sweepValue", flag'[thread[u].object]
        PROVE  thread[u].object \in since'[u]
    <3>1. thread[u].object \in Fences
      BY <1>0, <2>3 DEF Fits
    <3>2. flag[thread[u].object] \/ thread[u].object \in Touched
      BY <2>3, <3>1, FencesAreSignaled DEF Touched
    <3> QED BY <1>0, <2>1, <2>3, <3>2 DEF SweptIsClear, Doing
  <2> QED BY <1>1, <1>2, <2>1, <2>2, <2>3
<1>3. CASE ResetAll(u)
  <2>1. thread'[u].todo = created /\ thread'[u].pc = "sweep" /\ created' = created
    BY <1>0, <1>3 DEF ResetAll, BeginSweep, Places
  <2> QED BY <2>1
<1>4. ASSUME NEW f \in Fences, SweepFence(u, f)
      PROVE  /\ \A o \in created' \ thread'[u].todo : IsClear(o)' \/ o \in since'[u]
             /\ thread'[u].pc = "sweepValue" /\ flag'[thread'[u].object]
                  => thread'[u].object \in since'[u]
  <2>1. /\ Sweeping(u) /\ thread'[u].todo = thread[u].todo /\ thread'[u].object = f
        /\ created' = created /\ ~flag'[f]
    BY <1>0, <1>4 DEF SweepFence, Sweeping, Doing, Places
  <2> QED BY <1>1, <2>1
<1>5. ASSUME NEW s \in Objects, SweepWord(u, s)
      PROVE  /\ \A o \in created' \ thread'[u].todo : IsClear(o)' \/ o \in since'[u]
             /\ thread'[u].pc = "sweepValue" /\ flag'[thread'[u].object]
                  => thread'[u].object \in since'[u]
  <2>1. /\ Sweeping(u) /\ created' = created /\ s \notin Fences /\ Swept(u, s)
    BY <1>5 DEF SweepWord, Sweeping, Doing
  <2>2. thread'[u].todo = thread[u].todo \ {s} /\ thread'[u].pc = "sweep"
    BY <1>0, <2>1 DEF Swept, Places
  <2>3. IsClear(s)'
    <3>1. CASE s \in Semaphores /\ counter' = [counter EXCEPT ![s] = 0]
      BY <2>1, <3>1, SyncAssumption DEF IsClear, WordsOK
    <3>2. CASE s \in Events /\ fired' = [fired EXCEPT ![s] = FALSE]
      BY <2>1, <3>2, SyncAssumption DEF IsClear, WordsOK
    <3> QED BY <1>5, <3>1, <3>2 DEF SweepWord
  <2> QED BY <1>1, <2>1, <2>2, <2>3
<1>6. CASE SweepValue(u)
  <2>0. PICK f \in Fences : f = thread[u].object
    BY <1>0, <1>6 DEF SweepValue, Doing, Fits
  <2>1. /\ Sweeping(u) /\ created' = created /\ Swept(u, f)
        /\ value' = [value EXCEPT ![f] = 0] /\ flag' = flag
    BY <1>6, <2>0 DEF SweepValue, Sweeping, Doing
  <2>2. thread'[u].todo = thread[u].todo \ {f} /\ thread'[u].pc = "sweep"
    BY <1>0, <2>1 DEF Swept, Places
  <2>3. flag[f] => f \in since'[u]
    <3>1. flag[f] => f \in since[u]
      BY <1>6, <2>0, <2>1 DEF SweptIsClear, SweepValue
    <3> QED BY <1>0, <3>1
  <2>4. (~flag[f] => ~flag'[f]) /\ value'[f] = 0
    <3>1. value \in [Fences -> Payload \union {0}]
      BY <1>0
    <3>2. value'[f] = 0
      BY <2>1, <3>1
    <3> QED BY <2>1, <3>2
  <2>5. ~flag[f] => IsClear(f)'
    BY <2>1, <2>4, SyncAssumption DEF IsClear
  <2>6. thread'[u].pc # "sweepValue"
    BY <2>2
  <2>7. \A o \in created' \ thread'[u].todo : IsClear(o)' \/ o \in since'[u]
    BY <1>1, <2>1, <2>2, <2>3, <2>5
  <2> QED BY <2>6, <2>7
<1>7. CASE thread'[u] # thread[u]
  <2>1. Call(u) \/ Continue(u) \/ Expire(u)
    BY <1>0, <1>7, OneThreadMoves
  <2>2. ~(RaiseFlag(u) \/ ClearValue(u) \/ FinishSweep(u) \/ Check(u) \/ CompareClock(u) \/ Expire(u))
    BY <1>0 DEF RaiseFlag, ClearValue, FinishSweep, Check, CompareClock, Expire, Finish, Goto,
                NoObject, Sweeping, Doing, Places
  <2>3. ASSUME Call(u)
        PROVE  ResetAll(u)
    <3>1. ASSUME NEW f \in Fences, ResetFence(u, f)
          PROVE  thread'[u].pc = "value"
      BY <1>0, <3>1 DEF ResetFence, Start, Places
    <3>2. ASSUME NEW f \in Fences, NEW v \in Payload, SignalFence(u, f, v)
          PROVE  thread'[u].pc = "flag"
      BY <1>0, <3>2 DEF SignalFence, Start, Places
    <3>3. ASSUME NEW o \in Objects, NEW n \in Nat, Wait(u, o, n)
          PROVE  thread'[u].pc = "check"
      BY <1>0, <3>3 DEF Wait, Start, Places
    <3>4. thread'[u].pc \in {"sweep", "sweepValue"}
      BY DEF Sweeping
    <3> QED BY <2>3, <3>1, <3>2, <3>3, <3>4, SyncAssumption DEF Call, Objects
  <2>4. CASE Continue(u)
    BY <1>4, <1>5, <1>6, <2>2, <2>4 DEF Continue, SweepFence
  <2> QED BY <1>3, <2>1, <2>2, <2>3, <2>4
<1> QED BY <1>2, <1>7

-----------------------------------------------------------------------------
(* Every step keeps the whole invariant.                                    *)
LEMMA NextKeeps ==
  ASSUME SyncInv, [Next]_vars
  PROVE  SyncInv'
<1>1. WordsOK /\ FencesOK
  BY DEF SyncInv, TypeOK, WordsOK, FencesOK
<1>2. CASE UNCHANGED vars
  BY <1>2 DEF vars, words, history, SyncInv, TypeOK, PlacesOK, QuietFenceIsZero,
       FlagPublishesValue, HalfDone, LookedFirst, SweptIsClear, Signaled, Resetting, Doing,
       Sweeping, IsClear
<1>3. CASE Next
  <2>1. Step /\ RememberOverlaps /\ RememberWaits /\ RememberSignals
    BY <1>3 DEF Next, Remember, RememberOverlaps, RememberWaits, RememberSignals, Touched
  <2>2. WordsOK' /\ FencesOK'
    BY <1>1, <2>1, StepKeepsWords, StepKeepsFences
  <2>3. LookedFirst' /\ SweptIsClear'
    BY <1>1, <2>1, <2>2, StepKeepsLook, StepKeepsSwept DEF SyncInv
  <2>4. Signaled \subseteq Fences /\ Signaled' \subseteq Fences
    BY <1>1, <2>2 DEF WordsOK, PlacesOK, Fits, Signaled, Doing
  <2>5. Touched \subseteq Objects
    BY <2>4 DEF Touched, Objects
  <2>6. /\ clear' \subseteq Threads /\ overlapped' \subseteq Fences
        /\ since' \in [Threads -> SUBSET Objects]
    BY <2>1, <2>4, <2>5 DEF SyncInv, TypeOK, RememberOverlaps, RememberWaits, RememberSignals
  <2> QED BY <2>2, <2>3, <2>6 DEF SyncInv, TypeOK, WordsOK, FencesOK
<1> QED BY <1>2, <1>3

LEMMA InvHolds == Spec => []SyncInv
BY InitEstablishes, NextKeeps, PTL DEF Spec

(* Words, places and histories keep their types.                            *)
THEOREM SyncTypeCorrect == Spec => []TypeOK
BY InvHolds, PTL DEF SyncInv

(* However many threads signal and reset a fence at the same time: when      *)
(* nobody does and its flag is down, its value is 0.                       *)
THEOREM QuietFencesAreZero == Spec => []QuietFenceIsZero
BY InvHolds, PTL DEF SyncInv

(* A flag is up over a value that was signaled, unless a reset ran into a    *)
(* signal of this fence.                                                   *)
THEOREM FlagsPublishValues == Spec => []FlagPublishesValue
BY InvHolds, PTL DEF SyncInv

(* A wait gives up only if it has seen its object not ready.                *)
THEOREM TimeoutsAreHonest == Spec => TimeoutMeansUnset
<1>1. SyncInv => (\A t \in Threads : Doing(t, "clock") /\ Doing(t, "idle")' => t \in clear)
  BY DEF SyncInv, LookedFirst
<1> QED BY <1>1, InvHolds, PTL DEF TimeoutMeansUnset

(* When reset_all returns, what is set was signaled while it ran.           *)
THEOREM SweepsAreComplete == Spec => ResetAllClears
<1>1. SyncInv /\ [Next]_vars => [\A t \in Threads : Doing(t, "sweep") /\ Doing(t, "idle")' =>
                    \A o \in created : IsClear(o) \/ o \in since[t]]_vars
  <2> SUFFICES ASSUME SyncInv, Next, NEW t \in Threads, Doing(t, "sweep"), Doing(t, "idle")'
               PROVE  thread[t].todo = {}
    BY DEF SyncInv, SweptIsClear, Sweeping, Doing
  <2>0. thread \in [Threads -> Places] /\ thread'[t] # thread[t]
    BY DEF SyncInv, TypeOK, Doing
  <2>1. Call(t) \/ Continue(t) \/ Expire(t)
    BY <2>0, OneThreadMoves DEF Next
  <2>2. ~Call(t) /\ ~Expire(t)
    BY DEF Call, ResetFence, SignalFence, Wait, ResetAll, BeginSweep, Start, Expire, Doing
  <2>3. ~\E o \in Objects : SweepFence(t, o) \/ SweepWord(t, o)
    BY <2>0 DEF SweepFence, SweepWord, Swept, Doing, Places
  <2> QED BY <2>1, <2>2, <2>3 DEF Continue, RaiseFlag, ClearValue, Check, CompareClock, SweepValue,
                                  FinishSweep, Doing
<1> QED BY <1>1, InvHolds, PTL DEF Spec, ResetAllClears

--------------------------------------------------------------------------------
(* Numbers.                                                                    *)

LEMMA DivMod ==
  ASSUME NEW a \in Int, NEW b \in Nat \ {0}
  PROVE  \E q \in Int, r \in 0 .. b - 1 : q = a \div b /\ r = a % b /\ a = b * q + r
<1>1. PICK q : q = a \div b
  OBVIOUS
<1>2. PICK r : r = a % b
  OBVIOUS
<1>3. q \in Int /\ r \in Int /\ r >= 0 /\ r < b
  BY <1>1, <1>2
<1>4. a = b * q + r
  BY <1>1, <1>2, <1>3
<1> QED BY <1>1, <1>2, <1>3, <1>4

(* Quotient and remainder are known by what they are.                          *)
LEMMA RemainderIs ==
  ASSUME NEW a \in Int, NEW b \in Nat \ {0}, NEW q \in Int, NEW r \in 0 .. b - 1, a = b * q + r
  PROVE  a % b = r /\ a \div b = q
  OBVIOUS

(* A product grows with its factor.                                            *)
LEMMA Monotone ==
  ASSUME NEW a \in Int, NEW b \in Int, NEW c \in Nat, a <= b
  PROVE  a * c <= b * c
  OBVIOUS

(* A number has one quotient and one remainder.                                *)
LEMMA DigitsUnique ==
  ASSUME NEW b \in Nat \ {0}, NEW q \in Int, NEW p \in Int,
         NEW r \in 0 .. b - 1, NEW s \in 0 .. b - 1, b * q + r = b * p + s
  PROVE  q = p /\ r = s
<1>1. PICK a \in Int : a = b * q + r
  OBVIOUS
<1>2. a \div b = q /\ a % b = r
  BY <1>1, RemainderIs
<1>3. a \div b = p /\ a % b = s
  BY <1>1, RemainderIs
<1> QED BY <1>2, <1>3

(* Induction, for a set of numbers.                                            *)
LEMMA EveryNumber ==
  ASSUME NEW T \in SUBSET Nat, 0 \in T, \A n \in T : n + 1 \in T
  PROVE  T = Nat
<1> SUFFICES ASSUME Nat \ T # {} PROVE FALSE
  OBVIOUS
<1>1. PICK n \in Nat \ T : \A m \in Nat \ T : <<m, n>> \notin OpToRel(<, Nat)
  BY NatLessThanWellFounded, WFMin
<1>2. \A m \in Nat \ T : ~(m < n)
  BY <1>1 DEF OpToRel
<1>3. n # 0 /\ n - 1 \in Nat
  OBVIOUS
<1>4. n - 1 \in T
  BY <1>2, <1>3
<1> QED BY <1>4

(* Max is the element that bounds the set, if there is one; so is Min.         *)
LEMMA MaxIs ==
  ASSUME NEW s \in SUBSET Int, NEW m \in s, \A i \in s : i <= m
  PROVE  Max(s) = m
<1>1. \A x \in s : (\A y \in s : x >= y) => x = m
  OBVIOUS
<1>2. \A y \in s : m >= y
  OBVIOUS
<1> QED BY <1>1, <1>2 DEF Max

(* The least element bounds it from below.                                     *)
LEMMA MinIs ==
  ASSUME NEW s \in SUBSET Int, NEW m \in s, \A i \in s : i >= m
  PROVE  Min(s) = m
<1>1. \A x \in s : (\A y \in s : x <= y) => x = m
  OBVIOUS
<1>2. \A y \in s : m <= y
  OBVIOUS
<1> QED BY <1>1, <1>2 DEF Min

(* The last number of a range.                                                 *)
LEMMA MaxOfRange ==
  ASSUME NEW k \in Nat \ {0}
  PROVE  Max(1..k) = k /\ (1..k) \ {k} = 1..(k - 1)
<1>1. k \in 1..k /\ (\A i \in 1..k : i <= k) /\ 1..k \in SUBSET Int
  OBVIOUS
<1>2. Max(1..k) = k
  BY <1>1, MaxIs
<1> QED BY <1>2

(* The largest of some of the first n numbers is one of them.                  *)
LEMMA MaxIn ==
  ASSUME NEW n \in Nat, NEW s \in SUBSET (1..n), s # {}
  PROVE  Max(s) \in s
<1> DEFINE above == {m \in Nat : \A i \in s : i <= m}
<1>1. n \in above
  OBVIOUS
<1>2. PICK m \in above : \A j \in above : <<j, m>> \notin OpToRel(<, Nat)
  BY <1>1, NatLessThanWellFounded, WFMin
<1>3. m \in Nat /\ (\A i \in s : i <= m) /\ \A j \in above : ~(j < m)
  BY <1>2 DEF OpToRel
<1>4. m \in s
  <2> SUFFICES ASSUME m \notin s PROVE FALSE
    OBVIOUS
  <2>1. \A i \in s : i \in Nat /\ i <= m - 1 /\ i >= 1
    BY <1>3
  <2>2. m - 1 \in Nat
    <3>1. PICK i : i \in s
      OBVIOUS
    <3> QED BY <1>3, <2>1, <3>1
  <2>3. m - 1 \in above
    BY <2>1, <2>2
  <2> QED BY <1>3, <2>3
<1> QED BY <1>3, <1>4, MaxIs

--------------------------------------------------------------------------------
(* A fold is the last of a chain of values, each one step after the other.     *)

Chain(base, step, n, g) ==
  g = [s \in SUBSET (1..n) |->
         IF s = {} THEN base ELSE step[<<g[s \ {Max(s)}], Max(s)>>]]

(* FoldLeft is defined by such a function; there is one, of the folded type.   *)
LEMMA ChainExists ==
  ASSUME NEW S, NEW base \in S, NEW n \in Nat, NEW step \in [S \X (1..n) -> S]
  PROVE  \E g \in [SUBSET (1..n) -> S] : Chain(base, step, n, g)
<1>u. PICK U : U = 1..n
  OBVIOUS
<1> DEFINE Small(k) == {s \in SUBSET U : Cardinality(s) <= k}
           Body(g, s) == IF s = {} THEN base ELSE step[<<g[s \ {Max(s)}], Max(s)>>]
           T == {k \in Nat : \E g \in [Small(k) -> S] : g = [s \in Small(k) |-> Body(g, s)]}
<1>0. /\ \A s \in SUBSET U : IsFiniteSet(s) /\ Cardinality(s) \in Nat
      /\ \A s \in SUBSET U : s # {} => Max(s) \in U /\ Cardinality(s \ {Max(s)}) = Cardinality(s) - 1
  <2>1. IsFiniteSet(U)
    BY <1>u, FS_Interval
  <2>2. \A s \in SUBSET U : IsFiniteSet(s) /\ Cardinality(s) \in Nat
    BY <2>1, FS_Subset, FS_CardinalityType
  <2>3. \A s \in SUBSET U : s # {} => Max(s) \in s
    BY <1>u, MaxIn
  <2> QED BY <2>2, <2>3, FS_RemoveElement
<1>1. 0 \in T
  <2> DEFINE z == [s \in Small(0) |-> base]
  <2>1. \A s \in Small(0) : s = {}
    BY <1>0, FS_EmptySet
  <2>2. z = [s \in Small(0) |-> Body(z, s)] /\ z \in [Small(0) -> S]
    BY <2>1
  <2> HIDE DEF z, Small, Body
  <2> QED BY <2>2
<1>2. ASSUME NEW k \in T PROVE k + 1 \in T
  <2>1. PICK g \in [Small(k) -> S] : g = [s \in Small(k) |-> Body(g, s)]
    BY <1>2
  <2> DEFINE h == [s \in Small(k + 1) |-> Body(g, s)]
  <2>2. k \in Nat
    OBVIOUS
  <2>3. Small(k) \subseteq Small(k + 1)
    BY <1>0, <2>2
  <2>4. \A s \in Small(k) : h[s] = g[s]
    <3> TAKE s \in Small(k)
    <3>1. g[s] = Body(g, s)
      BY <2>1
    <3> QED BY <2>3, <3>1
  <2>5. \A s \in Small(k + 1) : s # {} => s \ {Max(s)} \in Small(k)
    BY <1>0, <2>2
  <2>6. \A s \in Small(k + 1) : Body(g, s) = Body(h, s)
    BY <2>4, <2>5
  <2>7. h = [s \in Small(k + 1) |-> Body(h, s)]
    BY <2>6
  <2>8. \A s \in Small(k + 1) : Body(g, s) \in S
    <3> TAKE s \in Small(k + 1)
    <3>1. CASE s = {}
      BY <3>1
    <3>2. CASE s # {}
      <4>1. s \ {Max(s)} \in Small(k) /\ Max(s) \in 1..n
        BY <1>u, <1>0, <2>5, <3>2
      <4>2. PICK x \in S, m \in 1..n : x = g[s \ {Max(s)}] /\ m = Max(s)
        <5> HIDE DEF Small
        <5> QED BY <4>1
      <4> HIDE DEF Small
      <4> QED BY <3>2, <4>2
    <3> QED BY <3>1, <3>2
  <2>9. h \in [Small(k + 1) -> S]
    <3> HIDE DEF Small, Body
    <3> QED BY <2>8
  <2> HIDE DEF h, Small, Body
  <2> QED BY <2>2, <2>7, <2>9
<1>3. T = Nat
  <2> HIDE DEF Small, Body
  <2> QED BY <1>1, <1>2, EveryNumber
<1>4. Small(n) = SUBSET U
  <2>1. IsFiniteSet(U) /\ Cardinality(U) = n
    BY <1>u, FS_Interval
  <2>2. \A s \in SUBSET U : Cardinality(s) <= n
    BY <2>1, FS_Subset
  <2> QED BY <2>2
<1>5. PICK g \in [Small(n) -> S] : g = [s \in Small(n) |-> Body(g, s)]
  <2> HIDE DEF Small, Body
  <2> QED BY <1>3
<1> QED BY <1>u, <1>4, <1>5 DEF Chain

(* The first k of n.                                                           *)
LEMMA FirstOf ==
  ASSUME NEW n \in Nat, NEW k \in 1..n
  PROVE  /\ 1..k \in SUBSET (1..n) /\ 1..k # {} /\ Max(1..k) = k /\ (1..k) \ {k} = 1..(k - 1)
         /\ 1..0 = {} /\ {} \in SUBSET (1..n)
<1>1. k \in Nat \ {0} /\ k <= n
  OBVIOUS
<1>2. 1 \in 1..k /\ \A i \in 1..k : i \in 1..n
  BY <1>1
<1>3. Max(1..k) = k /\ (1..k) \ {k} = 1..(k - 1)
  BY <1>1, MaxOfRange
<1> QED BY <1>2, <1>3

(* What holds at first and after a step if it did before holds at each.        *)
LEMMA EachOf ==
  ASSUME NEW S, NEW n \in Nat, NEW f, f[0] \in S,
         \A k \in 1..n : f[k - 1] \in S => f[k] \in S
  PROVE  \A k \in 0..n : f[k] \in S
<1> DEFINE T == {k \in Nat : k <= n => f[k] \in S}
<1>1. 0 \in T
  OBVIOUS
<1>2. ASSUME NEW k \in T PROVE k + 1 \in T
  <2>1. k \in Nat /\ k + 1 \in Nat /\ (k + 1) - 1 = k
    OBVIOUS
  <2>2. CASE k + 1 <= n
    <3>1. k + 1 \in 1..n /\ f[k] \in S
      BY <2>1, <2>2
    <3>2. f[(k + 1) - 1] \in S => f[k + 1] \in S
      BY <3>1
    <3> QED BY <2>1, <3>1, <3>2
  <2> QED BY <2>1, <2>2
<1>3. T \in SUBSET Nat
  OBVIOUS
<1>4. T = Nat
  <2> HIDE DEF T
  <2>1. \A k \in T : k + 1 \in T
    BY <1>2
  <2> QED BY <1>1, <1>3, <2>1, EveryNumber
<1> QED BY <1>4

--------------------------------------------------------------------------------
(* Writes.                                                                     *)

Octet == 0..255
Memories(n) == [pixels : [1..n -> Octet], sound : BOOLEAN]
Writings == Nat \X Seq(Octet)

(* The places of a write, and what it puts there.                              *)
Target(write) == write[1] + 1 .. write[1] + Len(write[2])
Told(write, i) == write[2][i - write[1]]

(* A write changes its places, if it is inside, and no other.                  *)
LEMMA WriteKeeps ==
  ASSUME NEW n \in Nat, NEW m \in Memories(n), NEW w \in Writings
  PROVE  /\ Write(m, w) \in Memories(n)
         /\ m.sound /\ w[1] + Len(w[2]) <= n =>
              /\ Write(m, w).sound
              /\ \A i \in 1..n : Write(m, w).pixels[i] = IF i \in Target(w) THEN Told(w, i) ELSE m.pixels[i]
<1>1. PICK from \in Nat, bytes \in Seq(Octet) : w = <<from, bytes>>
  BY DEF Writings
<1>2. PICK px \in [1..n -> Octet], ok \in BOOLEAN : m = [pixels |-> px, sound |-> ok]
  BY DEF Memories
<1>3. PICK len \in Nat : len = Len(bytes) /\ bytes \in [1..len -> Octet]
  OBVIOUS
<1>4. Len(px) = n
  OBVIOUS
<1> DEFINE new == [i \in 1..n |-> IF i \in from + 1 .. from + len THEN bytes[i - from] ELSE px[i]]
<1>5. new \in [1..n -> Octet]
  <2>1. \A i \in from + 1 .. from + len : i - from \in 1..len
    OBVIOUS
  <2> QED BY <1>3, <2>1
<1>6. CASE ok /\ from + len <= n
  <2>1. m.pixels = px /\ DOMAIN px = 1..n /\ m.sound /\ w[1] = from /\ w[2] = bytes
    BY <1>1, <1>2, <1>6
  <2>2. Write(m, w) = [m EXCEPT !.pixels = new]
    BY <1>3, <1>4, <1>6, <2>1 DEF Write
  <2>3. Write(m, w) = [pixels |-> new, sound |-> ok]
    BY <1>2, <2>2
  <2> HIDE DEF new
  <2>4. Write(m, w) \in Memories(n) /\ Write(m, w).sound /\ Write(m, w).pixels = new
    BY <1>5, <1>6, <2>3 DEF Memories
  <2>5. \A i \in 1..n : new[i] = IF i \in Target(w) THEN Told(w, i) ELSE m.pixels[i]
    BY <1>3, <2>1 DEF Target, Told, new
  <2> QED BY <2>4, <2>5
<1>7. CASE ~(ok /\ from + len <= n)
  <2>1. m.pixels = px /\ m.sound = ok /\ w[1] = from /\ w[2] = bytes
    BY <1>1, <1>2
  <2>2. Write(m, w) = [m EXCEPT !.sound = FALSE]
    BY <1>3, <1>4, <1>7, <2>1 DEF Write
  <2>3. Write(m, w) = [pixels |-> px, sound |-> FALSE]
    BY <1>2, <2>2
  <2> QED BY <1>3, <1>7, <2>1, <2>3 DEF Memories
<1> QED BY <1>6, <1>7

(* The memory after each write of a list.                                      *)
WriteChain(link, n, px, len, ws, s) ==
  /\ link \in [0..len -> Memories(n)]
  /\ link[0] = [pixels |-> px, sound |-> TRUE] /\ link[len] = Written(s, ws)
  /\ \A k \in 1..len : link[k] = Write(link[k - 1], ws[k])

(* Written is the memory after the last of the writes.                         *)
LEMMA WritesChained ==
  ASSUME NEW n \in Nat, NEW px \in [1..n -> Octet],
         NEW len \in Nat, NEW ws \in [1..len -> Writings], NEW s, s.pixels = px
  PROVE  \E link : WriteChain(link, n, px, len, ws, s)
<1>1. PICK base : base = [pixels |-> px, sound |-> TRUE]
  OBVIOUS
<1>2. base \in Memories(n)
  BY <1>1 DEF Memories
<1>3. PICK step : step = [x \in Memories(n) \X (1..len) |-> Write(x[1], ws[x[2]])]
  OBVIOUS
<1>4. step \in [Memories(n) \X (1..len) -> Memories(n)]
  <2>1. \A x \in Memories(n) \X (1..len) : Write(x[1], ws[x[2]]) \in Memories(n)
    <3> TAKE x \in Memories(n) \X (1..len)
    <3>1. PICK m \in Memories(n), w \in Writings : m = x[1] /\ w = ws[x[2]]
      OBVIOUS
    <3> QED BY <3>1, WriteKeeps
  <2> QED BY <1>3, <2>1
<1>5. \A m \in Memories(n), k \in 1..len : step[<<m, k>>] = Write(m, ws[k])
  BY <1>3
<1> DEFINE Fold(g) == g = [s1 \in SUBSET (1..len) |->
                              IF s1 = {} THEN base ELSE Write(g[s1 \ {Max(s1)}], ws[Max(s1)])]
<1>6. PICK g \in [SUBSET (1..len) -> Memories(n)] : Chain(base, step, len, g)
  BY <1>2, <1>4, ChainExists
<1>7. Fold(g)
  <2>1. \A s1 \in SUBSET (1..len) : s1 # {} => Max(s1) \in 1..len
    BY MaxIn
  <2>2. ASSUME NEW s1 \in SUBSET (1..len), s1 # {}
        PROVE  step[<<g[s1 \ {Max(s1)}], Max(s1)>>] = Write(g[s1 \ {Max(s1)}], ws[Max(s1)])
    <3>1. PICK m \in Memories(n), k \in 1..len : m = g[s1 \ {Max(s1)}] /\ k = Max(s1)
      BY <2>1, <2>2
    <3> QED BY <1>5, <3>1
  <2> QED BY <1>6, <2>2 DEF Chain
<1>8. PICK h : h = CHOOSE f : Fold(f)
  OBVIOUS
<1>9. Fold(h)
  BY <1>7, <1>8
<1>10. Written(s, ws) = h[1..len]
  <2>1. DOMAIN ws = 1..len
    OBVIOUS
  <2> QED BY <1>1, <1>8, <2>1 DEF Written, FoldLeft, MapThenFoldSet
<1> HIDE DEF Fold
<1>11. /\ h[1..0] = base
       /\ \A k \in 1..len : h[1..(k - 1)] \in Memories(n) => h[1..k] = step[<<h[1..(k - 1)], k>>]
  <2>1. \A s1 \in SUBSET (1..len) :
          h[s1] = IF s1 = {} THEN base ELSE Write(h[s1 \ {Max(s1)}], ws[Max(s1)])
    BY <1>9 DEF Fold
  <2>2. h[1..0] = base
    <3>1. 1..0 = {} /\ {} \in SUBSET (1..len)
      OBVIOUS
    <3> QED BY <2>1, <3>1
  <2>3. ASSUME NEW k \in 1..len, h[1..(k - 1)] \in Memories(n)
        PROVE  h[1..k] = step[<<h[1..(k - 1)], k>>]
    <3>0. /\ 1..k \in SUBSET (1..len) /\ 1..k # {} /\ Max(1..k) = k /\ (1..k) \ {k} = 1..(k - 1)
          /\ 1..0 = {} /\ {} \in SUBSET (1..len)
      BY FirstOf
    <3>q. PICK q \in SUBSET (1..len) : q = 1..k
      BY <3>0
    <3>2. q # {} /\ Max(q) = k /\ q \ {Max(q)} = 1..(k - 1)
      BY <3>0, <3>q
    <3>3. h[q] = Write(h[q \ {Max(q)}], ws[Max(q)])
      BY <2>1, <3>2
    <3>1. h[1..k] = Write(h[1..(k - 1)], ws[k])
      BY <3>q, <3>2, <3>3
    <3> QED BY <1>5, <2>3, <3>1
  <2> QED BY <2>2, <2>3
<1> DEFINE link == [k \in 0..len |-> h[1..k]]
<1>12. \A k \in 1..len : link[k] = h[1..k] /\ link[k - 1] = h[1..(k - 1)]
  <2> TAKE k \in 1..len
  <2>1. k \in 0..len /\ k - 1 \in 0..len
    OBVIOUS
  <2> QED BY <2>1
<1>13. link[0] = base /\ link[len] = h[1..len]
  BY <1>11
<1>14. \A k \in 1..len : link[k - 1] \in Memories(n) => link[k] = Write(link[k - 1], ws[k])
  <2> HIDE DEF link
  <2> TAKE k \in 1..len
  <2> HAVE link[k - 1] \in Memories(n)
  <2>1. link[k] = step[<<link[k - 1], k>>]
    BY <1>11, <1>12
  <2> QED BY <1>5, <2>1
<1>15. \A k \in 1..len : link[k - 1] \in Memories(n) => link[k] \in Memories(n)
  <2> HIDE DEF link
  <2> TAKE k \in 1..len
  <2> HAVE link[k - 1] \in Memories(n)
  <2>1. ws[k] \in Writings
    OBVIOUS
  <2> QED BY <1>14, <2>1, WriteKeeps
<1>16. \A k \in 0..len : link[k] \in Memories(n)
  <2> HIDE DEF link
  <2> QED BY <1>2, <1>13, <1>15, EachOf
<1>17. link \in [0..len -> Memories(n)]
  BY <1>16
<1>18. \A k \in 1..len : link[k] = Write(link[k - 1], ws[k])
  <2> HIDE DEF link
  <2> TAKE k \in 1..len
  <2>1. k - 1 \in 0..len
    OBVIOUS
  <2> QED BY <1>14, <1>16, <2>1
<1>19. WriteChain(link, n, px, len, ws, s)
  <2> HIDE DEF link
  <2> QED BY <1>1, <1>10, <1>13, <1>17, <1>18 DEF WriteChain
<1> QED BY <1>19

(* All the writes are inside, and put what is wanted where they write.         *)
Fit(n, len, ws) == \A k \in 1..len : ws[k][1] + Len(ws[k][2]) <= n
Agree(len, ws, want) == \A k \in 1..len : \A i \in Target(ws[k]) : Told(ws[k], i) = want[i]

(* What is wanted is where a write was, what was there is elsewhere.           *)
After(n, px, len, ws, want, m) ==
  /\ m \in Memories(n) /\ m.sound
  /\ \A i \in 1..n :
       m.pixels[i] = IF \E k \in 1..len : i \in Target(ws[k]) THEN want[i] ELSE px[i]

(* Writes that agree on what they write where they write, all inside: what they wanted is there *)
LEMMA WritesLand ==
  ASSUME NEW n \in Nat, NEW px \in [1..n -> Octet],
         NEW len \in Nat, NEW ws \in [1..len -> Writings], NEW s, s.pixels = px,
         NEW want, Fit(n, len, ws), Agree(len, ws, want)
  PROVE  After(n, px, len, ws, want, Written(s, ws))
<1>0. PICK link : WriteChain(link, n, px, len, ws, s)
  BY WritesChained
<1>1. /\ link \in [0..len -> Memories(n)]
      /\ link[0] = [pixels |-> px, sound |-> TRUE] /\ link[len] = Written(s, ws)
      /\ \A k \in 1..len : link[k] = Write(link[k - 1], ws[k])
  BY <1>0 DEF WriteChain
<1> DEFINE Good(k) ==
             /\ link[k].sound
             /\ \A i \in 1..n : link[k].pixels[i] =
                  IF \E j \in 1..k : i \in Target(ws[j]) THEN want[i] ELSE px[i]
           T == {k \in Nat : k <= len => Good(k)}
<1>2. 0 \in T
  <2>1. link[0].sound /\ link[0].pixels = px
    BY <1>1
  <2>2. \A j \in 1..0 : FALSE
    OBVIOUS
  <2>3. Good(0)
    BY <2>1, <2>2
  <2> QED BY <2>3
<1>3. ASSUME NEW k \in Nat, k + 1 <= len, Good(k)
      PROVE  Good(k + 1)
  <2>0. k \in Nat /\ k + 1 \in 1..len /\ k \in 0..len /\ (k + 1) - 1 = k
    BY <1>3
  <2>1. Good(k)
    BY <1>3
  <2>2. PICK m \in Memories(n) : m = link[k]
    BY <1>1, <2>0
  <2>3. PICK w \in Writings : w = ws[k + 1]
    BY <2>0
  <2>4. link[k + 1] = Write(m, w)
    BY <1>1, <2>0, <2>2, <2>3
  <2>5. m.sound /\ w[1] + Len(w[2]) <= n
    BY <2>0, <2>1, <2>2, <2>3 DEF Fit
  <2>6. /\ Write(m, w).sound
        /\ \A i \in 1..n : Write(m, w).pixels[i] = IF i \in Target(w) THEN Told(w, i) ELSE m.pixels[i]
    BY <2>5, WriteKeeps
  <2>7. \A i \in Target(w) : Told(w, i) = want[i]
    BY <2>0, <2>3 DEF Agree
  <2>8. ASSUME NEW i \in 1..n
        PROVE  link[k + 1].pixels[i] =
                 IF \E j \in 1..(k + 1) : i \in Target(ws[j]) THEN want[i] ELSE px[i]
    <3>1. link[k + 1].pixels[i] = IF i \in Target(w) THEN want[i] ELSE m.pixels[i]
      BY <2>4, <2>6, <2>7
    <3>2. m.pixels[i] = IF \E j \in 1..k : i \in Target(ws[j]) THEN want[i] ELSE px[i]
      BY <2>1, <2>2
    <3>3. (\E j \in 1..(k + 1) : i \in Target(ws[j])) <=>
            (i \in Target(w) \/ \E j \in 1..k : i \in Target(ws[j]))
      <4>1. \A j \in 1..(k + 1) : j \in 1..k \/ j = k + 1
        BY <2>0
      <4>2. \A j \in 1..k : j \in 1..(k + 1)
        BY <2>0
      <4>3. k + 1 \in 1..(k + 1)
        BY <2>0
      <4> QED BY <2>3, <4>1, <4>2, <4>3
    <3> QED BY <3>1, <3>2, <3>3
  <2>9. link[k + 1].sound
    BY <2>4, <2>6
  <2> QED BY <2>8, <2>9
<1>4. T = Nat
  <2>1. T \in SUBSET Nat
    OBVIOUS
  <2>2. \A k \in T : k + 1 \in T
    <3> HIDE DEF Good
    <3> TAKE k \in T
    <3>1. k \in Nat /\ (k <= len => Good(k))
      OBVIOUS
    <3>2. k + 1 <= len => Good(k + 1)
      BY <1>3, <3>1
    <3> QED BY <3>1, <3>2
  <2> HIDE DEF T
  <2> QED BY <1>2, <2>1, <2>2, EveryNumber
<1>5. Good(len)
  <2> HIDE DEF Good
  <2> QED BY <1>4
<1>6. Written(s, ws) \in Memories(n)
  BY <1>1
<1> QED BY <1>1, <1>5, <1>6 DEF After

(* Whatever the writes are, as many bytes are left.                            *)
LEMMA WrittenTyped ==
  ASSUME NEW n \in Nat, NEW px \in [1..n -> Octet],
         NEW len \in Nat, NEW ws \in [1..len -> Writings], NEW s, s.pixels = px
  PROVE  Written(s, ws) \in Memories(n)
<1>0. PICK link : WriteChain(link, n, px, len, ws, s)
  BY WritesChained
<1>1. /\ link \in [0..len -> Memories(n)]
      /\ link[0] = [pixels |-> px, sound |-> TRUE] /\ link[len] = Written(s, ws)
      /\ \A k \in 1..len : link[k] = Write(link[k - 1], ws[k])
  BY <1>0 DEF WriteChain
<1> QED BY <1>1

--------------------------------------------------------------------------------
(* Places.                                                                     *)

LEMMA Shape ==
  ASSUME NEW s, WellFormed(s)
  PROVE  /\ s.width \in Nat /\ s.height \in Nat /\ s.stride \in Nat
         /\ s.stride >= 4 * s.width /\ Len(s.pixels) = s.stride * s.height
         /\ s.pixels \in [1..Len(s.pixels) -> Octet] /\ Len(s.pixels) \in Nat
         /\ Len(s.pixels) < U32 /\ U32 \in Nat
         /\ s.format \in {"rgba8", "bgra8", "bgrx8"} /\ s.dirty \in BOOLEAN
         /\ s.pixels \in Seq(Octet) /\ DOMAIN s.pixels = 1..Len(s.pixels)
         /\ s.width < U32 /\ s.height < U32
<1>1. s.pixels \in Seq(Octet)
  BY DEF WellFormed, Octet
<1>2. Len(s.pixels) \in Nat /\ s.pixels \in [1..Len(s.pixels) -> Octet]
  BY <1>1
<1>3. /\ s.width \in Nat /\ s.height \in Nat /\ s.stride \in Nat /\ U32 \in Nat
      /\ s.width < U32 /\ s.height < U32
  <2>1. s.width \in Coordinate /\ s.height \in Coordinate /\ s.stride \in Coordinate
    BY DEF WellFormed
  <2> QED BY <2>1, FramebufferAssumption DEF Coordinate
<1> QED BY <1>1, <1>2, <1>3 DEF WellFormed, Bpp

(* A row is inside.                                                            *)
LEMMA RowInside ==
  ASSUME NEW s, WellFormed(s), NEW x \in Nat, NEW y \in Nat, NEW w \in Nat,
         x + w <= s.width, y < s.height
  PROVE  /\ Place(s, <<x, y>>) \in Nat /\ Place(s, <<x, y>>) = s.stride * y + x * 4
         /\ Place(s, <<x, y>>) + w * 4 <= Len(s.pixels)
         /\ Offset(s, x, y) = Place(s, <<x, y>>)
<1>1. PICK stride \in Nat, height \in Nat, width \in Nat :
        stride = s.stride /\ height = s.height /\ width = s.width
  BY Shape
<1>2. stride >= 4 * width /\ Len(s.pixels) = stride * height /\ Len(s.pixels) < U32 /\ U32 \in Nat
  BY <1>1, Shape
<1>3. (y + 1) * stride <= height * stride
  BY <1>1, Monotone
<1>4. PICK a \in Nat : a = y * stride
  BY <1>1
<1>5. (y + 1) * stride = a + stride /\ stride * y = a /\ height * stride = stride * height
  BY <1>1, <1>4
<1>6. Place(s, <<x, y>>) = a + x * 4
  BY <1>1, <1>4 DEF Place, Bpp
<1>7. a + x * 4 + w * 4 <= Len(s.pixels) /\ a + x * 4 < U32 /\ a + x * 4 \in Nat
  <2>1. PICK len \in Nat : len = Len(s.pixels)
    BY Shape
  <2>2. PICK e \in Nat : e = height * stride
    BY <1>1
  <2>3. a + stride <= e
    BY <1>3, <1>5, <2>2
  <2>4. len = e /\ len < U32 /\ U32 \in Nat
    BY <1>2, <1>5, <2>1, <2>2
  <2>5. stride >= 4 * width /\ x + w <= width
    BY <1>1, <1>2
  <2>6. a + x * 4 + w * 4 <= len /\ a + x * 4 < U32 /\ a + x * 4 \in Nat
    BY <2>3, <2>4, <2>5
  <2> QED BY <2>1, <2>6
<1>8. Offset(s, x, y) = (a + x * 4) % U32
  <2>1. y * s.stride = a
    BY <1>1, <1>4
  <2> QED BY <2>1 DEF Offset, Bpp
<1>9. (a + x * 4) % U32 = a + x * 4
  BY <1>2, <1>7
<1> QED BY <1>1, <1>5, <1>6, <1>7, <1>8, <1>9

(* Where a row of a rectangle begins.                                          *)
LEMMA RowBegins ==
  ASSUME NEW s, WellFormed(s), NEW x \in Nat, NEW y \in Nat, x <= s.width, y < s.height
  PROVE  Place(s, <<x, y>>) \in Nat /\ Place(s, <<x, y>>) = s.stride * y + x * 4
         /\ Offset(s, x, y) = Place(s, <<x, y>>)
<1>1. PICK w \in Nat : w = 0
  OBVIOUS
<1>2. x + w <= s.width
  BY <1>1, Shape
<1> QED BY <1>2, RowInside

(* The four bytes of a point are inside.                                       *)
LEMMA PointInside ==
  ASSUME NEW s, WellFormed(s), NEW p \in Points(s)
  PROVE  /\ p[1] \in Nat /\ p[2] \in Nat /\ p = <<p[1], p[2]>>
         /\ p[1] < s.width /\ p[2] < s.height
         /\ Place(s, p) \in Nat /\ Place(s, p) + 4 <= Len(s.pixels)
         /\ Place(s, p) = s.stride * p[2] + p[1] * 4
         /\ Offset(s, p[1], p[2]) = Place(s, p)
<1>1. PICK width \in Nat, height \in Nat : width = s.width /\ height = s.height
  BY Shape
<1>2. PICK x \in 0 .. width - 1, y \in 0 .. height - 1 : p = <<x, y>>
  BY <1>1 DEF Points
<1>3. x \in Nat /\ y \in Nat /\ x + 1 <= width /\ y < height
  BY <1>1, <1>2
<1>4. /\ Place(s, p) \in Nat /\ Place(s, p) = s.stride * y + x * 4
      /\ Place(s, p) + 1 * 4 <= Len(s.pixels)
      /\ Offset(s, x, y) = Place(s, p)
  BY <1>1, <1>2, <1>3, RowInside
<1> QED BY <1>1, <1>2, <1>3, <1>4

(* No byte belongs to two points.                                              *)
LEMMA PlacesApart ==
  ASSUME NEW s, WellFormed(s), NEW p \in Points(s), NEW q \in Points(s),
         NEW c \in 1..4, NEW e \in 1..4, Place(s, p) + c = Place(s, q) + e
  PROVE  p = q /\ c = e
<1>1. PICK x \in Nat, y \in Nat : p = <<x, y>> /\ x = p[1] /\ y = p[2]
  BY PointInside
<1>2. PICK u \in Nat, v \in Nat : q = <<u, v>> /\ u = q[1] /\ v = q[2]
  BY PointInside
<1>3. PICK stride \in Nat, width \in Nat : stride = s.stride /\ width = s.width
  BY Shape
<1>4. x < width /\ u < width /\ stride >= 4 * width
  BY <1>1, <1>2, <1>3, PointInside, Shape
<1>5. stride * y + x * 4 + c = stride * v + u * 4 + e
  BY <1>1, <1>2, <1>3, PointInside
<1>6. PICK r \in 0 .. stride - 1 : r = x * 4 + (c - 1)
  BY <1>3, <1>4
<1>7. PICK t \in 0 .. stride - 1 : t = u * 4 + (e - 1)
  BY <1>3, <1>4
<1>8. stride \in Nat \ {0} /\ stride * y + r = stride * v + t
  BY <1>4, <1>3, <1>5, <1>6, <1>7
<1>9. y = v /\ r = t
  BY <1>8, DigitsUnique
<1>10. 4 * x + (c - 1) = 4 * u + (e - 1)
  BY <1>6, <1>7, <1>9
<1>11. x = u /\ c - 1 = e - 1
  <2>1. c - 1 \in 0..(4 - 1) /\ e - 1 \in 0..(4 - 1)
    OBVIOUS
  <2> QED BY <1>10, <2>1, DigitsUnique
<1> QED BY <1>1, <1>2, <1>9, <1>11

(* The cells of a grid are counted row by row.                                 *)
LEMMA GridCell ==
  ASSUME NEW w \in Nat, NEW h \in Nat, NEW i \in 1 .. w * h
  PROVE  (i - 1) % w \in 0 .. w - 1 /\ (i - 1) \div w \in 0 .. h - 1
<1>0. w # 0
  <2> SUFFICES ASSUME w = 0 PROVE FALSE
    OBVIOUS
  <2>1. w * h = 0
    OBVIOUS
  <2> QED BY <2>1
<1>1. PICK n \in Nat : n = i - 1
  OBVIOUS
<1>2. PICK q \in Int, r \in 0 .. w - 1 : q = n \div w /\ r = n % w /\ n = w * q + r
  BY <1>0, DivMod
<1>3. q >= 0
  BY <1>0, <1>2
<1>4. q < h
  <2> SUFFICES ASSUME h <= q PROVE FALSE
    BY <1>2
  <2>1. h * w <= q * w
    BY <1>2, Monotone
  <2>2. h * w = w * h /\ q * w = w * q /\ n < w * h
    BY <1>1, <1>2
  <2>3. w * q <= n
    <3>1. PICK e \in Int : e = w * q
      BY <1>2
    <3> QED BY <1>2, <3>1
  <2>4. PICK e \in Int, f \in Int : e = w * q /\ f = w * h
    BY <1>2
  <2> QED BY <2>1, <2>2, <2>3, <2>4
<1> QED BY <1>1, <1>2, <1>3, <1>4

(* The cell that a number counts.                                              *)
IsCell(i, w, a, b) == (i - 1) % w = a /\ (i - 1) \div w = b

(* Each cell is counted.                                                       *)
LEMMA CellGrid ==
  ASSUME NEW w \in Nat, NEW h \in Nat, NEW size \in Nat, size = w * h,
         NEW a \in 0 .. w - 1, NEW b \in 0 .. h - 1
  PROVE  \E i \in 1..size : IsCell(i, w, a, b)
<1>1. PICK n \in Nat : n = w * b + a
  OBVIOUS
<1>2. n % w = a /\ n \div w = b
  BY <1>1, RemainderIs
<1>3. (b + 1) * w <= h * w
  BY Monotone
<1>4. PICK e \in Nat, f \in Nat : e = w * b /\ f = w * h
  OBVIOUS
<1>5. e + w <= f
  BY <1>3, <1>4
<1>6. n + 1 \in 1..size /\ (n + 1) - 1 = n
  BY <1>1, <1>4, <1>5
<1> QED BY <1>2, <1>6 DEF IsCell

--------------------------------------------------------------------------------
(* What a drawing operation leaves: the points of C have the channels that are *)
(* wanted there, every other byte is as it was.                                *)
Lands(s, C, want, m) ==
  /\ m \in Memories(Len(s.pixels)) /\ m.sound
  /\ \A p \in Points(s), c \in 1..4 :
       m.pixels[Place(s, p) + c] =
         IF p \in C THEN want[p][c] ELSE s.pixels[Place(s, p) + c]
  /\ \A i \in DOMAIN s.pixels \ PixelBytes(s) : m.pixels[i] = s.pixels[i]

(* The writes tell the points of C what is wanted of them, no other point      *)
(* anything, and leave none of them out.                                       *)
TellOnly(s, C, want, len, ws) ==
  \A k \in 1..len : \A i \in Target(ws[k]) :
    \E p \in C, c \in 1..4 : i = Place(s, p) + c /\ Told(ws[k], i) = want[p][c]
TellAll(s, C, len, ws) ==
  \A p \in C, c \in 1..4 : \E k \in 1..len : Place(s, p) + c \in Target(ws[k])

(* So the writes of an operation leave what is wanted.                         *)
LEMMA DrawLands ==
  ASSUME NEW s, WellFormed(s), NEW C \in SUBSET Points(s), NEW want,
         NEW len \in Nat, NEW ws \in [1..len -> Writings],
         Fit(Len(s.pixels), len, ws), TellOnly(s, C, want, len, ws), TellAll(s, C, len, ws)
  PROVE  Lands(s, C, want, Written(s, ws))
<1>0. PICK n \in Nat : n = Len(s.pixels)
  BY Shape
<1>1. PICK px \in [1..n -> Octet] : n = Len(s.pixels) /\ px = s.pixels
  BY <1>0, Shape
<1> DEFINE cell(i) == CHOOSE x \in C \X (1..4) : i = Place(s, x[1]) + x[2]
           wanted == [i \in 1..n |-> want[cell(i)[1]][cell(i)[2]]]
<1>2. \A p \in Points(s), c \in 1..4 : Place(s, p) + c \in 1..n
  <2> TAKE p \in Points(s), c \in 1..4
  <2>1. Place(s, p) \in Nat /\ Place(s, p) + 4 <= n
    BY <1>1, PointInside
  <2> QED BY <2>1
<1>3. ASSUME NEW p \in C, NEW c \in 1..4 PROVE wanted[Place(s, p) + c] = want[p][c]
  <2>1. PICK i \in 1..n : i = Place(s, p) + c
    BY <1>2
  <2>2. PICK x \in C \X (1..4) : x = cell(i) /\ i = Place(s, x[1]) + x[2]
    <3>1. <<p, c>> \in C \X (1..4) /\ i = Place(s, <<p, c>>[1]) + <<p, c>>[2]
      BY <2>1
    <3> QED BY <3>1
  <2>3. x[1] = p /\ x[2] = c
    <3>1. PICK q \in C, e \in 1..4 : q = x[1] /\ e = x[2]
      OBVIOUS
    <3>2. q \in Points(s) /\ p \in Points(s) /\ Place(s, q) + e = Place(s, p) + c
      BY <2>1, <2>2, <3>1
    <3>3. q = p /\ e = c
      BY <3>2, PlacesApart
    <3> QED BY <3>1, <3>3
  <2> QED BY <2>1, <2>2, <2>3
<1> HIDE DEF wanted
<1>4. Agree(len, ws, wanted)
  <2> SUFFICES ASSUME NEW k \in 1..len, NEW i \in Target(ws[k]) PROVE Told(ws[k], i) = wanted[i]
    BY DEF Agree
  <2>1. PICK p \in C, c \in 1..4 : i = Place(s, p) + c /\ Told(ws[k], i) = want[p][c]
    BY DEF TellOnly
  <2> QED BY <1>3, <2>1
<1>5. Fit(n, len, ws)
  BY <1>1 DEF Fit
<1>6. s.pixels = px
  BY <1>1
<1>a. After(n, px, len, ws, wanted, Written(s, ws))
  BY <1>4, <1>5, <1>6, WritesLand
<1>7. /\ Written(s, ws) \in Memories(n) /\ Written(s, ws).sound
      /\ \A i \in 1..n :
           Written(s, ws).pixels[i] =
             IF \E k \in 1..len : i \in Target(ws[k]) THEN wanted[i] ELSE px[i]
  BY <1>a DEF After
<1>8. PICK m : m = Written(s, ws)
  OBVIOUS
<1>9. ASSUME NEW p \in Points(s), NEW c \in 1..4
      PROVE  m.pixels[Place(s, p) + c] =
               IF p \in C THEN want[p][c] ELSE s.pixels[Place(s, p) + c]
  <2>1. PICK i \in 1..n : i = Place(s, p) + c
    BY <1>2
  <2>2. CASE p \in C
    <3>1. \E k \in 1..len : i \in Target(ws[k])
      BY <2>1, <2>2 DEF TellAll
    <3> QED BY <1>3, <1>7, <1>8, <2>1, <2>2, <3>1
  <2>3. CASE p \notin C
    <3>1. ~\E k \in 1..len : i \in Target(ws[k])
      <4> SUFFICES ASSUME NEW k \in 1..len, i \in Target(ws[k]) PROVE FALSE
        OBVIOUS
      <4>1. PICK q \in C, e \in 1..4 : i = Place(s, q) + e
        BY DEF TellOnly
      <4>2. p = q
        <5>1. q \in Points(s) /\ Place(s, p) + c = Place(s, q) + e
          BY <2>1, <4>1
        <5> QED BY <5>1, PlacesApart
      <4> QED BY <2>3, <4>1, <4>2
    <3> QED BY <1>6, <1>7, <1>8, <2>1, <2>3, <3>1
  <2> QED BY <2>2, <2>3
<1>10. ASSUME NEW i \in DOMAIN s.pixels \ PixelBytes(s)
       PROVE  m.pixels[i] = s.pixels[i]
  <2>1. ~\E k \in 1..len : i \in Target(ws[k])
    <3> SUFFICES ASSUME NEW k \in 1..len, i \in Target(ws[k]) PROVE FALSE
      OBVIOUS
    <3>1. PICK q \in C, e \in 1..4 : i = Place(s, q) + e
      BY DEF TellOnly
    <3>2. q \in Points(s)
      OBVIOUS
    <3>3. PICK a \in Nat : a = Place(s, q)
      BY <3>2, PointInside
    <3>4. i \in Place(s, q) + 1 .. Place(s, q) + Bpp
      BY <3>1, <3>3 DEF Bpp
    <3> QED BY <3>2, <3>4 DEF PixelBytes
  <2>2. i \in 1..n
    BY <1>1
  <2> QED BY <1>6, <1>7, <1>8, <2>1, <2>2
<1> QED BY <1>1, <1>7, <1>8, <1>9, <1>10 DEF Lands

(* The bytes of a rectangle and of a copied one.                               *)
Region(s, x, y, w, h) == {p \in Points(s) : p[1] - x \in 0 .. w - 1 /\ p[2] - y \in 0 .. h - 1}

(* Four values, as a function.                                                 *)
LEMMA Quadruple ==
  ASSUME NEW S, NEW a \in S, NEW b \in S, NEW c \in S, NEW d \in S
  PROVE  <<a, b, c, d>> \in [1..4 -> S]
<1>1. PICK t : t = <<a, b, c, d>>
  OBVIOUS
<1>2. t = [i \in 1..4 |-> t[i]]
  BY <1>1
<1>3. \A i \in 1..4 : i = 1 \/ i = 2 \/ i = 3 \/ i = 4
  OBVIOUS
<1>4. \A i \in 1..4 : t[i] \in S
  BY <1>1, <1>3
<1> QED BY <1>1, <1>2, <1>4

(* Converting a colour twice gives it back, in each format.                    *)
LEMMA ChannelsTyped ==
  ASSUME NEW f, NEW color \in Color
  PROVE  /\ Channels(f, color) \in Color /\ Channels(f, Channels(f, color)) = color
         /\ Channels(f, color) \in Seq(Octet) /\ Len(Channels(f, color)) = 4
<1>1. color \in [1..4 -> Octet] /\ Color = [1..4 -> Octet]
  BY DEF Color, Octet
<1>2. color = <<color[1], color[2], color[3], color[4]>>
  BY <1>1
<1>3. <<color[3], color[2], color[1], color[4]>> \in Color
  BY <1>1, Quadruple
<1>4. PICK other \in Color : other = <<color[3], color[2], color[1], color[4]>>
  BY <1>3
<1>5. <<other[3], other[2], other[1], other[4]>> = color
  BY <1>2, <1>4
<1>6. Channels(f, color) \in Color /\ Channels(f, Channels(f, color)) = color
  BY <1>4, <1>5 DEF Channels
<1>7. PICK n \in Nat : n = 4
  OBVIOUS
<1>8. PICK k \in Color : k = Channels(f, color)
  BY <1>6
<1>9. k \in [1..n -> Octet]
  BY <1>1, <1>7
<1>10. k \in Seq(Octet) /\ Len(k) = n
  BY <1>9
<1> QED BY <1>6, <1>7, <1>8, <1>10

(* The rows of clear, set_pixel and fill_rect fill the rectangle and no more.  *)
LEMMA RectangleLands ==
  ASSUME NEW s, WellFormed(s), NEW x \in Nat, NEW y \in Nat, NEW w \in Nat, NEW h \in Nat,
         x + w <= s.width, y + h <= s.height, NEW color \in Color
  PROVE  Lands(s, Region(s, x, y, w, h),
               [p \in Points(s) |-> Channels(s.format, color)],
               Written(s, Rectangle(s, x, y, w, h, color)))
<1>1. PICK b : b = Channels(s.format, color)
  OBVIOUS
<1>2. b \in Color /\ b \in Seq(Octet) /\ Len(b) = 4
  BY <1>1, ChannelsTyped
<1> DEFINE C == Region(s, x, y, w, h)
           ws == Rectangle(s, x, y, w, h, color)
           want == [p \in Points(s) |-> b]
<1>3. PICK n \in Nat : n = w * h
  OBVIOUS
<1>w. PICK width \in Nat, height \in Nat : width = s.width /\ height = s.height
  BY Shape
<1>4. ASSUME NEW k \in 1..n
      PROVE  /\ <<x + ((k - 1) % w), y + ((k - 1) \div w)>> \in C
             /\ ws[k] = <<Place(s, <<x + ((k - 1) % w), y + ((k - 1) \div w)>>), b>>
  <2>1. PICK a \in 0 .. w - 1, e \in 0 .. h - 1 : a = (k - 1) % w /\ e = (k - 1) \div w
    BY <1>3, GridCell
  <2>2. x + a \in 0 .. width - 1 /\ y + e \in 0 .. height - 1 /\ x + 1 <= width
    BY <2>1, <1>w
  <2>3. <<x + a, y + e>> \in C
    BY <2>1, <2>2, <1>w DEF Region, Points
  <2>4. ws[k] = <<Offset(s, x, y + e) + a * 4, b>>
    BY <1>1, <1>3, <2>1 DEF Rectangle, Bpp
  <2>5. PICK v \in Nat : v = y + e /\ v < s.height
    BY <2>2, <1>w
  <2>6. Offset(s, x, v) = s.stride * v + x * 4
    <3>1. x <= s.width
      BY <1>w, <2>2
    <3>2. Place(s, <<x, v>>) = s.stride * v + x * 4 /\ Offset(s, x, v) = Place(s, <<x, v>>)
      BY <2>5, <3>1, RowBegins
    <3> QED BY <3>2
  <2>7. Place(s, <<x + a, v>>) = s.stride * v + (x + a) * 4
    <3>1. x + a \in Nat /\ x + a <= s.width
      BY <1>w, <2>2
    <3> QED BY <2>5, <3>1, RowBegins
  <2>8. s.stride * v + (x + a) * 4 = s.stride * v + x * 4 + a * 4
    <3>1. PICK z \in Int : z = s.stride * v
      BY <2>5, Shape
    <3> QED BY <3>1, <2>1
  <2> QED BY <2>1, <2>3, <2>4, <2>5, <2>6, <2>7, <2>8
<1>5. C \in SUBSET Points(s)
  BY DEF Region
<1>6. ws \in [1..n -> Writings]
  <2>1. \A k \in 1..n : ws[k] \in Writings
    <3> TAKE k \in 1..n
    <3>1. PICK p \in C : ws[k] = <<Place(s, p), b>>
      BY <1>4
    <3>2. Place(s, p) \in Nat
      BY <1>5, PointInside
    <3> QED BY <1>2, <3>1, <3>2 DEF Writings
  <2> QED BY <1>3, <2>1 DEF Rectangle
<1>7. ASSUME NEW k \in 1..n
      PROVE  \E p \in C : ws[k] = <<Place(s, p), b>> /\ Place(s, p) \in Nat /\ Place(s, p) + 4 <= Len(s.pixels)
  <2>1. PICK p \in C : ws[k] = <<Place(s, p), b>>
    BY <1>4
  <2> QED BY <1>5, <2>1, PointInside
<1>8. \A p \in C : \E k \in 1..n : ws[k] = <<Place(s, p), b>>
  <2> TAKE p \in C
  <2>1. p[1] \in Nat /\ p[2] \in Nat /\ p = <<p[1], p[2]>>
    BY <1>5, PointInside
  <2>2. PICK a \in 0 .. w - 1, e \in 0 .. h - 1 : a = p[1] - x /\ e = p[2] - y
    BY DEF Region
  <2>3. PICK k \in 1..n : (k - 1) % w = a /\ (k - 1) \div w = e
    <3>1. n = w * h
      BY <1>3
    <3>2. \E k \in 1..n : IsCell(k, w, a, e)
      BY <3>1, CellGrid
    <3> QED BY <3>2 DEF IsCell
  <2>4. x + a = p[1] /\ y + e = p[2]
    BY <2>1, <2>2
  <2> QED BY <1>4, <2>1, <2>3, <2>4
<1> HIDE DEF ws, C
<1>9. Fit(Len(s.pixels), n, ws)
  <2> SUFFICES ASSUME NEW k \in 1..n PROVE ws[k][1] + Len(ws[k][2]) <= Len(s.pixels)
    BY DEF Fit
  <2>1. PICK p \in C : ws[k] = <<Place(s, p), b>> /\ Place(s, p) + 4 <= Len(s.pixels)
    BY <1>7
  <2>2. ws[k][1] = Place(s, p) /\ ws[k][2] = b
    BY <2>1
  <2> QED BY <1>2, <2>1, <2>2
<1>10. TellOnly(s, C, want, n, ws)
  <2> SUFFICES ASSUME NEW k \in 1..n, NEW i \in Target(ws[k])
               PROVE  \E p \in C, c \in 1..4 : i = Place(s, p) + c /\ Told(ws[k], i) = want[p][c]
    BY DEF TellOnly
  <2>1. PICK p \in C : ws[k] = <<Place(s, p), b>> /\ Place(s, p) \in Nat
    BY <1>7
  <2>0. ws[k][1] = Place(s, p) /\ ws[k][2] = b
    BY <2>1
  <2>2. i \in Place(s, p) + 1 .. Place(s, p) + 4 /\ Told(ws[k], i) = b[i - Place(s, p)]
    BY <1>2, <2>0 DEF Target, Told
  <2>3. PICK c \in 1..4 : i = Place(s, p) + c /\ i - Place(s, p) = c
    BY <2>1, <2>2
  <2>4. want[p] = b
    BY <1>5
  <2> QED BY <2>2, <2>3, <2>4
<1>11. TellAll(s, C, n, ws)
  <2> SUFFICES ASSUME NEW p \in C, NEW c \in 1..4
               PROVE  \E k \in 1..n : Place(s, p) + c \in Target(ws[k])
    BY DEF TellAll
  <2>1. PICK k \in 1..n : ws[k] = <<Place(s, p), b>>
    BY <1>8
  <2>2. Place(s, p) \in Nat
    BY <1>5, PointInside
  <2>3. Target(ws[k]) = Place(s, p) + 1 .. Place(s, p) + 4
    <3>1. ws[k][1] = Place(s, p) /\ ws[k][2] = b
      BY <2>1
    <3> QED BY <1>2, <3>1 DEF Target
  <2> QED BY <2>2, <2>3
<1>12. Lands(s, C, want, Written(s, ws))
  <2> HIDE DEF want
  <2> QED BY <1>5, <1>6, <1>9, <1>10, <1>11, DrawLands
<1> QED BY <1>1, <1>12 DEF ws, C

(* Places in a row.                                                            *)
LEMMA PlaceShift ==
  ASSUME NEW s, WellFormed(s), NEW x \in Nat, NEW y \in Nat, NEW a \in Nat
  PROVE  Place(s, <<x + a, y>>) = Place(s, <<x, y>>) + a * 4
<1>1. PICK n \in Int : n = y * s.stride
  BY Shape
<1>2. Place(s, <<x + a, y>>) = n + (x + a) * 4 /\ Place(s, <<x, y>>) = n + x * 4
  BY <1>1 DEF Place, Bpp
<1> QED BY <1>2

(* A part of the bytes.                                                        *)
LEMMA Slice ==
  ASSUME NEW q \in Seq(Octet), NEW from \in Nat, NEW n \in Nat, from + n <= Len(q)
  PROVE  /\ SubSeq(q, from + 1, from + n) \in Seq(Octet)
         /\ Len(SubSeq(q, from + 1, from + n)) = n
         /\ \A e \in 1..n : SubSeq(q, from + 1, from + n)[e] = q[from + e]
<1>1. \A k \in from + 1 .. from + n : q[k] \in Octet
  OBVIOUS
<1>2. SubSeq(q, from + 1, from + n) \in Seq(Octet)
  BY <1>1
<1>3. Len(SubSeq(q, from + 1, from + n)) = n
  OBVIOUS
<1>4. \A e \in 1..n : SubSeq(q, from + 1, from + n)[e] = q[from + e]
  OBVIOUS
<1> QED BY <1>2, <1>3, <1>4

(* What blit wants at a point of the target.                                   *)
Copied(s, d) ==
  [p \in Points(s) |->
     [c \in 1..4 |-> d.src.pixels[Place(d.src, <<p[1] - d.x + d.srcX, p[2] - d.y + d.srcY>>) + c]]]

(* All rows of a copied rectangle.                                             *)
BlitRows(s, d) == [j \in 1 .. d.h |-> BlitRow(s, d, j - 1)]

(* A blit that is not refused.                                                 *)
BlitFits(s, d) ==
  /\ WellFormed(s) /\ WellFormed(d.src)
  /\ d.x \in Nat /\ d.y \in Nat /\ d.srcX \in Nat /\ d.srcY \in Nat /\ d.w \in Nat /\ d.h \in Nat
  /\ d.x + d.w <= s.width /\ d.y + d.h <= s.height
  /\ d.srcX + d.w <= d.src.width /\ d.srcY + d.h <= d.src.height

(* A row of blit is read inside of its source and written inside of the        *)
(* target.                                                                     *)
LEMMA BlitRowIs ==
  ASSUME NEW s, NEW d, BlitFits(s, d),
         NEW j \in 0 .. d.h - 1
  PROVE  \E bytes \in Seq(Octet) :
           /\ BlitRow(s, d, j) = <<Place(s, <<d.x, d.y + j>>), bytes>>
           /\ Len(bytes) = d.w * 4
           /\ \A e \in 1 .. d.w * 4 :
                bytes[e] = d.src.pixels[Place(d.src, <<d.srcX, d.srcY + j>>) + e]
           /\ Place(s, <<d.x, d.y + j>>) \in Nat
           /\ Place(s, <<d.x, d.y + j>>) + d.w * 4 <= Len(s.pixels)
<1>1. PICK x \in Nat, y \in Nat, u \in Nat, v \in Nat, w \in Nat, h \in Nat :
        x = d.x /\ y = d.y /\ u = d.srcX /\ v = d.srcY /\ w = d.w /\ h = d.h
  BY DEF BlitFits
<1>2. PICK t : t = d.src /\ WellFormed(t) /\ WellFormed(s)
  BY DEF BlitFits
<1>3. x + w <= s.width /\ y + h <= s.height /\ u + w <= t.width /\ v + h <= t.height
  BY <1>1, <1>2 DEF BlitFits
<1>4. PICK a \in Nat, b \in Nat : a = y + j /\ b = v + j
  BY <1>1
<1>5. s.height \in Nat /\ t.height \in Nat /\ s.height < U32 /\ t.height < U32 /\ U32 \in Nat
  BY <1>2, Shape
<1>6. a < s.height /\ b < t.height
  BY <1>1, <1>3, <1>4, <1>5
<1>7. a % U32 = a /\ b % U32 = b
  <2>1. a < U32 /\ b < U32 /\ U32 \in Nat
    BY <1>5, <1>6
  <2> QED BY <2>1
<1>8. /\ Place(s, <<x, a>>) \in Nat /\ Place(s, <<x, a>>) + w * 4 <= Len(s.pixels)
      /\ Offset(s, x, a) = Place(s, <<x, a>>)
  BY <1>2, <1>3, <1>6, RowInside
<1>9. /\ Place(t, <<u, b>>) \in Nat /\ Place(t, <<u, b>>) + w * 4 <= Len(t.pixels)
      /\ Offset(t, u, b) = Place(t, <<u, b>>)
  <2>1. u + w <= t.width /\ b < t.height /\ WellFormed(t)
    BY <1>2, <1>3, <1>6
  <2>2. /\ Place(t, <<u, b>>) \in Nat /\ Place(t, <<u, b>>) = t.stride * b + u * 4
        /\ Place(t, <<u, b>>) + w * 4 <= Len(t.pixels)
        /\ Offset(t, u, b) = Place(t, <<u, b>>)
    BY <2>1, RowInside
  <2> QED BY <2>2
<1>10. PICK from \in Nat : from = Place(t, <<u, b>>)
  BY <1>9
<1>11. PICK n \in Nat : n = w * 4
  OBVIOUS
<1>12. PICK bytes : bytes = SubSeq(t.pixels, from + 1, from + n)
  OBVIOUS
<1>13. t.pixels \in Seq(Octet) /\ from + n <= Len(t.pixels)
  BY <1>2, <1>9, <1>10, <1>11, Shape
<1>14. bytes \in Seq(Octet) /\ Len(bytes) = n /\ \A e \in 1..n : bytes[e] = t.pixels[from + e]
  <2>1. PICK q \in Seq(Octet) : q = t.pixels /\ from + n <= Len(q)
    BY <1>13
  <2>2. /\ SubSeq(q, from + 1, from + n) \in Seq(Octet)
        /\ Len(SubSeq(q, from + 1, from + n)) = n
        /\ \A e \in 1..n : SubSeq(q, from + 1, from + n)[e] = q[from + e]
    BY <2>1, Slice
  <2> QED BY <1>12, <2>1, <2>2
<1>15. BlitRow(s, d, j) = <<Place(s, <<x, a>>), bytes>>
  <2>1. Offset(d.src, d.srcX, (d.srcY + j) % U32) = from
    BY <1>1, <1>2, <1>4, <1>7, <1>9, <1>10
  <2>2. Offset(s, d.x, (d.y + j) % U32) = Place(s, <<x, a>>)
    BY <1>1, <1>4, <1>7, <1>8
  <2>3. d.w * Bpp = n
    BY <1>1, <1>11 DEF Bpp
  <2>4. from + n <= Len(d.src.pixels)
    BY <1>2, <1>13
  <2>5. SubSeq(d.src.pixels, from + 1, from + n) = bytes
    BY <1>2, <1>12
  <2> QED BY <2>1, <2>2, <2>3, <2>4, <2>5 DEF BlitRow
<1>16. /\ BlitRow(s, d, j) = <<Place(s, <<d.x, d.y + j>>), bytes>>
       /\ Len(bytes) = d.w * 4
       /\ Place(s, <<d.x, d.y + j>>) \in Nat
       /\ Place(s, <<d.x, d.y + j>>) + d.w * 4 <= Len(s.pixels)
  BY <1>1, <1>4, <1>8, <1>11, <1>14, <1>15
<1>17. \A e \in 1 .. d.w * 4 :
                bytes[e] = d.src.pixels[Place(d.src, <<d.srcX, d.srcY + j>>) + e]
  BY <1>1, <1>2, <1>4, <1>10, <1>11, <1>14
<1> QED BY <1>14, <1>16, <1>17

(* The rows of blit fill the rectangle with the one of the source and no more. *)
LEMMA BlitLands ==
  ASSUME NEW s, NEW d, BlitFits(s, d)
  PROVE  Lands(s, Region(s, d.x, d.y, d.w, d.h), Copied(s, d), Written(s, BlitRows(s, d)))
<1>1. PICK x \in Nat, y \in Nat, u \in Nat, v \in Nat, w \in Nat, h \in Nat :
        x = d.x /\ y = d.y /\ u = d.srcX /\ v = d.srcY /\ w = d.w /\ h = d.h
  BY DEF BlitFits
<1>2. PICK t : t = d.src /\ WellFormed(t) /\ WellFormed(s)
  BY DEF BlitFits
<1>3. x + w <= s.width /\ y + h <= s.height /\ u + w <= t.width /\ v + h <= t.height
  BY <1>1, <1>2 DEF BlitFits
<1>4. PICK ws : ws = BlitRows(s, d)
  OBVIOUS
<1>5. PICK C \in SUBSET Points(s) : C = Region(s, x, y, w, h)
  BY DEF Region
<1>6. PICK want : want = Copied(s, d)
  OBVIOUS
<1>w. PICK width \in Nat, height \in Nat : width = s.width /\ height = s.height
  BY <1>2, Shape
<1>7. ASSUME NEW k \in 1..h
      PROVE  \E bytes \in Seq(Octet) :
           /\ ws[k] = <<Place(s, <<x, y + (k - 1)>>), bytes>>
           /\ Len(bytes) = w * 4
           /\ \A e \in 1 .. w * 4 :
                bytes[e] = t.pixels[Place(t, <<u, v + (k - 1)>>) + e]
           /\ Place(s, <<x, y + (k - 1)>>) \in Nat
           /\ Place(s, <<x, y + (k - 1)>>) + w * 4 <= Len(s.pixels)
  <2>1. PICK j \in 0 .. d.h - 1 : j = k - 1
    BY <1>1
  <2>2. ws[k] = BlitRow(s, d, j)
    BY <1>1, <1>4, <2>1 DEF BlitRows
  <2>3. PICK bytes \in Seq(Octet) :
           /\ BlitRow(s, d, j) = <<Place(s, <<d.x, d.y + j>>), bytes>>
           /\ Len(bytes) = d.w * 4
           /\ \A e \in 1 .. d.w * 4 :
                bytes[e] = d.src.pixels[Place(d.src, <<d.srcX, d.srcY + j>>) + e]
           /\ Place(s, <<d.x, d.y + j>>) \in Nat
           /\ Place(s, <<d.x, d.y + j>>) + d.w * 4 <= Len(s.pixels)
    BY BlitRowIs
  <2> QED BY <1>1, <1>2, <2>1, <2>2, <2>3
(* The point and the channel of byte e of row k.                               *)
<1>8. ASSUME NEW k \in 1..h, NEW a \in 0 .. w - 1, NEW c \in 1..4
      PROVE  /\ <<x + a, y + (k - 1)>> \in C
             /\ Place(s, <<x + a, y + (k - 1)>>) + c = Place(s, <<x, y + (k - 1)>>) + (4 * a + c)
             /\ want[<<x + a, y + (k - 1)>>][c] =
                  t.pixels[Place(t, <<u, v + (k - 1)>>) + (4 * a + c)]
  <2>1. PICK j \in Nat, b \in Nat, g \in Nat : j = k - 1 /\ b = y + j /\ g = v + j
    OBVIOUS
  <2>2. b \in 0 .. height - 1 /\ x + a \in 0 .. width - 1
    BY <1>3, <1>w, <2>1
  <2>3. <<x + a, b>> \in C /\ <<x + a, b>> \in Points(s)
    BY <1>5, <1>w, <2>1, <2>2 DEF Region, Points
  <2>4. PICK m \in Nat : m = Place(s, <<x, b>>)
    <3>1. x <= s.width /\ b < s.height
      BY <1>w, <2>2
    <3> QED BY <1>2, <3>1, RowBegins
  <2>5. Place(s, <<x + a, b>>) = m + a * 4
    BY <1>2, <2>4, PlaceShift
  <2>6. Place(s, <<x + a, b>>) + c = Place(s, <<x, b>>) + (4 * a + c)
    BY <2>4, <2>5
  <2>7. PICK n \in Nat : n = Place(t, <<u, g>>)
    <3>1. PICK tw \in Nat, th \in Nat : tw = t.width /\ th = t.height
      BY <1>2, Shape
    <3>2. u <= t.width /\ g < t.height
      BY <1>3, <2>1, <3>1
    <3> QED BY <1>2, <3>2, RowBegins
  <2>8. Place(t, <<u + a, g>>) = n + a * 4
    BY <1>2, <2>7, PlaceShift
  <2>9. PICK p : p = <<x + a, b>>
    OBVIOUS
  <2>10. p[1] - d.x + d.srcX = u + a /\ p[2] - d.y + d.srcY = g
    BY <1>1, <2>1, <2>9
  <2>11. want[p][c] = t.pixels[Place(t, <<u + a, g>>) + c]
    BY <1>2, <1>6, <2>3, <2>9, <2>10 DEF Copied
  <2>12. Place(t, <<u + a, g>>) + c = n + (4 * a + c)
    BY <2>8
  <2> QED BY <2>1, <2>3, <2>6, <2>7, <2>9, <2>11, <2>12
<1>9. ws \in [1..h -> Writings]
  <2>1. \A k \in 1..h : ws[k] \in Writings
    <3> TAKE k \in 1..h
    <3>1. PICK bytes \in Seq(Octet) :
           /\ ws[k] = <<Place(s, <<x, y + (k - 1)>>), bytes>>
           /\ Place(s, <<x, y + (k - 1)>>) \in Nat
      BY <1>7
    <3> QED BY <3>1 DEF Writings
  <2> QED BY <1>1, <1>4, <2>1 DEF BlitRows
<1>10. Fit(Len(s.pixels), h, ws)
  <2> SUFFICES ASSUME NEW k \in 1..h PROVE ws[k][1] + Len(ws[k][2]) <= Len(s.pixels)
    BY DEF Fit
  <2>1. PICK bytes \in Seq(Octet) :
           /\ ws[k] = <<Place(s, <<x, y + (k - 1)>>), bytes>> /\ Len(bytes) = w * 4
           /\ Place(s, <<x, y + (k - 1)>>) + w * 4 <= Len(s.pixels)
    BY <1>7
  <2>2. ws[k][1] = Place(s, <<x, y + (k - 1)>>) /\ ws[k][2] = bytes
    BY <2>1
  <2> QED BY <2>1, <2>2
<1>11. TellOnly(s, C, want, h, ws)
  <2> SUFFICES ASSUME NEW k \in 1..h, NEW i \in Target(ws[k])
               PROVE  \E p \in C, c \in 1..4 : i = Place(s, p) + c /\ Told(ws[k], i) = want[p][c]
    BY DEF TellOnly
  <2>1. PICK bytes \in Seq(Octet) :
           /\ ws[k] = <<Place(s, <<x, y + (k - 1)>>), bytes>> /\ Len(bytes) = w * 4
           /\ \A e \in 1 .. w * 4 :
                bytes[e] = t.pixels[Place(t, <<u, v + (k - 1)>>) + e]
           /\ Place(s, <<x, y + (k - 1)>>) \in Nat
    BY <1>7
  <2>2. ws[k][1] = Place(s, <<x, y + (k - 1)>>) /\ ws[k][2] = bytes
    BY <2>1
  <2>3. PICK m \in Nat : m = Place(s, <<x, y + (k - 1)>>)
    BY <2>1
  <2>4. i \in m + 1 .. m + w * 4 /\ Told(ws[k], i) = bytes[i - m]
    BY <2>1, <2>2, <2>3 DEF Target, Told
  <2>5. PICK e \in 1 .. w * 4 : i = m + e /\ e = i - m
    BY <2>4
  <2>6. PICK a \in 0 .. w - 1, c \in 1..4 : e = 4 * a + c
    <3>1. PICK a \in Int, r \in 0 .. 4 - 1 : a = (e - 1) \div 4 /\ e - 1 = 4 * a + r
      BY DivMod
    <3>2. a \in 0 .. w - 1 /\ r + 1 \in 1..4 /\ e = 4 * a + (r + 1)
      BY <3>1
    <3> QED BY <3>2
  <2>7. PICK p \in C : p = <<x + a, y + (k - 1)>>
    BY <1>8
  <2>8. Place(s, p) + c = m + e /\ want[p][c] = t.pixels[Place(t, <<u, v + (k - 1)>>) + e]
    BY <1>8, <2>3, <2>6, <2>7
  <2>9. Told(ws[k], i) = want[p][c]
    BY <2>1, <2>4, <2>5, <2>8
  <2> QED BY <2>5, <2>8, <2>9
<1>12. TellAll(s, C, h, ws)
  <2> SUFFICES ASSUME NEW p \in C, NEW c \in 1..4
               PROVE  \E k \in 1..h : Place(s, p) + c \in Target(ws[k])
    BY DEF TellAll
  <2>1. p[1] \in Nat /\ p[2] \in Nat /\ p = <<p[1], p[2]>>
    BY <1>2, PointInside
  <2>2. PICK a \in 0 .. w - 1, j \in 0 .. h - 1 : a = p[1] - x /\ j = p[2] - y
    BY <1>5 DEF Region
  <2>3. PICK k \in 1..h : k - 1 = j
    <3>1. j + 1 \in 1..h /\ (j + 1) - 1 = j
      OBVIOUS
    <3> QED BY <3>1
  <2>4. p = <<x + a, y + (k - 1)>>
    BY <2>1, <2>2, <2>3
  <2>5. PICK bytes \in Seq(Octet) :
           /\ ws[k] = <<Place(s, <<x, y + (k - 1)>>), bytes>> /\ Len(bytes) = w * 4
           /\ Place(s, <<x, y + (k - 1)>>) \in Nat
    BY <1>7
  <2>6. PICK m \in Nat : m = Place(s, <<x, y + (k - 1)>>)
    BY <2>5
  <2>7. ws[k][1] = m /\ ws[k][2] = bytes
    BY <2>5, <2>6
  <2>8. Place(s, p) + c = m + (4 * a + c)
    BY <1>8, <2>4, <2>6
  <2>9. m + (4 * a + c) \in m + 1 .. m + w * 4
    OBVIOUS
  <2> QED BY <2>5, <2>7, <2>8, <2>9 DEF Target
<1>13. Lands(s, C, want, Written(s, ws))
  BY <1>2, <1>9, <1>10, <1>11, <1>12, DrawLands
<1> QED BY <1>1, <1>4, <1>5, <1>6, <1>13

(* Four bytes in order.                                                        *)
LEMMA FourBytes ==
  ASSUME NEW n \in Nat, NEW q \in [1..n -> Octet], NEW k \in Nat, k + 4 <= n
  PROVE  SubSeq(q, k + 1, k + 4) \in Color /\ \A c \in 1..4 : SubSeq(q, k + 1, k + 4)[c] = q[k + c]
<1>1. PICK m \in Nat : m = 4
  OBVIOUS
<1>2. q \in Seq(Octet) /\ Len(q) = n /\ k + m <= n
  BY <1>1
<1>3. /\ SubSeq(q, k + 1, k + m) \in Seq(Octet)
      /\ Len(SubSeq(q, k + 1, k + m)) = m
      /\ \A e \in 1..m : SubSeq(q, k + 1, k + m)[e] = q[k + e]
  BY <1>2, Slice
<1>4. PICK t : t = SubSeq(q, k + 1, k + m)
  OBVIOUS
<1>5. t \in [1..m -> Octet]
  <2>1. t \in Seq(Octet) /\ Len(t) = m
    BY <1>3, <1>4
  <2>2. t \in [1..Len(t) -> Octet]
    BY <2>1
  <2> QED BY <2>1, <2>2
<1>6. t \in Color
  BY <1>1, <1>5 DEF Color, Octet
<1> QED BY <1>1, <1>3, <1>4, <1>6

(* The four bytes of a point.                                                  *)
LEMMA BytesOfPoint ==
  ASSUME NEW s, WellFormed(s), NEW p \in Points(s)
  PROVE  /\ SubSeq(s.pixels, Place(s, p) + 1, Place(s, p) + Bpp) \in Color
         /\ \A c \in 1..4 : SubSeq(s.pixels, Place(s, p) + 1, Place(s, p) + Bpp)[c] = s.pixels[Place(s, p) + c]
<1>1. PICK n \in Nat : n = Len(s.pixels)
  BY Shape
<1>2. PICK q \in [1..n -> Octet] : q = s.pixels
  BY <1>1, Shape
<1>3. PICK k \in Nat : k = Place(s, p) /\ k + 4 <= n
  BY <1>1, PointInside
<1>4. SubSeq(q, k + 1, k + 4) \in Color /\ \A c \in 1..4 : SubSeq(q, k + 1, k + 4)[c] = q[k + c]
  BY <1>3, FourBytes
<1> QED BY <1>2, <1>3, <1>4 DEF Bpp

(* Colours are known by their channels.                                        *)
LEMMA SameColor ==
  ASSUME NEW a \in Color, NEW b \in Color, \A c \in 1..4 : a[c] = b[c]
  PROVE  a = b
BY DEF Color

(* What is seen of a surface with other bytes.                                 *)
Redrawn(s, px) == [s EXCEPT !.pixels = px, !.dirty = TRUE]

(* Surfaces that differ in their bytes and their flag at most.                 *)
Alike(r, s) ==
  /\ r.width = s.width /\ r.height = s.height /\ r.stride = s.stride /\ r.format = s.format
  /\ Points(r) = Points(s) /\ Len(r.pixels) = Len(s.pixels)
  /\ \A p : Place(r, p) = Place(s, p)
  /\ \A x, y : Offset(r, x, y) = Offset(s, x, y)

(* Other bytes, as many, leave a surface formed.                               *)
LEMMA RedrawnFormed ==
  ASSUME NEW s, WellFormed(s), NEW px \in [1..Len(s.pixels) -> Octet],
         NEW r, r = [s EXCEPT !.pixels = px, !.dirty = r.dirty], r.dirty \in BOOLEAN
  PROVE  /\ WellFormed(r) /\ r.pixels = px
         /\ Alike(r, s)
<1>1. r = [s EXCEPT !.pixels = px, !.dirty = r.dirty] /\ r.dirty \in BOOLEAN
  OBVIOUS
<1>2. s \in [width : Coordinate, height : Coordinate, stride : Coordinate,
             format : {"rgba8", "bgra8", "bgrx8"}, pixels : Seq(0..255), dirty : BOOLEAN]
  BY DEF WellFormed
<1>3. px \in Seq(0..255) /\ Len(px) = Len(s.pixels)
  <2>1. PICK n \in Nat : n = Len(s.pixels)
    BY Shape
  <2>2. px \in [1..n -> Octet]
    BY <2>1
  <2>3. px \in Seq(Octet) /\ Len(px) = n
    BY <2>2
  <2> QED BY <2>1, <2>3 DEF Octet
<1>4. /\ r.pixels = px
      /\ r.width = s.width /\ r.height = s.height /\ r.stride = s.stride /\ r.format = s.format
      /\ r \in [width : Coordinate, height : Coordinate, stride : Coordinate,
             format : {"rgba8", "bgra8", "bgrx8"}, pixels : Seq(0..255), dirty : BOOLEAN]
  BY <1>1, <1>2, <1>3
<1>5. WellFormed(r)
  BY <1>3, <1>4 DEF WellFormed
<1>6. Points(r) = Points(s)
  BY <1>4 DEF Points
<1>7. \A p : Place(r, p) = Place(s, p)
  BY <1>4 DEF Place
<1>8. \A x, y : Offset(r, x, y) = Offset(s, x, y)
  BY <1>4 DEF Offset
<1>9. Len(r.pixels) = Len(s.pixels)
  BY <1>3, <1>4
<1> QED BY <1>4, <1>5, <1>6, <1>7, <1>8, <1>9 DEF Alike

(* A point of which the bytes are told, and one of which they are not.         *)
LEMMA ImageTold ==
  ASSUME NEW s, WellFormed(s), NEW p \in Points(s), NEW color \in Color,
         \A c \in 1..4 : s.pixels[Place(s, p) + c] = color[c]
  PROVE  Image(s)[p] = Channels(s.format, color)
<1>1. PICK b : b = SubSeq(s.pixels, Place(s, p) + 1, Place(s, p) + Bpp)
  OBVIOUS
<1>2. b \in Color /\ \A c \in 1..4 : b[c] = color[c]
  BY <1>1, BytesOfPoint
<1>3. b = color
  BY <1>2, SameColor
<1> QED BY <1>1, <1>3 DEF Image

(* A point of which the bytes are as they were looks as it did.                *)
LEMMA ImageKept ==
  ASSUME NEW s, WellFormed(s), NEW r, WellFormed(r), NEW p \in Points(s),
         Points(r) = Points(s), r.format = s.format, Place(r, p) = Place(s, p),
         \A c \in 1..4 : r.pixels[Place(s, p) + c] = s.pixels[Place(s, p) + c]
  PROVE  Image(r)[p] = Image(s)[p]
<1>1. PICK b : b = SubSeq(s.pixels, Place(s, p) + 1, Place(s, p) + Bpp)
  OBVIOUS
<1>2. b \in Color /\ \A c \in 1..4 : b[c] = s.pixels[Place(s, p) + c]
  BY <1>1, BytesOfPoint
<1>3. p \in Points(r) /\ \A c \in 1..4 : r.pixels[Place(r, p) + c] = b[c]
  BY <1>2
<1>4. Image(r)[p] = Channels(r.format, b)
  BY <1>2, <1>3, ImageTold
<1> QED BY <1>1, <1>4 DEF Image

(* get_pixel returns what is seen.                                             *)
LEMMA PixelIsImage ==
  ASSUME NEW s, WellFormed(s), NEW p \in Points(s)
  PROVE  Pixel(s, p[1], p[2]) = Image(s)[p]
<1>1. Offset(s, p[1], p[2]) = Place(s, p)
  BY PointInside
<1> QED BY <1>1 DEF Pixel, Image

(* What was written is what is seen.                                           *)
LEMMA LandsShown ==
  ASSUME NEW s, WellFormed(s), NEW C, NEW want, NEW m, Lands(s, C, want, m),
         \A p \in C : want[p] \in Color
  PROVE  /\ WellFormed(Redrawn(s, m.pixels))
         /\ \A p \in Points(s) :
              Image(Redrawn(s, m.pixels))[p] =
                IF p \in C THEN Channels(s.format, want[p]) ELSE Image(s)[p]
<1>1. PICK px \in [1..Len(s.pixels) -> Octet] : px = m.pixels
  BY DEF Lands, Memories
<1>2. PICK r : r = Redrawn(s, px)
  OBVIOUS
<1>3. /\ WellFormed(r) /\ r.pixels = px /\ r.format = s.format /\ Points(r) = Points(s)
      /\ \A p : Place(r, p) = Place(s, p)
  <2>0. s \in [width : Coordinate, height : Coordinate, stride : Coordinate,
             format : {"rgba8", "bgra8", "bgrx8"}, pixels : Seq(0..255), dirty : BOOLEAN]
    BY DEF WellFormed
  <2>1. r = [s EXCEPT !.pixels = px, !.dirty = TRUE]
    BY <1>2 DEF Redrawn
  <2>2. r = [s EXCEPT !.pixels = px, !.dirty = r.dirty] /\ r.dirty \in BOOLEAN
    BY <2>0, <2>1
  <2>3. /\ WellFormed(r) /\ r.pixels = px
         /\ Alike(r, s)
    BY <2>2, RedrawnFormed
  <2> QED BY <2>3 DEF Alike
<1>4. ASSUME NEW p \in Points(s)
      PROVE  Image(r)[p] = IF p \in C THEN Channels(s.format, want[p]) ELSE Image(s)[p]
  <2>1. \A c \in 1..4 : r.pixels[Place(s, p) + c] =
          IF p \in C THEN want[p][c] ELSE s.pixels[Place(s, p) + c]
    BY <1>1, <1>3 DEF Lands
  <2>2. CASE p \in C
    <3>1. want[p] \in Color /\ p \in Points(r)
      BY <1>3, <2>2
    <3>2. \A c \in 1..4 : r.pixels[Place(r, p) + c] = want[p][c]
      BY <1>3, <2>1, <2>2
    <3>3. Image(r)[p] = Channels(r.format, want[p])
      BY <1>3, <3>1, <3>2, ImageTold
    <3> QED BY <1>3, <2>2, <3>3
  <2>3. CASE p \notin C
    <3>1. \A c \in 1..4 : r.pixels[Place(s, p) + c] = s.pixels[Place(s, p) + c]
      BY <2>1, <2>3
    <3>2. Place(r, p) = Place(s, p)
      BY <1>3
    <3>3. Image(r)[p] = Image(s)[p]
      BY <1>3, <3>1, <3>2, ImageKept
    <3> QED BY <2>3, <3>3
  <2> QED BY <2>2, <2>3
<1> QED BY <1>1, <1>2, <1>3, <1>4

(* Every write of an operation is of bytes.                                    *)
LEMMA RectangleTyped ==
  ASSUME NEW s, WellFormed(s), NEW x \in Nat, NEW y \in Nat, NEW w \in Nat, NEW h \in Nat,
         NEW color \in Color
  PROVE  \E len \in Nat : Rectangle(s, x, y, w, h, color) \in [1..len -> Writings]
<1>1. PICK b : b = Channels(s.format, color)
  OBVIOUS
<1>2. b \in Seq(Octet)
  BY <1>1, ChannelsTyped
<1>3. PICK n \in Nat : n = w * h
  OBVIOUS
<1>4. ASSUME NEW i \in 1..n
      PROVE  <<Offset(s, x, y + ((i - 1) \div w)) + ((i - 1) % w) * Bpp, b>> \in Writings
  <2>1. PICK a \in 0 .. w - 1, e \in 0 .. h - 1 : a = (i - 1) % w /\ e = (i - 1) \div w
    BY <1>3, GridCell
  <2>2. PICK z \in Int : z = (y + e) * s.stride + x * Bpp
    BY Shape DEF Bpp
  <2>3. U32 \in Nat \ {0}
    BY Shape
  <2>4. z % U32 \in Nat
    BY <2>2, <2>3, DivMod
  <2>5. Offset(s, x, y + e) \in Nat
    BY <2>2, <2>4 DEF Offset
  <2>6. Offset(s, x, y + e) + a * Bpp \in Nat
    BY <2>5 DEF Bpp
  <2> QED BY <1>2, <2>1, <2>6 DEF Writings
<1>5. Rectangle(s, x, y, w, h, color) \in [1..n -> Writings]
  BY <1>1, <1>3, <1>4 DEF Rectangle
<1> QED BY <1>5

(* So are those of a copied rectangle,                                         *)
LEMMA BlitTyped ==
  ASSUME NEW s, WellFormed(s), NEW d, WellFormed(d.src), d.x \in Nat, d.y \in Nat,
         d.srcX \in Nat, d.srcY \in Nat, d.w \in Nat, d.h \in Nat
  PROVE  BlitRows(s, d) \in [1..d.h -> Writings]
<1>1. U32 \in Nat \ {0}
  BY Shape
<1>2. ASSUME NEW t, WellFormed(t), NEW x \in Nat, NEW y \in Nat
      PROVE  Offset(t, x, y) \in Nat
  <2>0. PICK st \in Nat : st = t.stride
    BY <1>2, Shape
  <2>1. PICK z \in Int : z = y * t.stride + x * Bpp
    BY <2>0 DEF Bpp
  <2>2. z % U32 \in Nat
    BY <1>1, <2>1, DivMod
  <2> QED BY <2>1, <2>2 DEF Offset
<1>3. ASSUME NEW j \in Nat PROVE BlitRow(s, d, j) \in Writings
  <2>1. PICK a \in Nat, b \in Nat : a = (d.y + j) % U32 /\ b = (d.srcY + j) % U32
    <3>1. PICK u \in Int, v \in Int : u = d.y + j /\ v = d.srcY + j
      OBVIOUS
    <3>2. u % U32 \in Nat /\ v % U32 \in Nat
      BY <1>1, DivMod
    <3> QED BY <3>1, <3>2
  <2>2. PICK from \in Nat : from = Offset(d.src, d.srcX, b)
    BY <1>2, <2>1
  <2>3. PICK n \in Nat : n = d.w * Bpp
    BY DEF Bpp
  <2>4. Offset(s, d.x, a) \in Nat
    BY <1>2, <2>1
  <2>5. PICK q \in Seq(Octet) : q = d.src.pixels
    BY Shape
  <2>6. CASE from + n <= Len(q)
    <3>1. SubSeq(q, from + 1, from + n) \in Seq(Octet)
      BY <2>6, Slice
    <3>2. BlitRow(s, d, j) = <<Offset(s, d.x, a), SubSeq(q, from + 1, from + n)>>
      BY <2>1, <2>2, <2>3, <2>5, <2>6 DEF BlitRow
    <3>3. PICK to \in Nat, bytes \in Seq(Octet) : BlitRow(s, d, j) = <<to, bytes>>
      BY <2>4, <3>1, <3>2
    <3> QED BY <3>3 DEF Writings
  <2>7. CASE ~(from + n <= Len(q))
    <3>1. BlitRow(s, d, j) = <<Len(s.pixels) + 1, <<>> >>
      BY <2>1, <2>2, <2>3, <2>5, <2>7 DEF BlitRow
    <3>2. Len(s.pixels) + 1 \in Nat /\ <<>> \in Seq(Octet)
      BY Shape
    <3>3. PICK to \in Nat, bytes \in Seq(Octet) : BlitRow(s, d, j) = <<to, bytes>>
      BY <3>1, <3>2
    <3> QED BY <3>3 DEF Writings
  <2> QED BY <2>6, <2>7
<1>4. \A j \in 1 .. d.h : j - 1 \in Nat
  OBVIOUS
<1> QED BY <1>3, <1>4 DEF BlitRows

(* (coordinates are numbers of 32 bits)                                        *)
LEMMA CoordinateIsNat == Coordinate \subseteq Nat /\ U32 \in Nat
BY FramebufferAssumption DEF Coordinate

(* and those of any operation, refused or not.                                 *)
LEMMA WritesTyped ==
  ASSUME NEW s, WellFormed(s), NEW d, Operation(d)
  PROVE  \E len \in Nat : Writes(s, d) \in [1..len -> Writings]
<1>0. Coordinate \subseteq Nat
  BY CoordinateIsNat
<1>1. CASE d \in [op : {"clear"}, color : Color]
  <2>1. Writes(s, d) = Rectangle(s, 0, 0, s.width, s.height, d.color)
    BY <1>1 DEF Writes
  <2>2. PICK w \in Nat, h \in Nat, color \in Color, z \in Nat :
          w = s.width /\ h = s.height /\ color = d.color /\ z = 0
    BY <1>1, Shape
  <2>3. \E len \in Nat : Rectangle(s, z, z, w, h, color) \in [1..len -> Writings]
    BY RectangleTyped
  <2> QED BY <2>1, <2>2, <2>3
<1>2. CASE d \in [op : {"set"}, x : Coordinate, y : Coordinate, color : Color]
  <2>1. Writes(s, d) = Rectangle(s, d.x, d.y, 1, 1, d.color)
    BY <1>2 DEF Writes
  <2>2. PICK x \in Nat, y \in Nat, color \in Color, z \in Nat :
          x = d.x /\ y = d.y /\ color = d.color /\ z = 1
    BY <1>0, <1>2
  <2>3. \E len \in Nat : Rectangle(s, x, y, z, z, color) \in [1..len -> Writings]
    BY RectangleTyped
  <2> QED BY <2>1, <2>2, <2>3
<1>3. CASE d \in [op : {"fill"}, x : Coordinate, y : Coordinate,
                  w : Coordinate, h : Coordinate, color : Color]
  <2>1. Writes(s, d) = Rectangle(s, d.x, d.y, d.w, FillRows(d), d.color)
    BY <1>3 DEF Writes
  <2>2. FillRows(d) \in Nat /\ d.x \in Nat /\ d.y \in Nat /\ d.w \in Nat /\ d.color \in Color
    BY <1>0, <1>3 DEF FillRows
  <2>3. PICK x \in Nat, y \in Nat, w \in Nat, h \in Nat, color \in Color :
          x = d.x /\ y = d.y /\ w = d.w /\ h = FillRows(d) /\ color = d.color
    BY <2>2
  <2>4. \E len \in Nat : Rectangle(s, x, y, w, h, color) \in [1..len -> Writings]
    BY RectangleTyped
  <2> QED BY <2>1, <2>3, <2>4
<1>4. CASE /\ d \in [op : {"blit"}, x : Coordinate, y : Coordinate, src : {d.src},
                     srcX : Coordinate, srcY : Coordinate, w : Coordinate, h : Coordinate]
           /\ WellFormed(d.src)
  <2>1. Writes(s, d) = BlitRows(s, d)
    BY <1>4 DEF Writes, BlitRows
  <2>2. /\ d.x \in Nat /\ d.y \in Nat /\ d.srcX \in Nat /\ d.srcY \in Nat
        /\ d.w \in Nat /\ d.h \in Nat
    BY <1>0, <1>4
  <2> QED BY <1>4, <2>1, <2>2, BlitTyped
<1> QED BY <1>1, <1>2, <1>3, <1>4 DEF Operation

(* Whatever an operation writes, as many bytes are left.                       *)
LEMMA WrittenBytes ==
  ASSUME NEW s, WellFormed(s), NEW d, Operation(d)
  PROVE  Written(s, Writes(s, d)).pixels \in [1..Len(s.pixels) -> Octet]
<1>1. PICK len \in Nat : Writes(s, d) \in [1..len -> Writings]
  BY WritesTyped
<1>2. PICK n \in Nat : n = Len(s.pixels)
  BY Shape
<1>3. PICK px \in [1..n -> Octet] : s.pixels = px
  BY <1>2, Shape
<1>4. Written(s, Writes(s, d)) \in Memories(n)
  BY <1>1, <1>3, WrittenTyped
<1> QED BY <1>2, <1>4 DEF Memories

--------------------------------------------------------------------------------
(* Framebuffers stay what they are.                                            *)

FrameInv == WellFormed(back) /\ WellFormed(front) /\ draws \in Nat

(* Presenting clears the flag only.                                            *)
LEMMA StillFormed ==
  ASSUME NEW s, WellFormed(s)
  PROVE  WellFormed([s EXCEPT !.dirty = FALSE])
BY DEF WellFormed

(* Framebuffers begin formed,                                                  *)
LEMMA FrameInitially == FrameInit => FrameInv
BY FramebufferAssumption DEF FrameInit, FrameInv

(* and each operation, present and swap leaves them so.                        *)
LEMMA FrameKept == FrameInv /\ [FrameNext]_frameVars => FrameInv'
<1> SUFFICES ASSUME FrameInv, [FrameNext]_frameVars PROVE FrameInv'
  OBVIOUS
<1>0. WellFormed(back) /\ WellFormed(front) /\ draws \in Nat
  BY DEF FrameInv
<1>1. ASSUME NEW d \in Draws, DrawPanics(d) \/ DrawRefused(d) PROVE FrameInv'
  <2>1. UNCHANGED back /\ UNCHANGED front /\ draws' = draws + 1
    BY <1>1 DEF DrawPanics, DrawRefused, Ended
  <2> QED BY <1>0, <2>1 DEF FrameInv
<1>2. ASSUME NEW d \in Draws, Draw(d) PROVE FrameInv'
  <2>1. Operation(d)
    BY FramebufferAssumption
  <2>2. PICK px \in [1..Len(back.pixels) -> Octet] : px = Written(back, Writes(back, d)).pixels
    BY <1>0, <2>1, WrittenBytes
  <2>3. /\ back' = [back EXCEPT !.pixels = px, !.dirty = TRUE] \/ back' = [back EXCEPT !.pixels = px]
        /\ UNCHANGED front /\ draws' = draws + 1
    BY <1>2, <2>2 DEF Draw, Ended
  <2>4. back \in [width : Coordinate, height : Coordinate, stride : Coordinate,
             format : {"rgba8", "bgra8", "bgrx8"}, pixels : Seq(0..255), dirty : BOOLEAN]
    BY <1>0 DEF WellFormed
  <2>5. PICK r : r = back'
    OBVIOUS
  <2>6. r = [back EXCEPT !.pixels = px, !.dirty = r.dirty] /\ r.dirty \in BOOLEAN
    BY <2>3, <2>4, <2>5
  <2>7. WellFormed(r)
    BY <1>0, <2>6, RedrawnFormed
  <2> QED BY <1>0, <2>3, <2>5, <2>7 DEF FrameInv
<1>3. ASSUME PixelsMut PROVE FrameInv'
  <2>1. PICK px : px = [i \in DOMAIN back.pixels |-> 5]
    OBVIOUS
  <2>2. px \in [1..Len(back.pixels) -> Octet]
    BY <1>0, <2>1, Shape DEF Octet
  <2>3. back' = [back EXCEPT !.pixels = px, !.dirty = TRUE] /\ UNCHANGED <<front, draws>>
    BY <1>3, <2>1 DEF PixelsMut
  <2>4. back \in [width : Coordinate, height : Coordinate, stride : Coordinate,
             format : {"rgba8", "bgra8", "bgrx8"}, pixels : Seq(0..255), dirty : BOOLEAN]
    BY <1>0 DEF WellFormed
  <2>5. PICK r : r = back'
    OBVIOUS
  <2>6. r = [back EXCEPT !.pixels = px, !.dirty = r.dirty] /\ r.dirty \in BOOLEAN
    BY <2>3, <2>4, <2>5
  <2>7. WellFormed(r)
    BY <1>0, <2>2, <2>6, RedrawnFormed
  <2> QED BY <1>0, <2>3, <2>5, <2>7 DEF FrameInv
<1>4. ASSUME PresentBack \/ PresentFront \/ Swap PROVE FrameInv'
  <2>1. /\ UNCHANGED draws
        /\ \/ back' = [back EXCEPT !.dirty = FALSE] /\ front' = front
           \/ front' = [front EXCEPT !.dirty = FALSE] /\ back' = back
           \/ front' = back /\ back' = [front EXCEPT !.dirty = FALSE]
    BY <1>4 DEF PresentBack, PresentFront, Swap
  <2>2. WellFormed([back EXCEPT !.dirty = FALSE]) /\ WellFormed([front EXCEPT !.dirty = FALSE])
    BY <1>0, StillFormed
  <2> QED BY <1>0, <2>1, <2>2 DEF FrameInv
<1>5. CASE UNCHANGED frameVars
  BY <1>0, <1>5 DEF FrameInv, frameVars
<1> QED BY <1>1, <1>2, <1>3, <1>4, <1>5 DEF FrameNext

(* In every state, whatever arguments the operations were given and whether or *)
(* not the build has overflow checks, each framebuffer has as many bytes as    *)
(* its rows take, rows of at least its width, and a size that fits u32:        *)
(* nothing that framebuffer.rs does changes the shape that new or from_raw     *)
(* gave it, and the offsets of set_pixel and get_pixel stay inside.            *)
THEOREM FramebuffersFormed == FrameSpec => []FrameInv
BY FrameInitially, FrameKept, PTL DEF FrameSpec

(* What an operation that is neither refused nor panics leaves.                *)
Effect(s, d, r) ==
  /\ WellFormed(r) /\ Points(r) = Points(s) /\ r.dirty
  /\ Image(r) = Painted(Image(s), d)
  /\ \A p \in Points(s) : Pixel(r, p[1], p[2]) = Image(r)[p]
  /\ \A i \in DOMAIN s.pixels \ PixelBytes(s) : r.pixels[i] = s.pixels[i]

(* What lands as the operation wants is its effect.                            *)
LEMMA EffectOf ==
  ASSUME NEW s, WellFormed(s), NEW d, NEW C, NEW want, NEW m, Lands(s, C, want, m),
         \A p \in C : want[p] \in Color,
         \A p \in Points(s) : p \in C <=> Covered(d, p),
         \A p \in C : Channels(s.format, want[p]) =
           IF d.op = "blit" THEN Image(d.src)[<<p[1] - d.x + d.srcX, p[2] - d.y + d.srcY>>]
           ELSE d.color
  PROVE  Effect(s, d, Redrawn(s, m.pixels))
<1>1. PICK r : r = Redrawn(s, m.pixels)
  OBVIOUS
<1>2. /\ WellFormed(r)
      /\ \A p \in Points(s) :
              Image(r)[p] = IF p \in C THEN Channels(s.format, want[p]) ELSE Image(s)[p]
  <2>1. /\ WellFormed(Redrawn(s, m.pixels))
        /\ \A p \in Points(s) :
              Image(Redrawn(s, m.pixels))[p] =
                IF p \in C THEN Channels(s.format, want[p]) ELSE Image(s)[p]
    BY LandsShown
  <2> QED BY <1>1, <2>1
<1>3. s \in [width : Coordinate, height : Coordinate, stride : Coordinate,
             format : {"rgba8", "bgra8", "bgrx8"}, pixels : Seq(0..255), dirty : BOOLEAN]
  BY DEF WellFormed
<1>4. r = [s EXCEPT !.pixels = m.pixels, !.dirty = TRUE]
  BY <1>1 DEF Redrawn
<1>5. r.width = s.width /\ r.height = s.height /\ r.dirty /\ r.pixels = m.pixels
  BY <1>3, <1>4
<1>6. Points(r) = Points(s)
  BY <1>5 DEF Points
<1>7. Image(r) = Painted(Image(s), d)
  <2>1. DOMAIN Image(s) = Points(s) /\ Image(r) = [p \in Points(s) |-> Image(r)[p]]
    BY <1>6 DEF Image
  <2>2. Painted(Image(s), d) =
          [p \in Points(s) |->
            IF ~Covered(d, p) THEN Image(s)[p]
            ELSE IF d.op = "blit" THEN Image(d.src)[<<p[1] - d.x + d.srcX, p[2] - d.y + d.srcY>>]
            ELSE d.color]
    BY <2>1 DEF Painted
  <2>3. ASSUME NEW p \in Points(s)
        PROVE  Image(r)[p] =
            IF ~Covered(d, p) THEN Image(s)[p]
            ELSE IF d.op = "blit" THEN Image(d.src)[<<p[1] - d.x + d.srcX, p[2] - d.y + d.srcY>>]
            ELSE d.color
    <3>1. CASE p \in C
      <4>1. Image(r)[p] = Channels(s.format, want[p])
        BY <1>2, <3>1
      <4>2. Channels(s.format, want[p]) =
              IF d.op = "blit" THEN Image(d.src)[<<p[1] - d.x + d.srcX, p[2] - d.y + d.srcY>>]
              ELSE d.color
        BY <3>1
      <4>3. Covered(d, p)
        BY <3>1
      <4> QED BY <4>1, <4>2, <4>3
    <3>2. CASE p \notin C
      <4>1. Image(r)[p] = Image(s)[p]
        BY <1>2, <3>2
      <4>2. ~Covered(d, p)
        BY <3>2
      <4> QED BY <4>1, <4>2
    <3> QED BY <3>1, <3>2
  <2>4. [p \in Points(s) |-> Image(r)[p]] =
          [p \in Points(s) |->
            IF ~Covered(d, p) THEN Image(s)[p]
            ELSE IF d.op = "blit" THEN Image(d.src)[<<p[1] - d.x + d.srcX, p[2] - d.y + d.srcY>>]
            ELSE d.color]
    BY <2>3
  <2> QED BY <2>1, <2>2, <2>4
<1>8. \A p \in Points(s) : Pixel(r, p[1], p[2]) = Image(r)[p]
  BY <1>2, <1>6, PixelIsImage
<1>9. \A i \in DOMAIN s.pixels \ PixelBytes(s) : r.pixels[i] = s.pixels[i]
  BY <1>5 DEF Lands
<1> QED BY <1>1, <1>2, <1>5, <1>6, <1>7, <1>8, <1>9 DEF Effect

(* The checks leave no rectangle that is not inside, if sums cannot wrap.      *)
LEMMA InsideIfChecked ==
  ASSUME NEW s, WellFormed(s), NEW x \in Nat, NEW y \in Nat, x < U32, y < U32, ~Outside(x, y, s)
  PROVE  x <= s.width /\ y <= s.height
<1>1. U32 \in Nat
  BY Shape
<1>2. x % U32 = x /\ y % U32 = y
  BY <1>1
<1>3. s.width \in Nat /\ s.height \in Nat
  BY Shape
<1> QED BY <1>2, <1>3 DEF Outside

(* One colour for each point.                                                  *)
RectangleWant(s, color) == [p \in Points(s) |-> Channels(s.format, color)]

(* A rectangle of one colour has the effect of its operation:                  *)
LEMMA RectangleEffect ==
  ASSUME NEW s, WellFormed(s), NEW x \in Nat, NEW y \in Nat, NEW w \in Nat, NEW h \in Nat,
         x + w <= s.width, y + h <= s.height, NEW color \in Color,
         NEW d, d.op # "blit", d.color = color,
         \A p \in Points(s) : p \in Region(s, x, y, w, h) <=> Covered(d, p)
  PROVE  /\ Written(s, Rectangle(s, x, y, w, h, color)).sound
         /\ Effect(s, d, Redrawn(s, Written(s, Rectangle(s, x, y, w, h, color)).pixels))
<1>1. PICK m : m = Written(s, Rectangle(s, x, y, w, h, color))
  OBVIOUS
<1>2. PICK C : C = Region(s, x, y, w, h) /\ C \subseteq Points(s)
  BY DEF Region
<1>3. PICK want : want = RectangleWant(s, color)
  OBVIOUS
<1>4. Lands(s, C, want, m)
  BY <1>1, <1>2, <1>3, RectangleLands DEF RectangleWant
<1>5. ASSUME NEW p \in C
      PROVE  want[p] \in Color /\ Channels(s.format, want[p]) = color
  <2>1. want[p] = Channels(s.format, color)
    BY <1>2, <1>3 DEF RectangleWant
  <2> QED BY <2>1, ChannelsTyped
<1>6. \A p \in C : Channels(s.format, want[p]) =
           IF d.op = "blit" THEN Image(d.src)[<<p[1] - d.x + d.srcX, p[2] - d.y + d.srcY>>]
           ELSE d.color
  BY <1>5
<1>7. \A p \in C : want[p] \in Color
  BY <1>5
<1>8. \A p \in Points(s) : p \in C <=> Covered(d, p)
  BY <1>2
<1>9. Effect(s, d, Redrawn(s, m.pixels))
  BY <1>4, <1>6, <1>7, <1>8, EffectOf
<1> QED BY <1>1, <1>4, <1>9 DEF Lands

(* clear,                                                                      *)
LEMMA ClearEffect ==
  ASSUME NEW s, WellFormed(s), NEW d \in [op : {"clear"}, color : Color]
  PROVE  Written(s, Writes(s, d)).sound /\ Effect(s, d, Redrawn(s, Written(s, Writes(s, d)).pixels))
<1>1. PICK w \in Nat, h \in Nat, color \in Color, z \in Nat :
        w = s.width /\ h = s.height /\ color = d.color /\ z = 0
  BY Shape
<1>2. Writes(s, d) = Rectangle(s, z, z, w, h, color)
  BY <1>1 DEF Writes
<1>3. \A p \in Points(s) : p \in Region(s, z, z, w, h) <=> Covered(d, p)
  BY <1>1 DEF Region, Covered, Points
<1>4. z + w <= s.width /\ z + h <= s.height /\ d.op # "blit" /\ d.color = color
  BY <1>1
<1> QED BY <1>2, <1>3, <1>4, RectangleEffect

(* set_pixel,                                                                  *)
LEMMA SetEffect ==
  ASSUME NEW s, WellFormed(s), NEW d \in [op : {"set"}, x : Coordinate, y : Coordinate, color : Color],
         ~Refused(s, d)
  PROVE  Written(s, Writes(s, d)).sound /\ Effect(s, d, Redrawn(s, Written(s, Writes(s, d)).pixels))
<1>1. PICK x \in Nat, y \in Nat, color \in Color, z \in Nat :
        x = d.x /\ y = d.y /\ color = d.color /\ z = 1
  BY CoordinateIsNat
<1>2. Writes(s, d) = Rectangle(s, x, y, z, z, color)
  BY <1>1 DEF Writes
<1>3. ASSUME NEW p \in Points(s) PROVE p \in Region(s, x, y, z, z) <=> Covered(d, p)
  <2>1. p[1] \in Nat /\ p[2] \in Nat /\ p = <<p[1], p[2]>>
    BY PointInside
  <2>2. p \in Region(s, x, y, z, z) <=> p[1] = x /\ p[2] = y
    BY <1>1, <2>1 DEF Region
  <2>3. Covered(d, p) <=> p = <<x, y>>
    BY <1>1 DEF Covered
  <2> QED BY <2>1, <2>2, <2>3
<1>4. x + z <= s.width /\ y + z <= s.height /\ d.op # "blit" /\ d.color = color
  BY <1>1, Shape DEF Refused
<1> QED BY <1>2, <1>3, <1>4, RectangleEffect

(* and fill_rect, if its checks did not wrap.                                  *)
LEMMA FillEffect ==
  ASSUME NEW s, WellFormed(s), OverflowChecks,
         NEW d \in [op : {"fill"}, x : Coordinate, y : Coordinate,
                    w : Coordinate, h : Coordinate, color : Color],
         ~Panics(s, d), ~Refused(s, d)
  PROVE  Written(s, Writes(s, d)).sound /\ Effect(s, d, Redrawn(s, Written(s, Writes(s, d)).pixels))
<1>1. PICK x \in Nat, y \in Nat, w \in Nat, h \in Nat, color \in Color :
        x = d.x /\ y = d.y /\ w = d.w /\ h = d.h /\ color = d.color
  BY CoordinateIsNat
<1>2. x + w < U32 /\ y + h < U32 /\ U32 \in Nat
  BY <1>1, Shape DEF Panics, Overflows
<1>3. ~Outside(x + w, y + h, s)
  BY <1>1 DEF Refused
<1>4. x + w <= s.width /\ y + h <= s.height
  BY <1>2, <1>3, InsideIfChecked
<1>5. FillRows(d) = h
  <2>1. (y + h) % U32 = y + h
    BY <1>2
  <2> QED BY <1>1, <2>1 DEF FillRows
<1>6. Writes(s, d) = Rectangle(s, x, y, w, h, color)
  BY <1>1, <1>5 DEF Writes
<1>7. \A p \in Points(s) : p \in Region(s, x, y, w, h) <=> Covered(d, p)
  BY <1>1 DEF Region, Covered
<1>8. d.op # "blit" /\ d.color = color
  BY <1>1
<1> QED BY <1>4, <1>6, <1>7, <1>8, RectangleEffect

(* So has blit, whose source may be another part of memory with another        *)
(* format.                                                                     *)
LEMMA BlitEffect ==
  ASSUME NEW s, WellFormed(s), OverflowChecks, NEW d,
         d \in [op : {"blit"}, x : Coordinate, y : Coordinate, src : {d.src},
                srcX : Coordinate, srcY : Coordinate, w : Coordinate, h : Coordinate],
         WellFormed(d.src), ~Panics(s, d), ~Refused(s, d)
  PROVE  Written(s, Writes(s, d)).sound /\ Effect(s, d, Redrawn(s, Written(s, Writes(s, d)).pixels))
<1>1. PICK x \in Nat, y \in Nat, u \in Nat, v \in Nat, w \in Nat, h \in Nat :
        x = d.x /\ y = d.y /\ u = d.srcX /\ v = d.srcY /\ w = d.w /\ h = d.h
  BY CoordinateIsNat
<1>2. PICK t : t = d.src /\ WellFormed(t)
  OBVIOUS
<1>3. d.op = "blit" /\ t.format = s.format
  BY <1>2 DEF Refused
<1>4. ~Outside(x + w, y + h, s) /\ ~Outside(u + w, v + h, t)
  BY <1>1, <1>2, <1>3 DEF Refused
<1>5. x + w < U32 /\ y + h < U32 /\ u + w < U32 /\ v + h < U32 /\ U32 \in Nat
  BY <1>1, <1>2, <1>3, <1>4, Shape DEF Panics, Overflows
<1>6. x + w <= s.width /\ y + h <= s.height
  BY <1>4, <1>5, InsideIfChecked
<1>7. u + w <= t.width /\ v + h <= t.height
  BY <1>2, <1>4, <1>5, InsideIfChecked
<1>8. BlitFits(s, d)
  BY <1>1, <1>2, <1>6, <1>7 DEF BlitFits
<1>9. Writes(s, d) = BlitRows(s, d)
  BY <1>3 DEF Writes, BlitRows
<1>10. PICK m : m = Written(s, BlitRows(s, d))
  OBVIOUS
<1>11. PICK C : C = Region(s, d.x, d.y, d.w, d.h) /\ C \subseteq Points(s)
  BY DEF Region
<1>12. PICK want : want = Copied(s, d)
  OBVIOUS
<1>13. Lands(s, C, want, m)
  BY <1>8, <1>10, <1>11, <1>12, BlitLands
<1>14. ASSUME NEW p \in C
       PROVE  /\ want[p] \in Color
              /\ Channels(s.format, want[p]) = Image(d.src)[<<p[1] - d.x + d.srcX, p[2] - d.y + d.srcY>>]
  <2>1. PICK q : q = <<p[1] - d.x + d.srcX, p[2] - d.y + d.srcY>>
    OBVIOUS
  <2>2. PICK a \in 0 .. w - 1, b \in 0 .. h - 1 : a = p[1] - x /\ b = p[2] - y
    BY <1>1, <1>11 DEF Region
  <2>3. q = <<a + u, b + v>>
    BY <1>1, <2>1, <2>2
  <2>4. PICK tw \in Nat, th \in Nat : tw = t.width /\ th = t.height
    BY <1>2, Shape
  <2>5. q \in Points(t)
    BY <1>7, <2>2, <2>3, <2>4 DEF Points
  <2>6. PICK bytes : bytes = SubSeq(t.pixels, Place(t, q) + 1, Place(t, q) + Bpp)
    OBVIOUS
  <2>7. bytes \in Color /\ \A c \in 1..4 : bytes[c] = t.pixels[Place(t, q) + c]
    <3>1. WellFormed(t)
      BY <1>2
    <3>2. /\ SubSeq(t.pixels, Place(t, q) + 1, Place(t, q) + Bpp) \in Color
          /\ \A c \in 1..4 : SubSeq(t.pixels, Place(t, q) + 1, Place(t, q) + Bpp)[c] = t.pixels[Place(t, q) + c]
      BY <2>5, <3>1, BytesOfPoint
    <3> QED BY <2>6, <3>2
  <2>8. want[p] = [c \in 1..4 |-> t.pixels[Place(t, q) + c]]
    BY <1>2, <1>11, <1>12, <2>1 DEF Copied
  <2>9. bytes = [c \in 1..4 |-> bytes[c]]
    BY <2>7 DEF Color
  <2>10. want[p] = bytes
    BY <2>7, <2>8, <2>9
  <2>11. Image(t)[q] = Channels(t.format, bytes)
    BY <2>5, <2>6 DEF Image
  <2> QED BY <1>2, <1>3, <2>1, <2>7, <2>10, <2>11
<1>15. \A p \in C : Channels(s.format, want[p]) =
           IF d.op = "blit" THEN Image(d.src)[<<p[1] - d.x + d.srcX, p[2] - d.y + d.srcY>>]
           ELSE d.color
  BY <1>3, <1>14
<1>16. \A p \in C : want[p] \in Color
  BY <1>14
<1>17. \A p \in Points(s) : p \in C <=> Covered(d, p)
  BY <1>3, <1>11 DEF Region, Covered
<1>18. Effect(s, d, Redrawn(s, m.pixels))
  BY <1>13, <1>15, <1>16, <1>17, EffectOf
<1> QED BY <1>9, <1>10, <1>13, <1>18 DEF Lands

(* All four, inside of the memory.                                             *)
LEMMA OperationEffect ==
  ASSUME NEW s, WellFormed(s), OverflowChecks, NEW d, Operation(d), ~Panics(s, d), ~Refused(s, d)
  PROVE  Written(s, Writes(s, d)).sound /\ Effect(s, d, Redrawn(s, Written(s, Writes(s, d)).pixels))
BY ClearEffect, SetEffect, FillEffect, BlitEffect DEF Operation

(* The action of DrawsExactly.                                                 *)
DrawStep ==
  draws' > draws =>
       IF last'.outcome = "ok"
         THEN /\ LET image == Image(back')
                 IN /\ image = Painted(Image(back), last'.draw)
                    /\ \A p \in Points(back) : Pixel(back', p[1], p[2]) = image[p]
              /\ \A i \in DOMAIN back.pixels \ PixelBytes(back) : back'.pixels[i] = back.pixels[i]
              /\ back'.dirty
         ELSE back' = back

(* Each step is one.                                                           *)
LEMMA DrawStepExact == OverflowChecks /\ FrameInv /\ [FrameNext]_frameVars => DrawStep
<1> SUFFICES ASSUME OverflowChecks, FrameInv, [FrameNext]_frameVars, draws' > draws
             PROVE  DrawStep
  BY DEF DrawStep
<1>0. WellFormed(back) /\ draws \in Nat
  BY DEF FrameInv
<1>1. PICK d \in Draws : DrawPanics(d) \/ DrawRefused(d) \/ Draw(d)
  BY <1>0 DEF FrameNext, PixelsMut, PresentBack, PresentFront, Swap, frameVars
<1>2. Operation(d)
  BY FramebufferAssumption
<1>3. CASE DrawPanics(d) \/ DrawRefused(d)
  BY <1>3 DEF DrawPanics, DrawRefused, Ended, DrawStep
<1>4. CASE Draw(d)
  <2>1. PICK m : m = Written(back, Writes(back, d))
    OBVIOUS
  <2>2. m.sound /\ Effect(back, d, Redrawn(back, m.pixels))
    BY <1>0, <1>2, <1>4, <2>1, OperationEffect DEF Draw
  <2>3. back' = Redrawn(back, m.pixels) /\ last' = [draw |-> d, outcome |-> "ok"]
    BY <1>4, <2>1, <2>2 DEF Draw, Ended, Redrawn
  <2>4. PICK r : r = back'
    OBVIOUS
  <2>5. Effect(back, d, r) /\ last'.draw = d /\ last'.outcome = "ok"
    BY <2>2, <2>3, <2>4
  <2> QED BY <2>4, <2>5 DEF Effect, DrawStep
<1> QED BY <1>1, <1>3, <1>4

(* With overflow checks, a drawing operation that succeeds paints exactly the  *)
(* points that its arguments name, each in the colour asked for in every       *)
(* format, get_pixel returns what is seen, no byte outside of the visible rows *)
(* changes, and the flag is raised; one that fails changes nothing.  For any   *)
(* stride, size, arguments and source, a source of another format and one that *)
(* is the framebuffer itself included.  In a build without the checks it does  *)
(* not hold: sums of coordinates wrap there.                                   *)
THEOREM DrawingIsExact == OverflowChecks /\ FrameSpec => DrawsExactly
<1> SUFFICES ASSUME OverflowChecks PROVE FrameSpec => DrawsExactly
  OBVIOUS
<1>1. FrameInv /\ [FrameNext]_frameVars => DrawStep
  BY DrawStepExact
<1>2. FrameSpec => [][DrawStep]_frameVars
  BY <1>1, FramebuffersFormed, PTL DEF FrameSpec
<1> QED BY <1>2 DEF DrawStep, DrawsExactly

--------------------------------------------------------------------------------
(* Triangles.                                                                  *)

Spots == [x : Int, y : Int]

(* Edge is a number.                                                           *)
LEMMA EdgeTyped ==
  ASSUME NEW a \in Spots, NEW b \in Spots, NEW c \in Spots
  PROVE  Edge(a, b, c) \in Int
BY DEF Edge, Spots

(* The three triangles of a point make up the whole.                           *)
LEMMA EdgesSum ==
  ASSUME NEW a \in Spots, NEW b \in Spots, NEW c \in Spots, NEW p \in Spots
  PROVE  Edge(b, c, p) + Edge(c, a, p) + Edge(a, b, p) = Edge(a, b, c)
<1>1. PICK ax \in Int, ay \in Int : ax = a.x /\ ay = a.y
  BY DEF Spots
<1>2. PICK bx \in Int, by \in Int : bx = b.x /\ by = b.y
  BY DEF Spots
<1>3. PICK cx \in Int, cy \in Int : cx = c.x /\ cy = c.y
  BY DEF Spots
<1>4. PICK px \in Int, py \in Int : px = p.x /\ py = p.y
  BY DEF Spots
<1>5. /\ Edge(b, c, p) = (px - bx) * (cy - by) - (py - by) * (cx - bx)
      /\ Edge(c, a, p) = (px - cx) * (ay - cy) - (py - cy) * (ax - cx)
      /\ Edge(a, b, p) = (px - ax) * (by - ay) - (py - ay) * (bx - ax)
      /\ Edge(a, b, c) = (cx - ax) * (by - ay) - (cy - ay) * (bx - ax)
  BY <1>1, <1>2, <1>3, <1>4 DEF Edge
<1>6. (px - bx) * (cy - by) - (py - by) * (cx - bx)
      + ((px - cx) * (ay - cy) - (py - cy) * (ax - cx))
      + ((px - ax) * (by - ay) - (py - ay) * (bx - ax))
      = (cx - ax) * (by - ay) - (cy - ay) * (bx - ax)
  OBVIOUS
<1> QED BY <1>5, <1>6

(* A point is where the corners, each with its weight, balance.                *)
LEMMA EdgesBalance ==
  ASSUME NEW a \in Spots, NEW b \in Spots, NEW c \in Spots, NEW p \in Spots
  PROVE  /\ Edge(b, c, p) * (a.x - p.x) + Edge(c, a, p) * (b.x - p.x) + Edge(a, b, p) * (c.x - p.x) = 0
         /\ Edge(b, c, p) * (a.y - p.y) + Edge(c, a, p) * (b.y - p.y) + Edge(a, b, p) * (c.y - p.y) = 0
<1>1. PICK ax \in Int, ay \in Int : ax = a.x - p.x /\ ay = a.y - p.y
  BY DEF Spots
<1>2. PICK bx \in Int, by \in Int : bx = b.x - p.x /\ by = b.y - p.y
  BY DEF Spots
<1>3. PICK cx \in Int, cy \in Int : cx = c.x - p.x /\ cy = c.y - p.y
  BY DEF Spots
<1>5. /\ Edge(b, c, p) = (0 - bx) * (cy - by) - (0 - by) * (cx - bx)
      /\ Edge(c, a, p) = (0 - cx) * (ay - cy) - (0 - cy) * (ax - cx)
      /\ Edge(a, b, p) = (0 - ax) * (by - ay) - (0 - ay) * (bx - ax)
  <2>1. /\ p.x - b.x = 0 - bx /\ p.y - b.y = 0 - by /\ c.x - b.x = cx - bx /\ c.y - b.y = cy - by
        /\ p.x - c.x = 0 - cx /\ p.y - c.y = 0 - cy /\ a.x - c.x = ax - cx /\ a.y - c.y = ay - cy
        /\ p.x - a.x = 0 - ax /\ p.y - a.y = 0 - ay /\ b.x - a.x = bx - ax /\ b.y - a.y = by - ay
    BY <1>1, <1>2, <1>3 DEF Spots
  <2> QED BY <2>1 DEF Edge
<1>6. ((0 - bx) * (cy - by) - (0 - by) * (cx - bx)) * ax
      + ((0 - cx) * (ay - cy) - (0 - cy) * (ax - cx)) * bx
      + ((0 - ax) * (by - ay) - (0 - ay) * (bx - ax)) * cx = 0
  OBVIOUS
<1>7. ((0 - bx) * (cy - by) - (0 - by) * (cx - bx)) * ay
      + ((0 - cx) * (ay - cy) - (0 - cy) * (ax - cx)) * by
      + ((0 - ax) * (by - ay) - (0 - ay) * (bx - ax)) * cy = 0
  OBVIOUS
<1> QED BY <1>1, <1>2, <1>3, <1>5, <1>6, <1>7

(* Numbers that add up to as much as their sizes do have no sign.              *)
LEMMA NoSign ==
  ASSUME NEW a \in Int, NEW b \in Int, NEW c \in Int
  PROVE  /\ Abs(a) + Abs(b) + Abs(c) = a + b + c <=> a >= 0 /\ b >= 0 /\ c >= 0
         /\ a >= 0 => Abs(a) = a
         /\ Abs(a) \in Nat /\ Abs(-a) = Abs(a) /\ (Abs(a) = 0 <=> a = 0)
BY DEF Abs

(* The corners of a triangle.                                                  *)
Corners == [1..3 -> Vertices]
(* Vertices fall on the grid.                                                  *)
LEMMA ScreenTyped ==
  ASSUME WellFormed(back), NEW v \in Vertices
  PROVE  Screen(v) \in Spots
<1>1. PICK width \in Nat, height \in Nat : width = back.width /\ height = back.height
  BY Shape
<1>2. PICK x \in Int, y \in Int, w \in Nat \ {0} : x = v.x /\ y = v.y /\ w = v.w
  BY DEF Vertices
<1>3. Unit \in Nat
  BY RasterizerAssumption
<1>4. PICK m \in Int, n \in Int : m = (w + x) * width * Unit /\ n = (w - y) * height * Unit
  BY <1>3
<1>5. 2 * w \in Nat \ {0}
  OBVIOUS
<1>6. PICK g \in Int, h \in Int : g = m \div (2 * w) /\ h = n \div (2 * w)
  BY <1>5, DivMod
<1>7. Screen(v) = [x |-> g, y |-> h]
  BY <1>1, <1>2, <1>4, <1>6 DEF Screen
<1> QED BY <1>7 DEF Spots

(* A centre is less than a pixel from its corner.                              *)
LEMMA CentreTyped ==
  ASSUME NEW x \in Int, NEW y \in Int
  PROVE  /\ Centre(<<x, y>>) \in Spots
         /\ \E h \in 0 .. Unit - 1 : Centre(<<x, y>>).x = x * Unit + h /\ Centre(<<x, y>>).y = y * Unit + h
<1>1. Unit \in Nat \ {0}
  BY RasterizerAssumption
<1>2. PICK h \in 0 .. Unit - 1 : h = Unit \div 2
  <2>1. PICK u \in Nat \ {0} : u = Unit
    BY <1>1
  <2>2. u \div 2 \in 0 .. u - 1
    OBVIOUS
  <2> QED BY <2>1, <2>2
<1>3. PICK m \in Int, n \in Int : m = x * Unit /\ n = y * Unit
  BY <1>1
<1>4. Centre(<<x, y>>) = [x |-> m + h, y |-> n + h]
  BY <1>2, <1>3 DEF Centre
<1>5. m + h \in Int /\ n + h \in Int
  BY <1>1
<1> QED BY <1>3, <1>4, <1>5 DEF Spots

(* The sign of a triangle.                                                     *)
SignTaken(a, b, c, area, sign) ==
  /\ sign * area = Abs(area) /\ sign * area - sign * a - sign * b = sign * c
  /\ area # 0 /\ sign * a >= 0 /\ sign * b >= 0 /\ sign * c >= 0 <=>
       area # 0 /\ Abs(a) + Abs(b) + Abs(c) = Abs(area)
  /\ sign * a >= 0 => sign * a = Abs(a)
  /\ sign * b >= 0 => sign * b = Abs(b)
  /\ sign * c >= 0 => sign * c = Abs(c)

(* Weights of one sign with the area are the sizes of the three triangles.     *)
LEMMA Signed3 ==
  ASSUME NEW a \in Int, NEW b \in Int, NEW c \in Int, NEW area \in Int, area = a + b + c,
         NEW sign \in Int, sign = IF area < 0 THEN -1 ELSE 1
  PROVE  SignTaken(a, b, c, area, sign)
<1>1. CASE area < 0
  <2>1. sign = -1
    BY <1>1
  <2>2. sign * a = -a /\ sign * b = -b /\ sign * c = -c /\ sign * area = -area
    BY <2>1
  <2> QED BY <1>1, <2>2 DEF Abs, SignTaken
<1>2. CASE ~(area < 0)
  <2>1. sign = 1
    BY <1>2
  <2>2. sign * a = a /\ sign * b = b /\ sign * c = c /\ sign * area = area
    BY <2>1
  <2> QED BY <1>2, <2>2 DEF Abs, SignTaken
<1> QED BY <1>1, <1>2

(* The edges of a triangle that a point sees.                                  *)
Sides(t, p) ==
  <<Edge(Screen(t[2]), Screen(t[3]), Centre(p)), Edge(Screen(t[3]), Screen(t[1]), Centre(p)),
    Edge(Screen(t[1]), Screen(t[2]), Centre(p))>>
Whole(t) == Edge(Screen(t[1]), Screen(t[2]), Screen(t[3]))

(* They make up the whole.                                                     *)
LEMMA SidesAre ==
  ASSUME WellFormed(back), NEW t \in Corners, NEW x \in Int, NEW y \in Int
  PROVE  \E a \in Int, b \in Int, c \in Int :
           /\ Sides(t, <<x, y>>) = <<a, b, c>> /\ Whole(t) = a + b + c
<1>1. PICK p : p = Centre(<<x, y>>)
  OBVIOUS
<1>2. p \in Spots
  BY <1>1, CentreTyped
<1>3. PICK u \in Spots, v \in Spots, w \in Spots :
        u = Screen(t[1]) /\ v = Screen(t[2]) /\ w = Screen(t[3])
  BY ScreenTyped DEF Corners
<1>4. Edge(v, w, p) \in Int /\ Edge(w, u, p) \in Int /\ Edge(u, v, p) \in Int
  BY <1>2, EdgeTyped
<1>5. Edge(v, w, p) + Edge(w, u, p) + Edge(u, v, p) = Edge(u, v, w)
  BY <1>2, EdgesSum
<1>6. Sides(t, <<x, y>>) = <<Edge(v, w, p), Edge(w, u, p), Edge(u, v, p)>> /\ Whole(t) = Edge(u, v, w)
  BY <1>1, <1>3 DEF Sides, Whole
<1> QED BY <1>4, <1>5, <1>6

(* The code's test on the signs of its weights is whether three triangles fill *)
(* a whole.                                                                    *)
LEMMA WeightsAreShares ==
  ASSUME WellFormed(back), NEW t \in Corners, NEW x \in Int, NEW y \in Int
  PROVE  /\ Inside(Weights(t, <<x, y>>)) <=> Covers(t, <<x, y>>)
         /\ Covers(t, <<x, y>>) => Weights(t, <<x, y>>) = Shares(t, <<x, y>>)
         /\ \E a \in Nat, b \in Nat, c \in Nat :
              /\ Shares(t, <<x, y>>) = <<a, b, c>>
              /\ Covers(t, <<x, y>>) => a + b + c > 0
<1>1. PICK p : p = <<x, y>>
  OBVIOUS
<1>2. PICK a \in Int, b \in Int, c \in Int : Sides(t, p) = <<a, b, c>> /\ Whole(t) = a + b + c
  BY <1>1, SidesAre
<1>3. PICK area \in Int : area = a + b + c
  OBVIOUS
<1>4. PICK sign \in Int : sign = IF area < 0 THEN -1 ELSE 1
  OBVIOUS
<1>5. /\ sign * area = Abs(area) /\ sign * area - sign * a - sign * b = sign * c
      /\ area # 0 /\ sign * a >= 0 /\ sign * b >= 0 /\ sign * c >= 0 <=>
           area # 0 /\ Abs(a) + Abs(b) + Abs(c) = Abs(area)
      /\ sign * a >= 0 => sign * a = Abs(a)
      /\ sign * b >= 0 => sign * b = Abs(b)
      /\ sign * c >= 0 => sign * c = Abs(c)
  <2>1. SignTaken(a, b, c, area, sign)
    BY <1>3, <1>4, Signed3
  <2> QED BY <2>1 DEF SignTaken
<1>6. /\ a = Edge(Screen(t[2]), Screen(t[3]), Centre(p))
      /\ b = Edge(Screen(t[3]), Screen(t[1]), Centre(p))
      /\ c = Edge(Screen(t[1]), Screen(t[2]), Centre(p))
      /\ area = Edge(Screen(t[1]), Screen(t[2]), Screen(t[3]))
  BY <1>2, <1>3 DEF Sides, Whole
<1>7. Shares(t, p) = <<Abs(a), Abs(b), Abs(c)>>
  BY <1>6 DEF Shares
<1>8. Covers(t, p) <=> area # 0 /\ Abs(a) + Abs(b) + Abs(c) = Abs(area)
  BY <1>6, <1>7 DEF Covers, Area
<1>9. PICK i \in Int, j \in Int, k \in Int : i = sign * a /\ j = sign * b /\ k = sign * c
  OBVIOUS
<1>10. Weights(t, p) = <<i, j, k>>
  <2>1. Weights(t, p) = <<sign * a, sign * b, sign * area - sign * a - sign * b>>
    BY <1>4, <1>6 DEF Weights
  <2> QED BY <1>5, <1>9, <2>1
<1>11. i + j + k = Abs(area)
  BY <1>5, <1>9
<1>12. Inside(<<i, j, k>>) <=> i + j + k # 0 /\ i >= 0 /\ j >= 0 /\ k >= 0
  <2>1. \A n \in 1..3 : n = 1 \/ n = 2 \/ n = 3
    OBVIOUS
  <2>2. (\A n \in 1..3 : <<i, j, k>>[n] >= 0) <=> i >= 0 /\ j >= 0 /\ k >= 0
    BY <2>1
  <2> QED BY <2>2 DEF Inside, Area
<1>13. Abs(area) = 0 <=> area = 0
  BY NoSign
<1>14. Inside(Weights(t, p)) <=> Covers(t, p)
  BY <1>5, <1>8, <1>9, <1>10, <1>11, <1>12, <1>13
<1>15. Covers(t, p) => Weights(t, p) = Shares(t, p)
  BY <1>5, <1>7, <1>9, <1>10, <1>12, <1>14
<1>16. Abs(a) \in Nat /\ Abs(b) \in Nat /\ Abs(c) \in Nat /\ Abs(area) \in Nat
  BY NoSign
<1>17. Covers(t, p) => Abs(a) + Abs(b) + Abs(c) > 0
  BY <1>8, <1>13, <1>16
<1> QED BY <1>1, <1>7, <1>14, <1>15, <1>16, <1>17

--------------------------------------------------------------------------------
(* The points of a triangle are scanned.                                       *)

LEMMA MaxOfTwo ==
  ASSUME NEW a \in Int, NEW b \in Int
  PROVE  Max({a, b}) = (IF a >= b THEN a ELSE b) /\ Min({a, b}) = (IF a <= b THEN a ELSE b)
<1>1. {a, b} \in SUBSET Int
  OBVIOUS
<1>2. Max({a, b}) = (IF a >= b THEN a ELSE b)
  <2>1. CASE a >= b
    BY <1>1, <2>1, MaxIs
  <2>2. CASE ~(a >= b)
    BY <1>1, <2>2, MaxIs
  <2> QED BY <2>1, <2>2
<1>3. Min({a, b}) = (IF a <= b THEN a ELSE b)
  <2>1. CASE a <= b
    BY <1>1, <2>1, MinIs
  <2>2. CASE ~(a <= b)
    BY <1>1, <2>2, MinIs
  <2> QED BY <2>1, <2>2
<1> QED BY <1>2, <1>3

(* The ends of three numbers.                                                  *)
LEMMA EndsOfThree ==
  ASSUME NEW f \in [1..3 -> Int]
  PROVE  /\ Max({f[k] : k \in 1..3}) \in Int /\ Min({f[k] : k \in 1..3}) \in Int
         /\ \A k \in 1..3 : Min({f[j] : j \in 1..3}) <= f[k] /\ f[k] <= Max({f[j] : j \in 1..3})
<1>1. PICK s \in SUBSET Int : s = {f[k] : k \in 1..3}
  OBVIOUS
<1>2. PICK a \in Int, b \in Int, c \in Int : a = f[1] /\ b = f[2] /\ c = f[3]
  OBVIOUS
<1>3. s = {a, b, c} /\ \A k \in 1..3 : f[k] \in s
  <2>1. \A k \in 1..3 : k = 1 \/ k = 2 \/ k = 3
    OBVIOUS
  <2>2. \A x : x \in s <=> x = a \/ x = b \/ x = c
    BY <1>1, <1>2, <2>1
  <2> QED BY <1>1, <2>2
<1>4. PICK m \in s : \A i \in s : i <= m
  <2>1. CASE a >= b /\ a >= c
    BY <1>3, <2>1
  <2>2. CASE b >= a /\ b >= c
    BY <1>3, <2>2
  <2>3. CASE c >= a /\ c >= b
    BY <1>3, <2>3
  <2> QED BY <2>1, <2>2, <2>3
<1>5. PICK n \in s : \A i \in s : i >= n
  <2>1. CASE a <= b /\ a <= c
    BY <1>3, <2>1
  <2>2. CASE b <= a /\ b <= c
    BY <1>3, <2>2
  <2>3. CASE c <= a /\ c <= b
    BY <1>3, <2>3
  <2> QED BY <2>1, <2>2, <2>3
<1>6. Max(s) = m /\ Min(s) = n
  BY <1>4, <1>5, MaxIs, MinIs
<1> QED BY <1>1, <1>3, <1>4, <1>5, <1>6

(* The first and the end of the pixels that a bounding box takes in.           *)
LowOf(ns) == Max({Min(ns), 0}) \div Unit
HighOf(ns, size) == Max({Min({Max(ns), (size - 1) * Unit}) + Unit, 0}) \div Unit

(* What is not more than a multiple is, divided, not more.                     *)
LEMMA DivLess ==
  ASSUME NEW u \in Nat \ {0}, NEW m \in Int, NEW c \in Int, NEW h \in 0 .. u - 1
  PROVE  /\ m <= c * u + h => m \div u <= c
         /\ m >= c * u => m \div u >= c
<1>1. PICK q \in Int, r \in 0 .. u - 1 : q = m \div u /\ m = u * q + r
  BY DivMod
<1>2. ASSUME m <= c * u + h, q > c PROVE FALSE
  <2>1. (c + 1) * u <= q * u
    BY <1>2, Monotone
  <2>2. PICK a \in Int, b \in Int : a = c * u /\ b = u * q
    OBVIOUS
  <2>3. (c + 1) * u = a + u /\ q * u = b
    BY <2>2
  <2> QED BY <1>1, <1>2, <2>1, <2>2, <2>3
<1>3. ASSUME m >= c * u, q < c PROVE FALSE
  <2>1. (q + 1) * u <= c * u
    BY <1>3, Monotone
  <2>2. PICK a \in Int, b \in Int : a = c * u /\ b = u * q
    OBVIOUS
  <2>3. (q + 1) * u = b + u
    BY <2>2
  <2> QED BY <1>1, <1>3, <2>1, <2>2, <2>3
<1> QED BY <1>1, <1>2, <1>3

(* It takes in every pixel whose centre is between its corners.                *)
LEMMA BoxOf ==
  ASSUME NEW f \in [1..3 -> Int], NEW size \in Nat, NEW ns, ns = {f[k] : k \in 1..3}
  PROVE  /\ LowOf(ns) \in Nat /\ HighOf(ns, size) \in 0..size
         /\ \A c \in 0 .. size - 1, h \in 0 .. Unit - 1 :
              (\E k \in 1..3 : f[k] <= c * Unit + h) /\ (\E k \in 1..3 : f[k] >= c * Unit + h) =>
                LowOf(ns) <= c /\ c < HighOf(ns, size)
<1>1. PICK u \in Nat \ {0} : u = Unit
  BY RasterizerAssumption
<1>2. PICK low \in Int, high \in Int : low = Min(ns) /\ high = Max(ns)
  BY EndsOfThree
<1>3. \A k \in 1..3 : low <= f[k] /\ f[k] <= high
  BY <1>2, EndsOfThree
<1>4. PICK l \in Nat : l = Max({low, 0}) /\ l >= low /\ (l = low \/ l = 0)
  BY MaxOfTwo
<1>5. PICK e \in Int : e = (size - 1) * u
  BY <1>1
<1>6. PICK g \in Int : g = Min({high, e}) /\ g <= e /\ g <= high /\ (g = high \/ g = e)
  <2>1. Min({high, e}) = IF high <= e THEN high ELSE e
    BY MaxOfTwo
  <2> QED BY <2>1
<1>7. PICK m \in Nat : m = Max({g + u, 0}) /\ (m = g + u \/ m = 0) /\ m >= g + u
  <2>1. PICK z \in Int, o \in Int : z = g + u /\ o = 0
    OBVIOUS
  <2>2. Max({z, o}) = IF z >= o THEN z ELSE o
    BY MaxOfTwo
  <2> QED BY <2>1, <2>2
<1>8. LowOf(ns) = l \div u /\ HighOf(ns, size) = m \div u
  BY <1>1, <1>2, <1>4, <1>5, <1>6, <1>7 DEF LowOf, HighOf
<1>9. PICK a \in Int, b \in Int : a = l \div u /\ b = m \div u
  OBVIOUS
<1>10. a >= 0 /\ b >= 0
  <2>1. l >= 0 * u /\ m >= 0 * u
    OBVIOUS
  <2> QED BY <1>9, <2>1, DivLess
<1>11. b <= size
  <2>1. size * u = e + u /\ size * u >= 0
    BY <1>5
  <2>2. m <= size * u + 0
    <3>1. PICK z \in Nat : z = size * u
      OBVIOUS
    <3>2. m <= z
      BY <1>6, <1>7, <2>1, <3>1
    <3> QED BY <3>1, <3>2
  <2>3. 0 \in 0 .. u - 1
    OBVIOUS
  <2> QED BY <1>9, <2>2, <2>3, DivLess
<1>12. ASSUME NEW c \in 0 .. size - 1, NEW h \in 0 .. u - 1,
              \E k \in 1..3 : f[k] <= c * u + h, \E k \in 1..3 : f[k] >= c * u + h
       PROVE  a <= c /\ c < b
  <2>0. PICK n \in Nat : n = c * u
    OBVIOUS
  <2>1. low <= n + h /\ high >= n + h
    <3>1. PICK k \in 1..3 : f[k] <= n + h
      BY <1>12, <2>0
    <3>2. PICK j \in 1..3 : f[j] >= n + h
      BY <1>12, <2>0
    <3> QED BY <1>3, <3>1, <3>2
  <2>2. l <= n + h
    BY <1>4, <2>1
  <2>3. a <= c
    BY <1>9, <2>0, <2>2, DivLess
  <2>4. n <= e
    <3>1. c * u <= (size - 1) * u
      BY Monotone
    <3> QED BY <1>5, <2>0, <3>1
  <2>5. g >= n
    BY <1>6, <2>1, <2>4
  <2>6. m >= n + u
    BY <1>7, <2>5
  <2>7. (c + 1) * u = n + u
    BY <2>0
  <2>8. b >= c + 1
    <3>1. m >= (c + 1) * u
      BY <2>6, <2>7
    <3>2. 0 \in 0 .. u - 1
      OBVIOUS
    <3> QED BY <1>9, <3>1, <3>2, DivLess
  <2> QED BY <2>3, <2>8
<1>13. LowOf(ns) \in Nat /\ HighOf(ns, size) \in 0..size
  BY <1>8, <1>9, <1>10, <1>11
<1>14. \A c \in 0 .. size - 1, h \in 0 .. Unit - 1 :
              (\E k \in 1..3 : f[k] <= c * Unit + h) /\ (\E k \in 1..3 : f[k] >= c * Unit + h) =>
                LowOf(ns) <= c /\ c < HighOf(ns, size)
  BY <1>1, <1>8, <1>9, <1>12
<1> QED BY <1>13, <1>14

(* Between its corners, in each direction.                                     *)
LEMMA Balanced ==
  ASSUME NEW a \in Nat, NEW b \in Nat, NEW c \in Nat, a + b + c > 0,
         NEW x \in Int, NEW y \in Int, NEW z \in Int, a * x + b * y + c * z = 0
  PROVE  (x <= 0 \/ y <= 0 \/ z <= 0) /\ (x >= 0 \/ y >= 0 \/ z >= 0)
<1>1. ASSUME x >= 1, y >= 1, z >= 1 PROVE FALSE
  <2>1. a * x >= a /\ b * y >= b /\ c * z >= c
    <3>1. 1 * a <= x * a /\ 1 * b <= y * b /\ 1 * c <= z * c
      BY <1>1, Monotone
    <3> QED BY <3>1
  <2>2. PICK i \in Int, j \in Int, k \in Int : i = a * x /\ j = b * y /\ k = c * z
    OBVIOUS
  <2> QED BY <2>1, <2>2
<1>2. ASSUME x <= -1, y <= -1, z <= -1 PROVE FALSE
  <2>1. a * x <= -a /\ b * y <= -b /\ c * z <= -c
    <3>1. x * a <= (-1) * a /\ y * b <= (-1) * b /\ z * c <= (-1) * c
      BY <1>2, Monotone
    <3> QED BY <3>1
  <2>2. PICK i \in Int, j \in Int, k \in Int : i = a * x /\ j = b * y /\ k = c * z
    OBVIOUS
  <2> QED BY <2>1, <2>2
<1> QED BY <1>1, <1>2

(* A centre that a triangle covers is between its corners.                     *)
LEMMA CoversInBox ==
  ASSUME WellFormed(back), NEW t \in Corners, NEW x \in Int, NEW y \in Int,
         Covers(t, <<x, y>>), NEW c, c = Centre(<<x, y>>)
  PROVE  /\ \E k \in 1..3 : Screen(t[k]).x <= c.x
         /\ \E k \in 1..3 : Screen(t[k]).x >= c.x
         /\ \E k \in 1..3 : Screen(t[k]).y <= c.y
         /\ \E k \in 1..3 : Screen(t[k]).y >= c.y
<1>1. c \in Spots
  BY CentreTyped
<1>2. PICK u \in Spots, v \in Spots, w \in Spots :
        u = Screen(t[1]) /\ v = Screen(t[2]) /\ w = Screen(t[3])
  BY ScreenTyped DEF Corners
<1>3. PICK i \in Int, j \in Int, k \in Int :
        i = Edge(v, w, c) /\ j = Edge(w, u, c) /\ k = Edge(u, v, c)
  BY <1>1, <1>2, EdgeTyped
<1>4. PICK area \in Int : area = i + j + k
  OBVIOUS
<1>5. Edge(u, v, w) = area
  BY <1>1, <1>3, <1>4, EdgesSum
<1>6. area # 0 /\ Abs(i) + Abs(j) + Abs(k) = Abs(area)
  BY <1>2, <1>3, <1>5 DEF Covers, Shares, Area
<1>7. PICK sign \in Int : sign = IF area < 0 THEN -1 ELSE 1
  OBVIOUS
<1>8. SignTaken(i, j, k, area, sign)
  BY <1>4, <1>7, Signed3
<1>9. PICK a \in Nat, b \in Nat, d \in Nat : a = sign * i /\ b = sign * j /\ d = sign * k
  BY <1>6, <1>8 DEF SignTaken
<1>10. a + b + d > 0
  BY <1>4, <1>6, <1>7, <1>9
<1>11. /\ i * (u.x - c.x) + j * (v.x - c.x) + k * (w.x - c.x) = 0
       /\ i * (u.y - c.y) + j * (v.y - c.y) + k * (w.y - c.y) = 0
  BY <1>1, <1>2, <1>3, EdgesBalance
<1>12. PICK dx \in Int, ex \in Int, fx \in Int : dx = u.x - c.x /\ ex = v.x - c.x /\ fx = w.x - c.x
  BY <1>1, <1>2 DEF Spots
<1>13. PICK dy \in Int, ey \in Int, fy \in Int : dy = u.y - c.y /\ ey = v.y - c.y /\ fy = w.y - c.y
  BY <1>1, <1>2 DEF Spots
<1>14. sign = 1 \/ sign = -1
  BY <1>7
<1>15. a * dx + b * ex + d * fx = 0
  <2>0. i * dx + j * ex + k * fx = 0
    BY <1>11, <1>12
  <2>1. CASE sign = 1
    <3>1. a = i /\ b = j /\ d = k
      BY <1>9, <2>1
    <3> QED BY <2>0, <3>1
  <2>2. CASE sign = -1
    <3>1. a = -i /\ b = -j /\ d = -k
      BY <1>9, <2>2
    <3>2. (-i) * dx + (-j) * ex + (-k) * fx = -(i * dx + j * ex + k * fx)
      OBVIOUS
    <3> QED BY <2>0, <3>1, <3>2
  <2> QED BY <1>14, <2>1, <2>2
<1>16. a * dy + b * ey + d * fy = 0
  <2>0. i * dy + j * ey + k * fy = 0
    BY <1>11, <1>13
  <2>1. CASE sign = 1
    <3>1. a = i /\ b = j /\ d = k
      BY <1>9, <2>1
    <3> QED BY <2>0, <3>1
  <2>2. CASE sign = -1
    <3>1. a = -i /\ b = -j /\ d = -k
      BY <1>9, <2>2
    <3>2. (-i) * dy + (-j) * ey + (-k) * fy = -(i * dy + j * ey + k * fy)
      OBVIOUS
    <3> QED BY <2>0, <3>1, <3>2
  <2> QED BY <1>14, <2>1, <2>2
<1>17. /\ dx <= 0 \/ ex <= 0 \/ fx <= 0
       /\ dx >= 0 \/ ex >= 0 \/ fx >= 0
  BY <1>10, <1>15, Balanced
<1>18. /\ dy <= 0 \/ ey <= 0 \/ fy <= 0
       /\ dy >= 0 \/ ey >= 0 \/ fy >= 0
  BY <1>10, <1>16, Balanced
<1>19. 1 \in 1..3 /\ 2 \in 1..3 /\ 3 \in 1..3
  OBVIOUS
<1>20. PICK ux \in Int, vx \in Int, wx \in Int, qx \in Int :
         ux = Screen(t[1]).x /\ vx = Screen(t[2]).x /\ wx = Screen(t[3]).x /\ qx = c.x
  BY <1>1, <1>2 DEF Spots
<1>21. PICK uy \in Int, vy \in Int, wy \in Int, qy \in Int :
         uy = Screen(t[1]).y /\ vy = Screen(t[2]).y /\ wy = Screen(t[3]).y /\ qy = c.y
  BY <1>1, <1>2 DEF Spots
<1>22. (ux <= qx \/ vx <= qx \/ wx <= qx) /\ (ux >= qx \/ vx >= qx \/ wx >= qx)
  BY <1>2, <1>12, <1>17, <1>20
<1>23. (uy <= qy \/ vy <= qy \/ wy <= qy) /\ (uy >= qy \/ vy >= qy \/ wy >= qy)
  BY <1>2, <1>13, <1>18, <1>21
<1> QED BY <1>19, <1>20, <1>21, <1>22, <1>23

(* The coordinates of the corners.                                             *)
Xs(t) == {Screen(t[k]).x : k \in 1..3}
Ys(t) == {Screen(t[k]).y : k \in 1..3}

(* A rectangle, row by row.                                                    *)
Grid(x, y, w, h) == [i \in 1 .. w * h |-> <<x + ((i - 1) % w), y + ((i - 1) \div w)>>]

(* The loops of rasterize_triangle go through one.                             *)
LEMMA ScanIsGrid ==
  ASSUME NEW t
  PROVE  Scan(t) = Grid(LowOf(Xs(t)), LowOf(Ys(t)),
                        Max({HighOf(Xs(t), back.width) - LowOf(Xs(t)), 0}),
                        Max({HighOf(Ys(t), back.height) - LowOf(Ys(t)), 0}))
<1>1. PICK s : s = [k \in 1..3 |-> Screen(t[k])]
  OBVIOUS
<1>2. {s[k].x : k \in 1..3} = Xs(t) /\ {s[k].y : k \in 1..3} = Ys(t)
  BY <1>1 DEF Xs, Ys
<1> QED BY <1>1, <1>2 DEF Scan, Grid, LowOf, HighOf

(* Each of its points comes once.                                              *)
IsGrid(g, x, y, w, h, n) ==
  /\ g = [i \in 1..n |-> <<x + ((i - 1) % w), y + ((i - 1) \div w)>>]
  /\ \A i \in 1..n : \E a \in 0 .. w - 1, b \in 0 .. h - 1 : g[i] = <<x + a, y + b>>
  /\ \A i \in 1..n : \A j \in 1..n : g[i] = g[j] => i = j
  /\ \A a \in 0 .. w - 1, b \in 0 .. h - 1 : \E i \in 1..n : g[i] = <<x + a, y + b>>

(* A grid is one.                                                              *)
LEMMA GridApart ==
  ASSUME NEW x \in Nat, NEW y \in Nat, NEW w \in Nat, NEW h \in Nat, NEW n \in Nat, n = w * h
  PROVE  IsGrid(Grid(x, y, w, h), x, y, w, h, n)
<1>1. PICK g : g = Grid(x, y, w, h)
  OBVIOUS
<1>2. g = [i \in 1..n |-> <<x + ((i - 1) % w), y + ((i - 1) \div w)>>]
  BY <1>1 DEF Grid
<1>3. ASSUME NEW i \in 1..n
      PROVE  \E a \in 0 .. w - 1, b \in 0 .. h - 1 : g[i] = <<x + a, y + b>> /\ i - 1 = w * b + a
  <2>0. w \in Nat \ {0}
    <3> SUFFICES ASSUME w = 0 PROVE FALSE
      OBVIOUS
    <3>1. w * h = 0
      OBVIOUS
    <3> QED BY <3>1
  <2>1. PICK a \in 0 .. w - 1, b \in 0 .. h - 1 : a = (i - 1) % w /\ b = (i - 1) \div w
    BY GridCell
  <2>2. PICK m \in Int : m = i - 1
    OBVIOUS
  <2>3. m = w * b + a
    <3>1. PICK q \in Int, r \in 0 .. w - 1 : q = m \div w /\ r = m % w /\ m = w * q + r
      BY <2>0, DivMod
    <3> QED BY <2>1, <2>2, <3>1
  <2>4. g[i] = <<x + a, y + b>>
    BY <1>2, <2>1
  <2> QED BY <2>2, <2>3, <2>4
<1>4. ASSUME NEW i \in 1..n, NEW j \in 1..n, g[i] = g[j] PROVE i = j
  <2>1. PICK a \in 0 .. w - 1, b \in 0 .. h - 1 : g[i] = <<x + a, y + b>> /\ i - 1 = w * b + a
    BY <1>3
  <2>2. PICK c \in 0 .. w - 1, d \in 0 .. h - 1 : g[j] = <<x + c, y + d>> /\ j - 1 = w * d + c
    BY <1>3
  <2>3. a = c /\ b = d
    <3>1. <<x + a, y + b>> = <<x + c, y + d>>
      BY <1>4, <2>1, <2>2
    <3>2. x + a = x + c /\ y + b = y + d
      BY <3>1
    <3> QED BY <3>2
  <2> QED BY <2>1, <2>2, <2>3
<1>5. ASSUME NEW a \in 0 .. w - 1, NEW b \in 0 .. h - 1
      PROVE  \E i \in 1..n : g[i] = <<x + a, y + b>>
  <2>1. \E i \in 1..n : IsCell(i, w, a, b)
    BY CellGrid
  <2>2. PICK i \in 1..n : (i - 1) % w = a /\ (i - 1) \div w = b
    BY <2>1 DEF IsCell
  <2> QED BY <1>2, <2>2
<1>6. \A i \in 1..n : \E a \in 0 .. w - 1, b \in 0 .. h - 1 : g[i] = <<x + a, y + b>>
  BY <1>3
<1>7. \A i \in 1..n : \A j \in 1..n : g[i] = g[j] => i = j
  BY <1>4
<1>8. \A a \in 0 .. w - 1, b \in 0 .. h - 1 : \E i \in 1..n : g[i] = <<x + a, y + b>>
  BY <1>5
<1>9. IsGrid(g, x, y, w, h, n)
  BY <1>2, <1>6, <1>7, <1>8 DEF IsGrid
<1> QED BY <1>1, <1>9

(* A scan is inside, comes once to each point, and to all that the triangle    *)
(* covers.                                                                     *)
Scans(t, n, g) ==
  /\ g = Scan(t) /\ g \in [1..n -> Points(back)]
  /\ \A i \in 1..n : \A j \in 1..n : g[i] = g[j] => i = j
  /\ \A p \in Points(back) : Covers(t, p) => \E i \in 1..n : g[i] = p

(* So is that of the code: the bounding box cuts nothing off.                  *)
LEMMA ScanCovers ==
  ASSUME WellFormed(back), NEW t \in Corners
  PROVE  \E n \in Nat : Scans(t, n, Scan(t))
<1>1. PICK width \in Nat, height \in Nat : width = back.width /\ height = back.height
  BY Shape
<1>2. PICK fx \in [1..3 -> Int] : fx = [k \in 1..3 |-> Screen(t[k]).x]
  BY ScreenTyped DEF Corners, Spots
<1>3. PICK fy \in [1..3 -> Int] : fy = [k \in 1..3 |-> Screen(t[k]).y]
  BY ScreenTyped DEF Corners, Spots
<1>4. Xs(t) = {fx[k] : k \in 1..3} /\ Ys(t) = {fy[k] : k \in 1..3}
  BY <1>2, <1>3 DEF Xs, Ys
<1>5. /\ LowOf(Xs(t)) \in Nat /\ HighOf(Xs(t), width) \in 0..width
      /\ \A c \in 0 .. width - 1, h \in 0 .. Unit - 1 :
              (\E k \in 1..3 : fx[k] <= c * Unit + h) /\ (\E k \in 1..3 : fx[k] >= c * Unit + h) =>
                LowOf(Xs(t)) <= c /\ c < HighOf(Xs(t), width)
  BY <1>4, BoxOf
<1>6. /\ LowOf(Ys(t)) \in Nat /\ HighOf(Ys(t), height) \in 0..height
      /\ \A c \in 0 .. height - 1, h \in 0 .. Unit - 1 :
              (\E k \in 1..3 : fy[k] <= c * Unit + h) /\ (\E k \in 1..3 : fy[k] >= c * Unit + h) =>
                LowOf(Ys(t)) <= c /\ c < HighOf(Ys(t), height)
  BY <1>4, BoxOf
<1>7. PICK x0 \in Nat, x1 \in 0..width : x0 = LowOf(Xs(t)) /\ x1 = HighOf(Xs(t), width)
  BY <1>5
<1>8. PICK y0 \in Nat, y1 \in 0..height : y0 = LowOf(Ys(t)) /\ y1 = HighOf(Ys(t), height)
  BY <1>6
<1>9. PICK w \in Nat : w = Max({x1 - x0, 0}) /\ (w = x1 - x0 \/ w = 0) /\ w >= x1 - x0
  <2>1. PICK z \in Int, o \in Int : z = x1 - x0 /\ o = 0
    OBVIOUS
  <2>2. Max({z, o}) = IF z >= o THEN z ELSE o
    BY MaxOfTwo
  <2> QED BY <2>1, <2>2
<1>10. PICK h \in Nat : h = Max({y1 - y0, 0}) /\ (h = y1 - y0 \/ h = 0) /\ h >= y1 - y0
  <2>1. PICK z \in Int, o \in Int : z = y1 - y0 /\ o = 0
    OBVIOUS
  <2>2. Max({z, o}) = IF z >= o THEN z ELSE o
    BY MaxOfTwo
  <2> QED BY <2>1, <2>2
<1>11. Scan(t) = Grid(x0, y0, w, h)
  BY <1>1, <1>7, <1>8, <1>9, <1>10, ScanIsGrid
<1>12. PICK n \in Nat : n = w * h
  OBVIOUS
<1>13. PICK g : g = Grid(x0, y0, w, h)
  OBVIOUS
<1>14. /\ g = [i \in 1..n |-> <<x0 + ((i - 1) % w), y0 + ((i - 1) \div w)>>]
       /\ \A i \in 1..n : \E a \in 0 .. w - 1, b \in 0 .. h - 1 : g[i] = <<x0 + a, y0 + b>>
       /\ \A i \in 1..n : \A j \in 1..n : g[i] = g[j] => i = j
       /\ \A a \in 0 .. w - 1, b \in 0 .. h - 1 : \E i \in 1..n : g[i] = <<x0 + a, y0 + b>>
  <2>1. IsGrid(g, x0, y0, w, h, n)
    BY <1>12, <1>13, GridApart
  <2> QED BY <2>1 DEF IsGrid
<1>15. \A i \in 1..n : g[i] \in Points(back)
  <2> TAKE i \in 1..n
  <2>1. PICK a \in 0 .. w - 1, b \in 0 .. h - 1 : g[i] = <<x0 + a, y0 + b>>
    BY <1>14
  <2>2. x0 + a \in 0 .. width - 1 /\ y0 + b \in 0 .. height - 1
    BY <1>9, <1>10
  <2> QED BY <1>1, <2>1, <2>2 DEF Points
<1>16. ASSUME NEW p \in Points(back), Covers(t, p) PROVE \E i \in 1..n : g[i] = p
  <2>1. PICK x \in 0 .. width - 1, y \in 0 .. height - 1 : p = <<x, y>>
    BY <1>1 DEF Points
  <2>2. PICK c : c = Centre(<<x, y>>)
    OBVIOUS
  <2>3. PICK e \in 0 .. Unit - 1 : c.x = x * Unit + e /\ c.y = y * Unit + e
    <3>1. \E e \in 0 .. Unit - 1 : Centre(<<x, y>>).x = x * Unit + e /\ Centre(<<x, y>>).y = y * Unit + e
      BY CentreTyped
    <3> QED BY <2>2, <3>1
  <2>4. /\ \E k \in 1..3 : Screen(t[k]).x <= c.x
        /\ \E k \in 1..3 : Screen(t[k]).x >= c.x
        /\ \E k \in 1..3 : Screen(t[k]).y <= c.y
        /\ \E k \in 1..3 : Screen(t[k]).y >= c.y
    BY <1>16, <2>1, <2>2, CoversInBox
  <2>5. /\ \E k \in 1..3 : fx[k] <= x * Unit + e
        /\ \E k \in 1..3 : fx[k] >= x * Unit + e
    BY <1>2, <2>3, <2>4
  <2>6. /\ \E k \in 1..3 : fy[k] <= y * Unit + e
        /\ \E k \in 1..3 : fy[k] >= y * Unit + e
    BY <1>3, <2>3, <2>4
  <2>7. x0 <= x /\ x < x1
    BY <1>5, <1>7, <2>5
  <2>8. y0 <= y /\ y < y1
    BY <1>6, <1>8, <2>6
  <2>9. PICK a \in 0 .. w - 1, b \in 0 .. h - 1 : x = x0 + a /\ y = y0 + b
    <3>1. x - x0 \in 0 .. w - 1 /\ y - y0 \in 0 .. h - 1 /\ x = x0 + (x - x0) /\ y = y0 + (y - y0)
      BY <1>9, <1>10, <2>7, <2>8
    <3> QED BY <3>1
  <2> QED BY <1>14, <2>1, <2>9
<1>17. Scans(t, n, g)
  <2>1. g \in [1..n -> Points(back)]
    BY <1>14, <1>15
  <2> QED BY <1>11, <1>13, <1>14, <1>16, <2>1 DEF Scans
<1> QED BY <1>11, <1>13, <1>17

--------------------------------------------------------------------------------
(* A point is put.                                                             *)

LEMMA BetweenTyped ==
  ASSUME NEW n \in Int, NEW d \in Nat
  PROVE  Between(n, 0, d) = IF n < 0 THEN 0 ELSE IF n > d THEN d ELSE n
<1>1. PICK m \in Int : m = Min({n, d}) /\ m = IF n <= d THEN n ELSE d
  BY MaxOfTwo
<1>2. PICK o \in Int : o = 0
  OBVIOUS
<1>3. Max({o, m}) = IF o >= m THEN o ELSE m
  BY MaxOfTwo
<1> QED BY <1>1, <1>2, <1>3 DEF Between

(* A channel is a byte.                                                        *)
LEMMA ByteTyped ==
  ASSUME NEW n \in Int, NEW d \in Nat \ {0}
  PROVE  Byte(n, d) \in Octet
<1>1. PICK m \in 0..d : m = Between(n, 0, d)
  BY BetweenTyped
<1>2. PICK e \in Nat : e = 255 * m
  OBVIOUS
<1>3. PICK q \in Int, r \in 0 .. d - 1 : q = e \div d /\ e = d * q + r
  BY DivMod
<1>4. 255 * m <= 255 * d /\ 0 * d <= e
  OBVIOUS
<1>5. q >= 0
  <2>1. e \div d >= 0
    BY <1>2, <1>4, DivLess
  <2> QED BY <1>3, <2>1
<1>6. q <= 255
  <2>1. e <= 255 * d + 0 /\ 0 \in 0 .. d - 1
    BY <1>2, <1>4
  <2>2. e \div d <= 255
    BY <2>1, DivLess
  <2> QED BY <1>3, <2>2
<1>7. Byte(n, d) = q
  BY <1>1, <1>2, <1>3 DEF Byte
<1> QED BY <1>5, <1>6, <1>7 DEF Octet

(* Other bytes, and the flag raised.                                           *)
LEMMA RaisedFormed ==
  ASSUME NEW s, WellFormed(s), NEW px \in [1..Len(s.pixels) -> Octet],
         NEW r, r = [s EXCEPT !.pixels = px, !.dirty = TRUE]
  PROVE  WellFormed(r) /\ r.pixels = px /\ Alike(r, s) /\ r.dirty
<1>2. s \in [width : Coordinate, height : Coordinate, stride : Coordinate,
             format : {"rgba8", "bgra8", "bgrx8"}, pixels : Seq(0..255), dirty : BOOLEAN]
  BY DEF WellFormed
<1>3. px \in Seq(0..255) /\ Len(px) = Len(s.pixels)
  <2>1. PICK n \in Nat : n = Len(s.pixels)
    BY Shape
  <2>2. px \in [1..n -> Octet]
    BY <2>1
  <2>3. px \in Seq(Octet) /\ Len(px) = n
    BY <2>2
  <2> QED BY <2>1, <2>3 DEF Octet
<1>4. /\ r.pixels = px /\ r.dirty
      /\ r.width = s.width /\ r.height = s.height /\ r.stride = s.stride /\ r.format = s.format
      /\ r \in [width : Coordinate, height : Coordinate, stride : Coordinate,
             format : {"rgba8", "bgra8", "bgrx8"}, pixels : Seq(0..255), dirty : BOOLEAN]
  BY <1>2, <1>3
<1>5. WellFormed(r)
  BY <1>3, <1>4 DEF WellFormed
<1>6. Points(r) = Points(s)
  BY <1>4 DEF Points
<1>7. \A p : Place(r, p) = Place(s, p)
  BY <1>4 DEF Place
<1>8. \A x, y : Offset(r, x, y) = Offset(s, x, y)
  BY <1>4 DEF Offset
<1>9. Len(r.pixels) = Len(s.pixels)
  BY <1>3, <1>4
<1> QED BY <1>4, <1>5, <1>6, <1>7, <1>8, <1>9 DEF Alike

(* set_pixel shows the colour it is given, at its point only.                  *)
LEMMA PutShown ==
  ASSUME NEW s, WellFormed(s), NEW p \in Points(s), NEW color \in Color,
         NEW r, r = Put(s, p, color)
  PROVE  /\ WellFormed(r) /\ Alike(r, s) /\ r.dirty
         /\ \A q \in Points(s) : q # p => Image(r)[q] = Image(s)[q]
         /\ s.format = "rgba8" => Image(r)[p] = color
<1>1. PICK n \in Nat : n = Len(s.pixels)
  BY Shape
<1>2. PICK b : b = Channels(s.format, Channels(s.format, color))
  OBVIOUS
<1>3. b = color /\ b \in Seq(Octet) /\ Len(b) = 4
  BY <1>2, ChannelsTyped
<1>4. PICK at \in Nat : at = Place(s, p) /\ at + 4 <= n /\ Offset(s, p[1], p[2]) = at
  BY <1>1, PointInside
<1>5. PICK w \in Writings : w = <<at, b>>
  BY <1>3 DEF Writings
<1>6. PICK m \in Memories(n) : m = [pixels |-> s.pixels, sound |-> TRUE]
  BY <1>1, Shape DEF Memories
<1>7. w[1] = at /\ w[2] = b /\ m.sound /\ m.pixels = s.pixels
  BY <1>5, <1>6
<1>8. /\ Write(m, w) \in Memories(n)
      /\ \A i \in 1..n : Write(m, w).pixels[i] = IF i \in Target(w) THEN Told(w, i) ELSE m.pixels[i]
  <2>1. w[1] + Len(w[2]) <= n
    BY <1>3, <1>4, <1>7
  <2> QED BY <1>7, <2>1, WriteKeeps
<1>9. PICK px \in [1..n -> Octet] : px = Write(m, w).pixels
  BY <1>8 DEF Memories
<1>10. r = [s EXCEPT !.pixels = px, !.dirty = TRUE]
  <2>1. s \in [width : Coordinate, height : Coordinate, stride : Coordinate,
             format : {"rgba8", "bgra8", "bgrx8"}, pixels : Seq(0..255), dirty : BOOLEAN]
    BY DEF WellFormed
  <2>2. r = [s EXCEPT !.pixels = Write([pixels |-> s.pixels, sound |-> TRUE], <<at, b>>).pixels,
                      !.dirty = TRUE]
    BY <1>2, <1>4, <2>1 DEF Put
  <2> QED BY <1>5, <1>6, <1>9, <2>2
<1>11. px \in [1..Len(s.pixels) -> Octet]
  BY <1>1
<1>12. WellFormed(r) /\ r.pixels = px /\ Alike(r, s) /\ r.dirty
  BY <1>10, <1>11, RaisedFormed
<1>13. ASSUME NEW q \in Points(s), NEW c \in 1..4
       PROVE  r.pixels[Place(s, q) + c] = IF q = p THEN color[c] ELSE s.pixels[Place(s, q) + c]
  <2>1. PICK i \in 1..n : i = Place(s, q) + c
    <3>1. PICK k \in Nat : k = Place(s, q) /\ k + 4 <= n
      BY <1>1, PointInside
    <3>2. k + c \in 1..n
      BY <3>1
    <3> QED BY <3>1, <3>2
  <2>2. Target(w) = at + 1 .. at + 4
    BY <1>3, <1>7 DEF Target
  <2>3. CASE q = p
    <3>1. i \in Target(w) /\ i - at = c
      BY <1>4, <2>1, <2>2, <2>3
    <3>2. Told(w, i) = color[c]
      BY <1>3, <1>7, <3>1 DEF Told
    <3> QED BY <1>8, <1>9, <1>12, <2>1, <2>3, <3>1, <3>2
  <2>4. CASE q # p
    <3>1. i \notin Target(w)
      <4> SUFFICES ASSUME i \in Target(w) PROVE FALSE
        OBVIOUS
      <4>1. PICK e \in 1..4 : i = at + e
        <5>1. i - at \in 1..4 /\ i = at + (i - at)
          BY <2>2
        <5> QED BY <5>1
      <4>2. Place(s, q) + c = Place(s, p) + e
        BY <1>4, <2>1, <4>1
      <4>3. q = p /\ c = e
        BY <4>2, PlacesApart
      <4> QED BY <2>4, <4>3
    <3> QED BY <1>7, <1>8, <1>9, <1>12, <2>1, <2>4, <3>1
  <2> QED BY <2>3, <2>4
<1>14. ASSUME NEW q \in Points(s), q # p PROVE Image(r)[q] = Image(s)[q]
  <2>1. \A c \in 1..4 : r.pixels[Place(s, q) + c] = s.pixels[Place(s, q) + c]
    BY <1>13, <1>14
  <2>2. Points(r) = Points(s) /\ r.format = s.format /\ Place(r, q) = Place(s, q)
    BY <1>12 DEF Alike
  <2>3. WellFormed(r)
    BY <1>12
  <2> QED BY <2>1, <2>2, <2>3, ImageKept
<1>15. ASSUME s.format = "rgba8" PROVE Image(r)[p] = color
  <2>1. Points(r) = Points(s) /\ r.format = s.format /\ Place(r, p) = Place(s, p)
    BY <1>12 DEF Alike
  <2>2. \A c \in 1..4 : r.pixels[Place(r, p) + c] = color[c]
    BY <1>13, <2>1
  <2>3. WellFormed(r) /\ p \in Points(r)
    BY <1>12, <2>1
  <2>4. Image(r)[p] = Channels(r.format, color)
    BY <2>2, <2>3, ImageTold
  <2> QED BY <1>15, <2>1, <2>4 DEF Channels
<1> QED BY <1>12, <1>14, <1>15

--------------------------------------------------------------------------------
(* Fractions, and the depth and colour of a point.                             *)

Fractions == Int \X (Nat \ {0})

(* They are ordered.                                                           *)
LEMMA LessOrder ==
  ASSUME NEW a \in Fractions, NEW b \in Fractions, NEW c \in Fractions
  PROVE  /\ Less(a, b) \in BOOLEAN
         /\ Less(a, b) /\ ~Less(c, b) => Less(a, c)
         /\ ~Less(b, a) /\ Less(b, c) => Less(a, c)
         /\ ~Less(b, a) /\ ~Less(c, b) => ~Less(c, a)
         /\ ~Less(a, a) /\ (Less(a, b) => ~Less(b, a))
<1>1. PICK an \in Int, ad \in Nat \ {0} : a = <<an, ad>>
  BY DEF Fractions
<1>2. PICK bn \in Int, bd \in Nat \ {0} : b = <<bn, bd>>
  BY DEF Fractions
<1>3. PICK cn \in Int, cd \in Nat \ {0} : c = <<cn, cd>>
  BY DEF Fractions
<1>4. /\ Less(a, b) <=> an * bd < bn * ad
      /\ Less(b, a) <=> bn * ad < an * bd
      /\ Less(c, b) <=> cn * bd < bn * cd
      /\ Less(b, c) <=> bn * cd < cn * bd
      /\ Less(a, c) <=> an * cd < cn * ad
      /\ Less(c, a) <=> cn * ad < an * cd
      /\ Less(a, a) <=> an * ad < an * ad
  BY <1>1, <1>2, <1>3 DEF Less
<1>5. ASSUME NEW x \in Int, NEW y \in Int, NEW k \in Nat \ {0}
      PROVE  x < y <=> x * k < y * k
  <2>1. x < y => (x + 1) * k <= y * k
    BY Monotone
  <2>2. ~(x < y) => y * k <= x * k
    BY Monotone
  <2>3. PICK e \in Int, f \in Int : e = x * k /\ f = y * k
    OBVIOUS
  <2>4. (x + 1) * k = e + k
    BY <2>3
  <2> QED BY <2>1, <2>2, <2>3, <2>4
<1>6. PICK p \in Int, q \in Int, r \in Int :
        p = an * bd * cd /\ q = bn * ad * cd /\ r = cn * ad * bd
  OBVIOUS
<1>7. /\ an * bd < bn * ad <=> p < q
      /\ bn * ad < an * bd <=> q < p
  <2>1. PICK x \in Int, y \in Int : x = an * bd /\ y = bn * ad
    OBVIOUS
  <2>2. x * cd = p /\ y * cd = q
    BY <1>6, <2>1
  <2> QED BY <1>5, <2>1, <2>2
<1>8. /\ cn * bd < bn * cd <=> r < q
      /\ bn * cd < cn * bd <=> q < r
  <2>1. PICK x \in Int, y \in Int : x = cn * bd /\ y = bn * cd
    OBVIOUS
  <2>2. x * ad = r /\ y * ad = q
    BY <1>6, <2>1
  <2> QED BY <1>5, <2>1, <2>2
<1>9. /\ an * cd < cn * ad <=> p < r
      /\ cn * ad < an * cd <=> r < p
  <2>1. PICK x \in Int, y \in Int : x = an * cd /\ y = cn * ad
    OBVIOUS
  <2>2. x * bd = p /\ y * bd = r
    BY <1>6, <2>1
  <2> QED BY <1>5, <2>1, <2>2
<1> QED BY <1>4, <1>7, <1>8, <1>9 DEF Less

--------------------------------------------------------------------------------
(* One point of a triangle.                                                    *)

Rank(t, p) == PointDepth(t, Shares(t, p))
Hue(t, p)  == PointColor(t, Shares(t, p))

(* They are a depth and a colour where it covers the point.                    *)
LEMMA RankTyped ==
  ASSUME WellFormed(back), NEW t \in Corners, NEW p \in Points(back), Covers(t, p)
  PROVE  Rank(t, p) \in Fractions /\ Hue(t, p) \in Color
<1>1. PICK x \in Int, y \in Int : p = <<x, y>>
  BY PointInside
<1>2. PICK a \in Nat, b \in Nat, c \in Nat : Shares(t, p) = <<a, b, c>> /\ a + b + c > 0
  BY <1>1, WeightsAreShares
<1>3. PICK w : w = Shares(t, p)
  OBVIOUS
<1>4. w[1] = a /\ w[2] = b /\ w[3] = c
  BY <1>2, <1>3
<1>5. PICK n \in Nat \ {0} : n = a + b + c
  BY <1>2
<1>6. Area(w) = n
  BY <1>4, <1>5 DEF Area
<1>7. ASSUME NEW f \in [1..3 -> Int]
      PROVE  Mix(w, f) \in Int
  <2>1. PICK i \in Int, j \in Int, k \in Int : i = a * f[1] /\ j = b * f[2] /\ k = c * f[3]
    OBVIOUS
  <2>2. Mix(w, f) = i + j + k
    BY <1>4, <2>1 DEF Mix
  <2> QED BY <2>2
<1>8. \A k \in 1..3 : t[k].z \in Int /\ t[k].color \in [1..4 -> Int]
  <2> TAKE k \in 1..3
  <2>1. t[k] \in Vertices
    BY DEF Corners
  <2> QED BY <2>1 DEF Vertices
<1>9. Rank(t, p) \in Fractions
  <2>1. PICK f \in [1..3 -> Int] : f = [k \in 1..3 |-> t[k].z]
    BY <1>8
  <2>2. Rank(t, p) = <<Mix(w, f), n>>
    BY <1>3, <1>6, <2>1 DEF Rank, PointDepth
  <2> QED BY <1>7, <2>2 DEF Fractions
<1>10. Hue(t, p) \in Color
  <2>1. PICK d \in Nat \ {0} : d = n * One
    BY RasterizerAssumption
  <2>2. ASSUME NEW c1 \in 1..4
        PROVE  Byte(Mix(w, [k \in 1..3 |-> t[k].color[c1]]), Area(w) * One) \in Octet
    <3>1. PICK f \in [1..3 -> Int] : f = [k \in 1..3 |-> t[k].color[c1]]
      BY <1>8
    <3>2. PICK m \in Int : m = Mix(w, f)
      BY <1>7
    <3>3. Byte(m, d) \in Octet
      BY ByteTyped
    <3> QED BY <1>6, <2>1, <3>1, <3>2, <3>3
  <2>3. Hue(t, p) = [c1 \in 1..4 |-> Byte(Mix(w, [k \in 1..3 |-> t[k].color[c1]]), Area(w) * One)]
    BY <1>3 DEF Hue, PointColor
  <2> QED BY <2>2, <2>3 DEF Octet, Color
<1> QED BY <1>9, <1>10

(* What is seen of the triangle at a point, if the depth is tested.            *)
Visible(depths, t, p, test) ==
  Covers(t, p) /\ (test => ~Hidden(depths, t, p, Shares(t, p)))

(* Paint, in these terms.                                                      *)
LEMMA PaintIs ==
  ASSUME WellFormed(back), NEW t \in Corners, NEW p \in Points(back), NEW test, NEW f
  PROVE  /\ Visible(f.depth, t, p, test) =>
              Paint(f, t, p, test) =
                [back |-> Put(f.back, p, Hue(t, p)),
                 depth |-> IF test THEN Set(f.depth, p, Rank(t, p)) ELSE f.depth]
         /\ ~Visible(f.depth, t, p, test) => Paint(f, t, p, test) = f
<1>1. PICK x \in Int, y \in Int : p = <<x, y>>
  BY PointInside
<1>2. PICK w : w = Weights(t, p)
  OBVIOUS
<1>3. /\ Inside(w) <=> Covers(t, p)
      /\ Covers(t, p) => w = Shares(t, p)
  BY <1>1, <1>2, WeightsAreShares
<1>4. Paint(f, t, p, test) =
        IF ~Inside(w) \/ (test /\ Hidden(f.depth, t, p, w)) THEN f
        ELSE [back  |-> Put(f.back, p, PointColor(t, w)),
              depth |-> IF test THEN Set(f.depth, p, PointDepth(t, w)) ELSE f.depth]
  BY <1>2 DEF Paint
<1>5. Covers(t, p) => Rank(t, p) = PointDepth(t, w) /\ Hue(t, p) = PointColor(t, w)
  BY <1>3 DEF Rank, Hue
<1>6. Visible(f.depth, t, p, test) <=> ~(~Inside(w) \/ (test /\ Hidden(f.depth, t, p, w)))
  BY <1>3 DEF Visible
<1> QED BY <1>3, <1>4, <1>5, <1>6 DEF Visible

(* Depth buffers, and frames of one with a buffer like the back buffer.        *)
DepthsOver(D) == [width : Nat, height : Nat, values : [D -> Fractions]]

SurfaceRecords ==
  [width : Coordinate, height : Coordinate, stride : Coordinate,
   format : {"rgba8", "bgra8", "bgrx8"}, pixels : Seq(0..255), dirty : BOOLEAN]

Canvases == {r \in SurfaceRecords : WellFormed(r) /\ Alike(r, back)}

Frames(D) == [back : Canvases, depth : DepthsOver(D)]

(* Any surface like the back buffer is one.                                    *)
LEMMA CanvasIs ==
  ASSUME NEW r, WellFormed(r), Alike(r, back)
  PROVE  r \in Canvases
BY DEF Canvases, WellFormed, SurfaceRecords

(* set_depth sets one depth.                                                   *)
LEMMA SetKeeps ==
  ASSUME NEW D, NEW d \in DepthsOver(D), NEW p, NEW v \in Fractions, NEW e, e = Set(d, p, v)
  PROVE  /\ e \in DepthsOver(D)
         /\ \A q \in D : e.values[q] = IF q = p THEN v ELSE d.values[q]
<1>1. DOMAIN d.values = D
  BY DEF DepthsOver
<1>2. CASE p \in D
  <2>1. e = [d EXCEPT !.values[p] = v]
    BY <1>1, <1>2 DEF Set
  <2>2. e = [d EXCEPT !.values = [d.values EXCEPT ![p] = v]]
    BY <2>1
  <2>3. PICK vs \in [D -> Fractions] : vs = [d.values EXCEPT ![p] = v]
    BY <1>2 DEF DepthsOver
  <2>4. \A q \in D : vs[q] = IF q = p THEN v ELSE d.values[q]
    BY <1>2, <2>3 DEF DepthsOver
  <2>5. e \in DepthsOver(D) /\ e.values = vs
    BY <2>2, <2>3 DEF DepthsOver
  <2> QED BY <2>4, <2>5
<1>3. CASE p \notin D
  <2>1. e = d
    BY <1>1, <1>3 DEF Set
  <2> QED BY <1>3, <2>1
<1> QED BY <1>2, <1>3

(* A point of which nothing, and one of which the triangle was drawn.          *)
Untouched(D, f, g, p) ==
  /\ Image(g.back)[p] = Image(f.back)[p]
  /\ p \in D => g.depth.values[p] = f.depth.values[p]

Treated(D, f, g, t, p, test) ==
  /\ back.format = "rgba8" =>
       Image(g.back)[p] = IF Visible(f.depth, t, p, test) THEN Hue(t, p) ELSE Image(f.back)[p]
  /\ p \in D =>
       g.depth.values[p] =
         IF test /\ Visible(f.depth, t, p, test) THEN Rank(t, p) ELSE f.depth.values[p]

(* A point of the scan is treated and the others are not touched.              *)
LEMMA PointPainted ==
  ASSUME WellFormed(back), NEW D, NEW t \in Corners, NEW p \in Points(back), NEW test,
         NEW f \in Frames(D), NEW g, g = Paint(f, t, p, test)
  PROVE  /\ g \in Frames(D) /\ Treated(D, f, g, t, p, test)
         /\ \A q \in Points(back) : q # p => Untouched(D, f, g, q)
<1>1. CASE ~Visible(f.depth, t, p, test)
  <2>1. g = f
    BY <1>1, PaintIs
  <2> QED BY <1>1, <2>1 DEF Untouched, Treated
<1>2. CASE Visible(f.depth, t, p, test)
  <2>1. PICK v \in Fractions, h \in Color : v = Rank(t, p) /\ h = Hue(t, p)
    BY <1>2, RankTyped DEF Visible
  <2>2. PICK r : r = Put(f.back, p, h)
    OBVIOUS
  <2>3. PICK d : d = IF test THEN Set(f.depth, p, v) ELSE f.depth
    OBVIOUS
  <2>4. g = [back |-> r, depth |-> d]
    BY <1>2, <2>1, <2>2, <2>3, PaintIs
  <2>5. PICK s : s = f.back
    OBVIOUS
  <2>6. WellFormed(s) /\ Alike(s, back)
    BY <2>5 DEF Frames, Canvases
  <2>7. p \in Points(s) /\ Points(s) = Points(back) /\ s.format = back.format
    BY <2>6 DEF Alike
  <2>8. r = Put(s, p, h)
    BY <2>2, <2>5
  <2>9. /\ WellFormed(r) /\ Alike(r, s)
        /\ \A q \in Points(s) : q # p => Image(r)[q] = Image(s)[q]
        /\ s.format = "rgba8" => Image(r)[p] = h
    BY <2>6, <2>7, <2>8, PutShown
  <2>10. Alike(r, back)
    BY <2>6, <2>9 DEF Alike
  <2>11. PICK c \in DepthsOver(D) : c = f.depth
    BY DEF Frames
  <2>12. /\ d \in DepthsOver(D)
         /\ \A q \in D : d.values[q] = IF test /\ q = p THEN v ELSE c.values[q]
    <3>1. CASE test
      <4>1. d = Set(c, p, v)
        BY <2>3, <2>11, <3>1
      <4> QED BY <3>1, <4>1, SetKeeps
    <3>2. CASE ~test
      <4>1. d = c
        BY <2>3, <2>11, <3>2
      <4> QED BY <3>2, <4>1
    <3> QED BY <3>1, <3>2
  <2>13. r \in Canvases
    BY <2>9, <2>10, CanvasIs
  <2>14. g.back = r /\ g.depth = d /\ g \in Frames(D)
    BY <2>4, <2>12, <2>13 DEF Frames
  <2>15. Treated(D, f, g, t, p, test)
    BY <1>2, <2>1, <2>5, <2>7, <2>9, <2>11, <2>12, <2>14 DEF Treated
  <2>16. \A q \in Points(back) : q # p => Untouched(D, f, g, q)
    BY <2>5, <2>7, <2>9, <2>11, <2>12, <2>14 DEF Untouched
  <2> QED BY <2>14, <2>15, <2>16
<1> QED BY <1>1, <1>2

--------------------------------------------------------------------------------
(* The points of a scan, one after the other.                                  *)

PaintChain(link, D, n, t, test) ==
  /\ link \in [0..n -> Frames(D)]
  /\ link[0] = [back |-> back, depth |-> depth] /\ link[n] = Rasterized(t, test)
  /\ \A k \in 1..n : link[k] = Paint(link[k - 1], t, Scan(t)[k], test)

(* The first is what is there.                                                 *)
LEMMA BaseFrame ==
  ASSUME WellFormed(back), NEW D, depth \in DepthsOver(D)
  PROVE  [back |-> back, depth |-> depth] \in Frames(D)
<1>1. Alike(back, back)
  BY DEF Alike
<1>2. back \in Canvases
  BY <1>1, CanvasIs
<1> QED BY <1>2 DEF Frames

(* rasterize_triangle goes through them.                                       *)
LEMMA ScanChained ==
  ASSUME WellFormed(back), NEW D, depth \in DepthsOver(D), NEW t \in Corners, NEW test,
         NEW n \in Nat, NEW scan \in [1..n -> Points(back)], scan = Scan(t)
  PROVE  \E link : PaintChain(link, D, n, t, test)
<1>1. PICK base : base = [back |-> back, depth |-> depth]
  OBVIOUS
<1>2. base \in Frames(D)
  BY <1>1, BaseFrame
<1>3. PICK step : step = [x \in Frames(D) \X (1..n) |-> Paint(x[1], t, scan[x[2]], test)]
  OBVIOUS
<1>4. step \in [Frames(D) \X (1..n) -> Frames(D)]
  <2>1. \A x \in Frames(D) \X (1..n) : Paint(x[1], t, scan[x[2]], test) \in Frames(D)
    <3> TAKE x \in Frames(D) \X (1..n)
    <3>1. PICK f \in Frames(D), p \in Points(back) : f = x[1] /\ p = scan[x[2]]
      OBVIOUS
    <3>2. Paint(f, t, p, test) \in Frames(D)
      BY PointPainted
    <3> QED BY <3>1, <3>2
  <2> QED BY <1>3, <2>1
<1>5. \A f \in Frames(D), k \in 1..n : step[<<f, k>>] = Paint(f, t, scan[k], test)
  BY <1>3
<1> DEFINE Fold(g) == g = [s1 \in SUBSET (1..n) |->
                             IF s1 = {} THEN base ELSE Paint(g[s1 \ {Max(s1)}], t, scan[Max(s1)], test)]
<1>6. PICK g \in [SUBSET (1..n) -> Frames(D)] : Chain(base, step, n, g)
  BY <1>2, <1>4, ChainExists
<1>7. Fold(g)
  <2>1. \A s1 \in SUBSET (1..n) : s1 # {} => Max(s1) \in 1..n
    BY MaxIn
  <2>2. ASSUME NEW s1 \in SUBSET (1..n), s1 # {}
        PROVE  step[<<g[s1 \ {Max(s1)}], Max(s1)>>] = Paint(g[s1 \ {Max(s1)}], t, scan[Max(s1)], test)
    <3>1. PICK f \in Frames(D), k \in 1..n : f = g[s1 \ {Max(s1)}] /\ k = Max(s1)
      BY <2>1, <2>2
    <3> QED BY <1>5, <3>1
  <2> QED BY <1>6, <2>2 DEF Chain
<1>8. PICK h : h = CHOOSE f : Fold(f)
  OBVIOUS
<1>9. Fold(h)
  BY <1>7, <1>8
<1>10. Rasterized(t, test) = h[1..n]
  <2>1. DOMAIN scan = 1..n
    OBVIOUS
  <2> QED BY <1>1, <1>8, <2>1 DEF Rasterized, FoldLeft, MapThenFoldSet
<1> HIDE DEF Fold
<1>11. /\ h[1..0] = base
       /\ \A k \in 1..n : h[1..(k - 1)] \in Frames(D) => h[1..k] = step[<<h[1..(k - 1)], k>>]
  <2>1. \A s1 \in SUBSET (1..n) :
          h[s1] = IF s1 = {} THEN base ELSE Paint(h[s1 \ {Max(s1)}], t, scan[Max(s1)], test)
    BY <1>9 DEF Fold
  <2>2. h[1..0] = base
    <3>1. 1..0 = {} /\ {} \in SUBSET (1..n)
      OBVIOUS
    <3> QED BY <2>1, <3>1
  <2>3. ASSUME NEW k \in 1..n, h[1..(k - 1)] \in Frames(D)
        PROVE  h[1..k] = step[<<h[1..(k - 1)], k>>]
    <3>0. /\ 1..k \in SUBSET (1..n) /\ 1..k # {} /\ Max(1..k) = k /\ (1..k) \ {k} = 1..(k - 1)
          /\ 1..0 = {} /\ {} \in SUBSET (1..n)
      BY FirstOf
    <3>q. PICK q \in SUBSET (1..n) : q = 1..k
      BY <3>0
    <3>2. q # {} /\ Max(q) = k /\ q \ {Max(q)} = 1..(k - 1)
      BY <3>0, <3>q
    <3>3. h[q] = Paint(h[q \ {Max(q)}], t, scan[Max(q)], test)
      BY <2>1, <3>2
    <3>1. h[1..k] = Paint(h[1..(k - 1)], t, scan[k], test)
      BY <3>q, <3>2, <3>3
    <3> QED BY <1>5, <2>3, <3>1
  <2> QED BY <2>2, <2>3
<1> DEFINE link == [k \in 0..n |-> h[1..k]]
<1>12. \A k \in 1..n : link[k] = h[1..k] /\ link[k - 1] = h[1..(k - 1)]
  <2> TAKE k \in 1..n
  <2>1. k \in 0..n /\ k - 1 \in 0..n
    OBVIOUS
  <2> QED BY <2>1
<1>13. link[0] = base /\ link[n] = h[1..n]
  BY <1>11
<1>14. \A k \in 1..n : link[k - 1] \in Frames(D) => link[k] = Paint(link[k - 1], t, scan[k], test)
  <2> HIDE DEF link
  <2> TAKE k \in 1..n
  <2> HAVE link[k - 1] \in Frames(D)
  <2>1. link[k] = step[<<link[k - 1], k>>]
    BY <1>11, <1>12
  <2> QED BY <1>5, <2>1
<1>15. \A k \in 1..n : link[k - 1] \in Frames(D) => link[k] \in Frames(D)
  <2> HIDE DEF link
  <2> TAKE k \in 1..n
  <2> HAVE link[k - 1] \in Frames(D)
  <2>1. PICK f \in Frames(D), p \in Points(back) : f = link[k - 1] /\ p = scan[k]
    OBVIOUS
  <2>2. Paint(f, t, p, test) \in Frames(D)
    BY PointPainted
  <2> QED BY <1>14, <2>1, <2>2
<1>16. \A k \in 0..n : link[k] \in Frames(D)
  <2> HIDE DEF link
  <2> QED BY <1>2, <1>13, <1>15, EachOf
<1>17. link \in [0..n -> Frames(D)]
  BY <1>16
<1>18. \A k \in 1..n : link[k] = Paint(link[k - 1], t, scan[k], test)
  <2> HIDE DEF link
  <2> TAKE k \in 1..n
  <2>1. k - 1 \in 0..n
    OBVIOUS
  <2> QED BY <1>14, <1>16, <2>1
<1>19. PaintChain(link, D, n, t, test)
  <2> HIDE DEF link
  <2> QED BY <1>1, <1>10, <1>13, <1>17, <1>18 DEF PaintChain
<1> QED BY <1>19

(* What has been touched before, and what is touched later.                    *)
LEMMA UntouchedIs ==
  ASSUME NEW D, NEW f \in Frames(D), NEW g \in Frames(D), NEW t, NEW p, Untouched(D, f, g, p),
         NEW test
  PROVE  Visible(g.depth, t, p, test) <=> Visible(f.depth, t, p, test)
<1>1. DOMAIN f.depth.values = D /\ DOMAIN g.depth.values = D
  BY DEF Frames, DepthsOver
<1>2. At(g.depth, p) = At(f.depth, p)
  BY <1>1 DEF At, Untouched
<1>3. Hidden(g.depth, t, p, Shares(t, p)) <=> Hidden(f.depth, t, p, Shares(t, p))
  BY <1>2 DEF Hidden
<1> QED BY <1>3 DEF Visible

(* To be treated once is to be treated.                                        *)
LEMMA TouchedOnce ==
  ASSUME NEW D, NEW f \in Frames(D), NEW g \in Frames(D), NEW h, NEW t, NEW p, NEW test
  PROVE  /\ Untouched(D, f, g, p) /\ Untouched(D, g, h, p) => Untouched(D, f, h, p)
         /\ Untouched(D, f, g, p) /\ Treated(D, g, h, t, p, test) => Treated(D, f, h, t, p, test)
         /\ Treated(D, f, g, t, p, test) /\ Untouched(D, g, h, p) => Treated(D, f, h, t, p, test)
         /\ Untouched(D, f, f, p)
<1>1. Untouched(D, f, g, p) /\ Untouched(D, g, h, p) => Untouched(D, f, h, p)
  BY DEF Untouched
<1>2. ASSUME Untouched(D, f, g, p), Treated(D, g, h, t, p, test)
      PROVE  Treated(D, f, h, t, p, test)
  <2>1. Visible(g.depth, t, p, test) <=> Visible(f.depth, t, p, test)
    BY <1>2, UntouchedIs
  <2> QED BY <1>2, <2>1 DEF Untouched, Treated
<1>3. Treated(D, f, g, t, p, test) /\ Untouched(D, g, h, p) => Treated(D, f, h, t, p, test)
  BY DEF Untouched, Treated
<1>4. Untouched(D, f, f, p)
  BY DEF Untouched
<1> QED BY <1>1, <1>2, <1>3, <1>4

(* After the first k points, these are treated and the others untouched.       *)
Done(D, f, g, t, test, scan, k) ==
  /\ g \in Frames(D)
  /\ \A i \in 1..k : Treated(D, f, g, t, scan[i], test)
  /\ \A p \in Points(back) : (\A i \in 1..k : scan[i] # p) => Untouched(D, f, g, p)

(* One more point.                                                             *)
LEMMA DoneNext ==
  ASSUME WellFormed(back), NEW D, NEW t \in Corners, NEW test,
         NEW n \in Nat, NEW scan \in [1..n -> Points(back)],
         \A i \in 1..n : \A j \in 1..n : scan[i] = scan[j] => i = j,
         NEW k \in 1..n, NEW f \in Frames(D), NEW g, NEW h,
         Done(D, f, g, t, test, scan, k - 1), h = Paint(g, t, scan[k], test)
  PROVE  Done(D, f, h, t, test, scan, k)
<1>1. PICK p \in Points(back) : p = scan[k]
  OBVIOUS
<1>2. g \in Frames(D)
  BY DEF Done
<1>3. /\ h \in Frames(D) /\ Treated(D, g, h, t, p, test)
      /\ \A q \in Points(back) : q # p => Untouched(D, g, h, q)
  <2>1. h = Paint(g, t, p, test)
    BY <1>1
  <2> QED BY <1>2, <2>1, PointPainted
<1>4. ASSUME NEW i \in 1..(k - 1)
      PROVE  i \in 1..n /\ scan[i] # p /\ scan[i] \in Points(back) /\ Treated(D, f, g, t, scan[i], test)
  <2>1. i \in 1..n /\ i # k
    OBVIOUS
  <2> QED BY <1>1, <1>4, <2>1 DEF Done
<1>5. ASSUME NEW i \in 1..k
      PROVE  Treated(D, f, h, t, scan[i], test)
  <2>1. CASE i = k
    <3>1. Untouched(D, f, g, p)
      BY <1>1, <1>4 DEF Done
    <3> QED BY <1>1, <1>2, <1>3, <2>1, <3>1, TouchedOnce
  <2>2. CASE i # k
    <3>1. i \in 1..(k - 1)
      BY <2>2
    <3>2. PICK q \in Points(back) : q = scan[i] /\ q # p /\ Treated(D, f, g, t, q, test)
      BY <1>4, <3>1
    <3>3. Untouched(D, g, h, q)
      BY <1>3, <3>2
    <3> QED BY <1>2, <3>2, <3>3, TouchedOnce
  <2> QED BY <2>1, <2>2
<1>6. ASSUME NEW q \in Points(back), \A i \in 1..k : scan[i] # q
      PROVE  Untouched(D, f, h, q)
  <2>1. q # p
    BY <1>1, <1>6
  <2>2. \A i \in 1..(k - 1) : scan[i] # q
    BY <1>6
  <2>3. Untouched(D, f, g, q)
    BY <2>2 DEF Done
  <2>4. Untouched(D, g, h, q)
    BY <1>3, <2>1
  <2> QED BY <1>2, <2>3, <2>4, TouchedOnce
<1> QED BY <1>3, <1>5, <1>6 DEF Done

(* rasterize_triangle paints every point that the triangle covers and is not   *)
(* hidden at, once, and no other.                                              *)
Drawn(D, f, g, t, test) ==
  g \in Frames(D) /\ \A p \in Points(back) : Treated(D, f, g, t, p, test)

(* So is every triangle, whatever its corners, the test and what was there.    *)
LEMMA TriangleDrawn ==
  ASSUME WellFormed(back), NEW D, depth \in DepthsOver(D), NEW t \in Corners, NEW test
  PROVE  Drawn(D, [back |-> back, depth |-> depth], Rasterized(t, test), t, test)
<1>1. PICK n \in Nat : Scans(t, n, Scan(t))
  BY ScanCovers
<1>2. PICK scan : scan = Scan(t)
  OBVIOUS
<1>3. /\ scan \in [1..n -> Points(back)]
      /\ \A i \in 1..n : \A j \in 1..n : scan[i] = scan[j] => i = j
      /\ \A p \in Points(back) : Covers(t, p) => \E i \in 1..n : scan[i] = p
  BY <1>1, <1>2 DEF Scans
<1>4. PICK link : PaintChain(link, D, n, t, test)
  BY <1>2, <1>3, ScanChained
<1>5. PICK f : f = [back |-> back, depth |-> depth]
  OBVIOUS
<1>6. f \in Frames(D) /\ f = link[0]
  BY <1>4, <1>5, BaseFrame DEF PaintChain
<1>7. Done(D, f, link[0], t, test, scan, 0)
  <2>1. \A p : Untouched(D, f, f, p)
    BY DEF Untouched
  <2> QED BY <1>6, <2>1 DEF Done
<1>8. ASSUME NEW k \in 1..n, Done(D, f, link[k - 1], t, test, scan, k - 1)
      PROVE  Done(D, f, link[k], t, test, scan, k)
  <2>1. link[k] = Paint(link[k - 1], t, scan[k], test)
    BY <1>2, <1>4 DEF PaintChain
  <2> QED BY <1>3, <1>6, <1>8, <2>1, DoneNext
<1>9. Done(D, f, link[n], t, test, scan, n)
  <2> DEFINE S == {k \in 0..n : Done(D, f, link[k], t, test, scan, k)}
             id == [k \in 0..n |-> k]
  <2>1. id[0] \in S
    BY <1>7
  <2>2. \A k \in 1..n : id[k - 1] \in S => id[k] \in S
    <3> TAKE k \in 1..n
    <3>1. k \in 0..n /\ k - 1 \in 0..n /\ id[k] = k /\ id[k - 1] = k - 1
      OBVIOUS
    <3> QED BY <1>8, <3>1
  <2>3. \A k \in 0..n : id[k] \in S
    <3> HIDE DEF S, id
    <3> QED BY <2>1, <2>2, EachOf
  <2>4. id[n] = n
    OBVIOUS
  <2> QED BY <2>3, <2>4
<1>10. PICK g : g = link[n] /\ g = Rasterized(t, test)
  BY <1>4 DEF PaintChain
<1>11. ASSUME NEW p \in Points(back)
       PROVE  Treated(D, f, g, t, p, test)
  <2>1. CASE \E i \in 1..n : scan[i] = p
    BY <1>9, <1>10, <2>1 DEF Done
  <2>2. CASE ~ \E i \in 1..n : scan[i] = p
    <3>1. Untouched(D, f, g, p)
      BY <1>9, <1>10, <2>2 DEF Done
    <3>2. ~Covers(t, p)
      BY <1>3, <2>2
    <3>3. ~Visible(f.depth, t, p, test)
      BY <3>2 DEF Visible
    <3> QED BY <3>1, <3>3 DEF Untouched, Treated
  <2> QED BY <2>1, <2>2
<1>12. g \in Frames(D)
  BY <1>9, <1>10 DEF Done
<1> QED BY <1>5, <1>10, <1>11, <1>12 DEF Drawn

--------------------------------------------------------------------------------
(* The calls of the rasterizer.                                                *)

Pairs == [1..2 -> Int]

CallFormed(c) ==
  \/ c \in [pc : {"idle", "ok", "error", "panic"}]
  \/ c \in [pc : {"list"}, left : Seq(Vertices), test : BOOLEAN] /\ Len(c.left) % 3 = 0
  \/ c \in [pc : {"line"}, v0 : Vertices, v1 : Vertices,
            from : Pairs, to : Pairs, at : Pairs, err : Int]

Items ==
  [kind : {"triangle"}, vertices : Corners, test : BOOLEAN]
    \cup [kind : {"line"}, vertices : Vertices \X Vertices, from : Pairs, to : Pairs]

SceneFormed == scene \in [base : {scene.base}, drawn : Seq(Items), known : BOOLEAN]

DepthFormed == depth \in DepthsOver(DOMAIN depth.values)

RasterFormed == DepthFormed /\ CallFormed(call) /\ SceneFormed

(* A depth buffer that is sized or cleared is far everywhere.                  *)
LEMMA FreshFormed ==
  ASSUME NEW w \in Nat, NEW h \in Nat, NEW d, d = Fresh(w, h)
  PROVE  /\ d \in DepthsOver(DOMAIN d.values)
         /\ \A p \in DOMAIN d.values : d.values[p] = Far
<1>1. Far \in Fractions
  BY RasterizerAssumption DEF Far, Fractions
<1>2. d.values = [p \in (0 .. w - 1) \X (0 .. h - 1) |-> Far]
  BY DEF Fresh
<1>3. d.values \in [DOMAIN d.values -> Fractions] /\ \A p \in DOMAIN d.values : d.values[p] = Far
  BY <1>1, <1>2
<1>4. d = [width |-> w, height |-> h, values |-> d.values]
  BY DEF Fresh
<1> QED BY <1>3, <1>4 DEF DepthsOver

(* The two parts of a frame.                                                   *)
LEMMA FrameDepth ==
  ASSUME NEW D, NEW f \in Frames(D)
  PROVE  /\ f.depth \in DepthsOver(DOMAIN f.depth.values) /\ DOMAIN f.depth.values = D
         /\ WellFormed(f.back) /\ Alike(f.back, back)
<1>1. DOMAIN f.depth.values = D
  BY DEF Frames, DepthsOver
<1> QED BY <1>1 DEF Frames, Canvases

(* Numbers stay numbers:                                                       *)
LEMMA SignedTyped == \A n \in Int : Signed(n) \in Int
<1> TAKE n \in Int
<1>1. PICK h \in Int : h = I32 \div 2
  BY RasterizerAssumption
<1>2. PICK m \in Int : m = n + h
  BY <1>1
<1>3. I32 \in Nat \ {0}
  BY RasterizerAssumption
<1>4. m % I32 \in Int
  BY <1>3, DivMod
<1> QED BY <1>1, <1>2, <1>4 DEF Signed

(* their size,                                                                 *)
LEMMA AbsTyped == \A n \in Int : Abs(n) \in Nat
BY DEF Abs

(* their part of type i32,                                                     *)
LEMMA TruncatedTyped == \A n \in Int : Truncated(n) \in Int
<1> TAKE n \in Int
<1>1. PICK h \in Int : h = I32 \div 2
  BY RasterizerAssumption
<1>2. Unit \in Nat \ {0}
  BY RasterizerAssumption
<1>3. PICK m \in Int : m = IF n < 0 THEN -(-n \div Unit) ELSE n \div Unit
  <2>1. n \div Unit \in Int
    BY <1>2, DivMod
  <2>2. PICK k \in Int : k = -n
    OBVIOUS
  <2>3. k \div Unit \in Int
    BY <1>2, DivMod
  <2> QED BY <2>1, <2>2, <2>3
<1>4. PICK lo \in Int, hi \in Int : lo = -(I32 \div 2) /\ hi = (I32 \div 2) - 1
  BY <1>1
<1>5. Between(m, lo, hi) \in Int
  <2>1. PICK a \in Int : a = Min({m, hi})
    BY MaxOfTwo
  <2>2. Max({lo, a}) \in Int
    BY MaxOfTwo
  <2> QED BY <2>1, <2>2 DEF Between
<1> QED BY <1>3, <1>4, <1>5 DEF Truncated

(* and the pixel of a vertex.                                                  *)
LEMMA PixelledTyped ==
  ASSUME WellFormed(back), NEW v \in Vertices
  PROVE  Pixelled(v) \in Pairs
<1>1. PICK s \in Spots : s = Screen(v)
  BY ScreenTyped
<1>2. s.x \in Int /\ s.y \in Int
  BY DEF Spots
<1>3. PICK a \in Int, b \in Int : a = Truncated(s.x) /\ b = Truncated(s.y)
  BY <1>2, TruncatedTyped
<1>4. Pixelled(v) = <<a, b>>
  BY <1>1, <1>3 DEF Pixelled
<1> QED BY <1>4 DEF Pairs

(* A triangle is taken from a list of triangles.                               *)
LEMMA ListTaken ==
  ASSUME NEW left \in Seq(Vertices), Len(left) % 3 = 0, left # << >>
  PROVE  /\ SubSeq(left, 1, 3) \in Corners
         /\ SubSeq(left, 4, Len(left)) \in Seq(Vertices)
         /\ Len(SubSeq(left, 4, Len(left))) % 3 = 0
<1>1. PICK n \in Nat : n = Len(left) /\ n # 0
  OBVIOUS
<1>2. PICK q \in Int : n = 3 * q
  <2>1. PICK q \in Int, r \in 0..2 : q = n \div 3 /\ r = n % 3 /\ n = 3 * q + r
    <3>1. 3 \in Nat \ {0} /\ 3 - 1 = 2
      OBVIOUS
    <3> QED BY <3>1, DivMod
  <2> QED BY <1>1, <2>1
<1>3. n >= 3 /\ n - 3 = 3 * (q - 1) + 0
  BY <1>1, <1>2
<1>4. (n - 3) % 3 = 0
  <2>1. 0 \in 0 .. 3 - 1 /\ q - 1 \in Int /\ n - 3 \in Int /\ 3 \in Nat \ {0}
    OBVIOUS
  <2> QED BY <1>3, <2>1, RemainderIs
<1>5. SubSeq(left, 1, 3) = [i \in 1..3 |-> left[i]]
  BY <1>1, <1>3
<1>6. SubSeq(left, 1, 3) \in Corners
  <2>1. \A i \in 1..3 : left[i] \in Vertices
    BY <1>1, <1>3
  <2> QED BY <1>5, <2>1 DEF Corners
<1>7. Len(SubSeq(left, 4, n)) = n - 3 /\ SubSeq(left, 4, n) \in Seq(Vertices)
  BY <1>1, <1>3
<1> QED BY <1>1, <1>4, <1>6, <1>7

(* The invariant holds at first.                                               *)
LEMMA RasterInitially == FrameInit /\ RasterInit => FrameInv /\ RasterFormed
<1> SUFFICES ASSUME FrameInit, RasterInit PROVE FrameInv /\ RasterFormed
  OBVIOUS
<1>1. FrameInv
  BY FrameInitially
<1>2. DepthFormed
  BY FreshFormed DEF RasterInit, DepthFormed
<1>3. CallFormed(call)
  BY DEF RasterInit, Idle, CallFormed
<1>4. SceneFormed
  BY DEF RasterInit, SceneFormed
<1> QED BY <1>1, <1>2, <1>3, <1>4 DEF RasterFormed

--------------------------------------------------------------------------------
(* Each call and each step of one keeps the types.                             *)

LEMMA SizeKept ==
  ASSUME FrameInv, RasterFormed, NEW w \in Nat, NEW h \in Nat, ResizeDepth(<<w, h>>)
  PROVE  /\ FrameInv' /\ RasterFormed' /\ Alike(back', back) /\ back' = back
         /\ \A p \in DOMAIN depth'.values : depth'.values[p] = Far
<1>1. /\ depth' = Fresh(w, h)
      /\ scene' = [scene EXCEPT !.base = Image(back), !.drawn = <<>>]
      /\ back' = back /\ call' = call /\ front' = front /\ draws' = draws
  BY DEF ResizeDepth, OthersUnchanged
<1>2. DepthFormed' /\ \A p \in DOMAIN depth'.values : depth'.values[p] = Far
  BY <1>1, FreshFormed DEF DepthFormed
<1>3. CallFormed(call)'
  BY <1>1 DEF RasterFormed
<1>4. SceneFormed'
  <2>0. PICK none : none = << >>
    OBVIOUS
  <2>e. none \in Seq(Items)
    BY <2>0
  <2>1. PICK image : image = Image(back)
    OBVIOUS
  <2>2. scene' = [scene EXCEPT !.base = image, !.drawn = none]
    BY <1>1, <2>0, <2>1
  <2>3. scene' \in [base : {image}, drawn : Seq(Items), known : BOOLEAN] /\ scene'.base = image
    BY <2>2, <2>e DEF RasterFormed, SceneFormed
  <2> QED BY <2>3 DEF SceneFormed
<1>5. FrameInv'
  BY <1>1 DEF FrameInv
<1>6. Alike(back', back)
  BY <1>1 DEF Alike
<1> QED BY <1>1, <1>2, <1>3, <1>4, <1>5, <1>6 DEF RasterFormed

(* A pass of the executor.                                                     *)
LEMMA PassKept ==
  ASSUME FrameInv, RasterFormed, BeginPass
  PROVE  /\ FrameInv' /\ RasterFormed' /\ Alike(back', back)
         /\ \A p \in DOMAIN depth'.values : depth'.values[p] = Far
<1>1. PICK d : d = [op |-> "clear", color |-> Black]
  OBVIOUS
<1>2. Operation(d)
  <2>1. Black \in Color
    BY RasterizerAssumption
  <2>2. d \in [op : {"clear"}, color : Color]
    BY <1>1, <2>1
  <2> QED BY <2>2 DEF Operation
<1>3. PICK s : s = back
  OBVIOUS
<1>4. WellFormed(s)
  BY <1>3 DEF FrameInv
<1>5. PICK px \in [1..Len(s.pixels) -> Octet] : px = Written(s, Writes(s, d)).pixels
  BY <1>2, <1>4, WrittenBytes
<1>6. PICK r : r = [s EXCEPT !.pixels = px, !.dirty = TRUE]
  OBVIOUS
<1>7. WellFormed(r) /\ Alike(r, s)
  BY <1>4, <1>6, RaisedFormed
<1>8. /\ back' = r /\ depth' = Fresh(back.width, back.height)
      /\ scene' = [base |-> Image(back'), drawn |-> <<>>, known |-> TRUE]
      /\ call' = call /\ front' = front /\ draws' = draws
  BY <1>1, <1>3, <1>5, <1>6 DEF BeginPass, OthersUnchanged
<1>9. DepthFormed' /\ \A p \in DOMAIN depth'.values : depth'.values[p] = Far
  <2>1. back.width \in Nat /\ back.height \in Nat
    BY <1>3, <1>4, Shape
  <2> QED BY <1>8, <2>1, FreshFormed DEF DepthFormed
<1>10. SceneFormed'
  BY <1>8 DEF SceneFormed
<1>11. CallFormed(call)'
  BY <1>8 DEF RasterFormed
<1>12. FrameInv'
  BY <1>7, <1>8 DEF FrameInv
<1> QED BY <1>3, <1>7, <1>8, <1>9, <1>10, <1>11, <1>12 DEF RasterFormed

(* The beginning of a list of triangles,                                       *)
LEMMA ListKept ==
  ASSUME FrameInv, RasterFormed, NEW mesh \in Meshes, NEW test \in BOOLEAN, DrawTriangles(mesh, test)
  PROVE  FrameInv' /\ RasterFormed' /\ back' = back /\ depth' = depth /\ scene' = scene
<1>1. back' = back /\ depth' = depth /\ scene' = scene /\ front' = front /\ draws' = draws
  BY DEF DrawTriangles, OthersUnchanged
<1>2. mesh \in Seq(Vertices)
  BY RasterizerAssumption
<1>3. CallFormed(call)'
  BY <1>2 DEF DrawTriangles, CallFormed
<1>4. DepthFormed' /\ SceneFormed' /\ FrameInv'
  BY <1>1 DEF RasterFormed, DepthFormed, SceneFormed, FrameInv
<1> QED BY <1>1, <1>3, <1>4 DEF RasterFormed

(* and of a line.                                                              *)
LEMMA LineStartKept ==
  ASSUME FrameInv, RasterFormed, NEW v0 \in Vertices, NEW v1 \in Vertices, DrawLine(v0, v1)
  PROVE  FrameInv' /\ RasterFormed' /\ back' = back /\ depth' = depth
<1>1. back' = back /\ depth' = depth /\ front' = front /\ draws' = draws
  BY DEF DrawLine, OthersUnchanged
<1>2. PICK from \in Pairs, to \in Pairs : from = Pixelled(v0) /\ to = Pixelled(v1)
  BY PixelledTyped DEF FrameInv
<1>3. PICK d : d = [k \in 1..2 |-> to[k] - from[k]]
  OBVIOUS
<1>4. \A k \in 1..2 : d[k] \in Int
  BY <1>3 DEF Pairs
<1>5. PICK e \in Int : e = Signed(Abs(Signed(d[1])) - Abs(Signed(d[2])))
  <2>1. PICK a \in Int, b \in Int : a = Signed(d[1]) /\ b = Signed(d[2])
    BY <1>4, SignedTyped
  <2>2. PICK i \in Int : i = Abs(a) - Abs(b)
    BY AbsTyped
  <2> QED BY <2>1, <2>2, SignedTyped
<1>6. call' = IF Overflown({d[1], d[2], Abs(d[1]), Abs(d[2])}) THEN [pc |-> "panic"]
              ELSE [pc |-> "line", v0 |-> v0, v1 |-> v1, from |-> from, to |-> to, at |-> from,
                    err |-> e]
  BY <1>2, <1>3, <1>5 DEF DrawLine
<1>7. CallFormed(call)'
  BY <1>6 DEF CallFormed
<1>8. SceneFormed'
  <2>1. scene' = [scene EXCEPT !.known = scene.known /\ call'.pc = "line"]
    BY DEF DrawLine
  <2>2. (scene.known /\ call'.pc = "line") \in BOOLEAN
    OBVIOUS
  <2> QED BY <2>1, <2>2 DEF RasterFormed, SceneFormed
<1>9. DepthFormed' /\ FrameInv'
  BY <1>1 DEF RasterFormed, DepthFormed, FrameInv
<1> QED BY <1>1, <1>7, <1>8, <1>9 DEF RasterFormed

(* One triangle of the list, which is drawn as a whole.                        *)
LEMMA TriangleKept ==
  ASSUME FrameInv, RasterFormed, NextTriangle
  PROVE  /\ FrameInv' /\ RasterFormed' /\ Alike(back', back)
         /\ DOMAIN depth'.values = DOMAIN depth.values
         /\ \E t \in Corners, test \in BOOLEAN :
              /\ scene' = [scene EXCEPT !.drawn =
                             Append(@, [kind |-> "triangle", vertices |-> t, test |-> test])]
              /\ Drawn(DOMAIN depth.values, [back |-> back, depth |-> depth],
                       [back |-> back', depth |-> depth'], t, test)
<1>1. PICK left, test : call.left = left /\ call.test = test
  OBVIOUS
<1>2. left \in Seq(Vertices) /\ Len(left) % 3 = 0 /\ left # << >> /\ test \in BOOLEAN
  BY <1>1 DEF RasterFormed, CallFormed, NextTriangle
<1>3. PICK t \in Corners : t = SubSeq(left, 1, 3)
  BY <1>2, ListTaken
<1>4. PICK D : D = DOMAIN depth.values
  OBVIOUS
<1>5. depth \in DepthsOver(D) /\ WellFormed(back)
  BY <1>4 DEF RasterFormed, DepthFormed, FrameInv
<1>6. PICK f : f = Rasterized(t, test)
  OBVIOUS
<1>7. Drawn(D, [back |-> back, depth |-> depth], f, t, test)
  BY <1>5, <1>6, TriangleDrawn
<1>8. f \in Frames(D)
  BY <1>7 DEF Drawn
<1>9. /\ back' = f.back /\ depth' = f.depth
      /\ scene' = [scene EXCEPT !.drawn =
                     Append(@, [kind |-> "triangle", vertices |-> t, test |-> test])]
      /\ call' = [call EXCEPT !.left = SubSeq(left, 4, Len(left))]
      /\ front' = front /\ draws' = draws
  BY <1>1, <1>3, <1>6 DEF NextTriangle, OthersUnchanged
<1>10. f = [back |-> back', depth |-> depth']
  BY <1>8, <1>9 DEF Frames
<1>11. DepthFormed' /\ DOMAIN depth'.values = D /\ WellFormed(back') /\ Alike(back', back)
  BY <1>8, <1>9, FrameDepth DEF DepthFormed
<1>12. FrameInv'
  BY <1>9, <1>11 DEF FrameInv
<1>13. SceneFormed'
  <2>1. PICK i : i = [kind |-> "triangle", vertices |-> t, test |-> test]
    OBVIOUS
  <2>2. i \in Items
    BY <1>2, <2>1 DEF Items
  <2>3. Append(scene.drawn, i) \in Seq(Items)
    BY <2>2 DEF RasterFormed, SceneFormed
  <2> QED BY <1>9, <2>1, <2>3 DEF RasterFormed, SceneFormed
<1>14. CallFormed(call)'
  <2>1. PICK rest \in Seq(Vertices) : rest = SubSeq(left, 4, Len(left)) /\ Len(rest) % 3 = 0
    BY <1>2, ListTaken
  <2>2. call \in [pc : {"list"}, left : Seq(Vertices), test : BOOLEAN]
    BY DEF RasterFormed, CallFormed, NextTriangle
  <2>3. call' \in [pc : {"list"}, left : Seq(Vertices), test : BOOLEAN] /\ call'.left = rest
    BY <1>9, <2>1, <2>2
  <2> QED BY <2>1, <2>3 DEF CallFormed
<1> QED BY <1>2, <1>4, <1>7, <1>9, <1>10, <1>11, <1>12, <1>13, <1>14 DEF RasterFormed

--------------------------------------------------------------------------------
(* A step of a line.                                                           *)

Walking(c) ==
  c \in [pc : {"line"}, v0 : Vertices, v1 : Vertices,
         from : Pairs, to : Pairs, at : Pairs, err : Int]

(* Its parts have their types.                                                 *)
LEMMA WalkingIs ==
  ASSUME CallFormed(call), call.pc = "line"
  PROVE  /\ Walking(call)
         /\ \A k \in 1..2 : call.from[k] \in Int /\ call.to[k] \in Int /\ call.at[k] \in Int
         /\ call.err \in Int /\ call.v0 \in Vertices /\ call.v1 \in Vertices
<1>1. Walking(call)
  BY DEF CallFormed, Walking
<1> QED BY <1>1 DEF Walking, Pairs

(* How far along it is.                                                        *)
LEMMA AlongTyped ==
  ASSUME Walking(call)
  PROVE  Along[1] \in Int /\ Along[2] \in Nat \ {0}
<1>1. \A k \in 1..2 : call.from[k] \in Int /\ call.to[k] \in Int /\ call.at[k] \in Int
  BY DEF Walking, Pairs
<1>2. ASSUME NEW k \in 1..2
      PROVE  /\ call.at[k] - call.from[k] \in Int
             /\ Max({call.to[k] - call.from[k], 1}) \in Nat \ {0}
  <2>1. PICK d \in Int : d = call.to[k] - call.from[k]
    BY <1>1
  <2>2. PICK o \in Int : o = 1
    OBVIOUS
  <2>3. Max({d, o}) = IF d >= o THEN d ELSE o
    BY MaxOfTwo
  <2> QED BY <1>1, <2>1, <2>2, <2>3
<1>3. PICK m1 \in Int, m2 \in Int : m1 = call.at[1] - call.from[1] /\ m2 = call.at[2] - call.from[2]
  BY <1>2
<1>4. PICK n1 \in Nat \ {0}, n2 \in Nat \ {0} :
        n1 = Max({call.to[1] - call.from[1], 1}) /\ n2 = Max({call.to[2] - call.from[2], 1})
  BY <1>2
<1>5. Along = <<0, 1>> \/ Along = <<m1, n1>> \/ Along = <<m2, n2>>
  BY <1>3, <1>4 DEF Along
<1> QED BY <1>5

(* A part of the way between equal colours.                                    *)
LEMMA ByteScaled ==
  ASSUME NEW n \in Int, NEW d \in Nat \ {0}, NEW t \in Nat \ {0}
  PROVE  Byte(n * t, t * d) = Byte(n, d)
<1>1. PICK m \in 0..d : m = Between(n, 0, d)
  BY BetweenTyped
<1>2. PICK nt \in Int, td \in Nat \ {0}, mt \in Nat : nt = n * t /\ td = t * d /\ mt = m * t
  OBVIOUS
<1>3. Between(nt, 0, td) = mt
  <2>1. Between(nt, 0, td) = IF nt < 0 THEN 0 ELSE IF nt > td THEN td ELSE nt
    BY BetweenTyped
  <2>2. m = IF n < 0 THEN 0 ELSE IF n > d THEN d ELSE n
    BY <1>1, BetweenTyped
  <2>3. CASE n < 0
    <3>1. n * t <= (-1) * t
      BY <2>3, Monotone
    <3>2. nt < 0
      BY <1>2, <3>1
    <3> QED BY <1>2, <2>1, <2>2, <2>3, <3>2
  <2>4. CASE n > d
    <3>1. (d + 1) * t <= n * t
      BY <2>4, Monotone
    <3>2. (d + 1) * t = td + t
      BY <1>2
    <3>3. nt > td
      BY <1>2, <3>1, <3>2
    <3>4. m = d /\ mt = td
      BY <1>2, <2>2, <2>4
    <3> QED BY <2>1, <3>3, <3>4
  <2>5. CASE n >= 0 /\ n <= d
    <3>1. 0 * t <= n * t /\ n * t <= d * t
      BY <2>5, Monotone
    <3>2. nt >= 0 /\ nt <= td
      BY <1>2, <3>1
    <3>3. m = n /\ mt = nt
      BY <1>2, <2>2, <2>5
    <3> QED BY <2>1, <3>2, <3>3
  <2> QED BY <2>3, <2>4, <2>5
<1>4. PICK e \in Int : e = 255 * m
  OBVIOUS
<1>5. PICK q \in Int, r \in 0 .. d - 1 : q = e \div d /\ e = d * q + r
  BY DivMod
<1>6. PICK et \in Int, rt \in Int : et = 255 * mt /\ rt = r * t
  BY <1>2
<1>7. et = td * q + rt /\ rt \in 0 .. td - 1
  <2>1. et = e * t
    BY <1>2, <1>4, <1>6
  <2>2. e * t = (d * q) * t + r * t
    BY <1>5
  <2>3. (d * q) * t = td * q
    BY <1>2
  <2>4. 0 * t <= r * t /\ r * t <= (d - 1) * t
    BY Monotone
  <2>5. (d - 1) * t = td - t
    BY <1>2
  <2> QED BY <1>6, <2>1, <2>2, <2>3, <2>4, <2>5
<1>8. et \div td = q
  BY <1>2, <1>7, RemainderIs
<1> QED BY <1>1, <1>2, <1>3, <1>4, <1>5, <1>6, <1>8 DEF Byte

(* Its colour is that of its ends if they have one.                            *)
LEMMA LineColorIs ==
  ASSUME Walking(call)
  PROVE  /\ LineColor \in Color
         /\ call.v0.color = call.v1.color =>
              LineColor = [c \in 1..4 |-> Byte(call.v0.color[c], One)]
<1>1. PICK a \in Int, n \in Nat \ {0} : a = Along[1] /\ n = Along[2]
  BY AlongTyped
<1>2. PICK b \in Int : b = Between(a, 0, n)
  BY BetweenTyped
<1>3. PICK f \in [1..4 -> Int], g \in [1..4 -> Int] : f = call.v0.color /\ g = call.v1.color
  BY DEF Walking, Vertices
<1>4. PICK d \in Nat \ {0} : d = n * One
  BY RasterizerAssumption
<1>5. LineColor = [c \in 1..4 |-> Byte(f[c] * n + (g[c] - f[c]) * b, d)]
  BY <1>1, <1>2, <1>3, <1>4 DEF LineColor
<1>6. ASSUME NEW c \in 1..4
      PROVE  Byte(f[c] * n + (g[c] - f[c]) * b, d) \in Octet
  <2>1. PICK m \in Int : m = f[c] * n + (g[c] - f[c]) * b
    OBVIOUS
  <2> QED BY <2>1, ByteTyped
<1>7. ASSUME f = g, NEW c \in 1..4
      PROVE  Byte(f[c] * n + (g[c] - f[c]) * b, d) = Byte(f[c], One)
  <2>1. PICK m \in Int : m = f[c]
    OBVIOUS
  <2>2. (g[c] - f[c]) * b = 0
    BY <1>7
  <2>3. f[c] * n + (g[c] - f[c]) * b = m * n
    BY <2>1, <2>2
  <2>4. One \in Nat \ {0}
    BY RasterizerAssumption
  <2>5. Byte(m * n, n * One) = Byte(m, One)
    BY <2>4, ByteScaled
  <2> QED BY <1>4, <2>1, <2>3, <2>5
<1>8. LineColor \in Color
  BY <1>5, <1>6 DEF Color, Octet
<1> QED BY <1>3, <1>5, <1>7, <1>8

(* Where the walk goes.                                                        *)
LEMMA WalkTyped ==
  ASSUME Walking(call)
  PROVE  /\ Dx \in Int /\ Dy \in Int /\ Err1 \in Int /\ Err2 \in Int
         /\ \A k \in 1..2 : Moved[k] \in Int /\ Heading(k) \in {-1, 1}
<1>1. \A k \in 1..2 : call.from[k] \in Int /\ call.to[k] \in Int /\ call.at[k] \in Int
  BY DEF Walking, Pairs
<1>2. PICK e \in Int : e = call.err
  BY DEF Walking
<1>3. PICK a \in Int, b \in Int : a = call.to[1] - call.from[1] /\ b = call.to[2] - call.from[2]
  BY <1>1
<1>4. Signed(a) \in Int /\ Signed(b) \in Int
  BY SignedTyped
<1>5. Dx \in Int /\ Dy \in Int
  BY <1>3, <1>4, AbsTyped DEF Dx, Dy
<1>6. Err1 \in Int
  BY <1>2, <1>5 DEF Err1
<1>7. Signed(Err1) \in Int
  BY <1>6, SignedTyped
<1>8. Err2 \in Int
  BY <1>5, <1>6, <1>7 DEF Err2
<1>9. \A k \in 1..2 : Heading(k) \in {-1, 1}
  BY DEF Heading
<1>10. \A k \in 1..2 : Moved[k] \in Int
  BY <1>1, <1>9 DEF Moved
<1> QED BY <1>5, <1>6, <1>8, <1>9, <1>10

(* One point of a line.                                                        *)
LEMMA LineKept ==
  ASSUME FrameInv, RasterFormed, LinePoint
  PROVE  /\ FrameInv' /\ RasterFormed' /\ Alike(back', back) /\ depth' = depth
         /\ Walking(call)
<1>1. Walking(call)
  BY WalkingIs DEF RasterFormed, LinePoint, Walk
<1>2. depth' = depth /\ front' = front /\ draws' = draws
  BY DEF LinePoint, OthersUnchanged
<1>3. WellFormed(back') /\ Alike(back', back)
  <2>1. CASE call.at \in Points(back)
    <3>1. PICK h \in Color : h = LineColor
      BY <1>1, LineColorIs
    <3>2. PICK p \in Points(back) : p = call.at
      BY <2>1
    <3>3. PICK r : r = Put(back, p, h)
      OBVIOUS
    <3>4. back' = r
      BY <3>1, <3>2, <3>3 DEF LinePoint
    <3>5. WellFormed(back)
      BY DEF FrameInv
    <3>6. WellFormed(r) /\ Alike(r, back)
      BY <3>3, <3>5, PutShown
    <3> QED BY <3>4, <3>6
  <2>2. CASE call.at \notin Points(back)
    <3>1. back' = back
      BY <2>2 DEF LinePoint
    <3> QED BY <3>1 DEF FrameInv, Alike
  <2> QED BY <2>1, <2>2
<1>4. CallFormed(call)'
  <2>1. CASE call' = [pc |-> "ok"] \/ call' = [pc |-> "panic"]
    <3>1. call' \in [pc : {"idle", "ok", "error", "panic"}]
      BY <2>1
    <3> QED BY <3>1 DEF CallFormed
  <2>2. CASE call' = [call EXCEPT !.at = [k \in 1..2 |-> Signed(Moved[k])], !.err = Signed(Err2)]
    <3>1. PICK at : at = [k \in 1..2 |-> Signed(Moved[k])]
      OBVIOUS
    <3>2. at \in Pairs
      <4>1. \A k \in 1..2 : Signed(Moved[k]) \in Int
        BY <1>1, WalkTyped, SignedTyped
      <4> QED BY <3>1, <4>1 DEF Pairs
    <3>3. PICK e \in Int : e = Signed(Err2)
      BY <1>1, WalkTyped, SignedTyped
    <3>4. call' = [call EXCEPT !.at = at, !.err = e]
      BY <2>2, <3>1, <3>3
    <3>5. Walking(call')
      BY <1>1, <3>2, <3>4 DEF Walking
    <3> QED BY <3>5 DEF Walking, CallFormed
  <2> QED BY <2>1, <2>2 DEF LinePoint, Walk
<1>5. SceneFormed'
  <2>1. CASE AtEnd
    <3>1. PICK i : i = [kind |-> "line", vertices |-> <<call.v0, call.v1>>,
                        from |-> call.from, to |-> call.to]
      OBVIOUS
    <3>2. i \in Items
      <4>1. PICK v \in Vertices \X Vertices : v = <<call.v0, call.v1>>
        BY <1>1 DEF Walking
      <4>2. PICK a \in Pairs, b \in Pairs : a = call.from /\ b = call.to
        BY <1>1 DEF Walking
      <4>3. i = [kind |-> "line", vertices |-> v, from |-> a, to |-> b]
        BY <3>1, <4>1, <4>2
      <4> QED BY <4>3 DEF Items
    <3>3. scene' = [scene EXCEPT !.drawn = Append(scene.drawn, i)]
      BY <2>1, <3>1 DEF LinePoint
    <3>4. Append(scene.drawn, i) \in Seq(Items)
      BY <3>2 DEF RasterFormed, SceneFormed
    <3> QED BY <3>3, <3>4 DEF RasterFormed, SceneFormed
  <2>2. CASE ~AtEnd
    <3>1. scene' = [scene EXCEPT !.known = scene.known /\ call'.pc = "line"]
      BY <2>2 DEF LinePoint
    <3>2. (scene.known /\ call'.pc = "line") \in BOOLEAN
      OBVIOUS
    <3> QED BY <3>1, <3>2 DEF RasterFormed, SceneFormed
  <2> QED BY <2>1, <2>2
<1>6. DepthFormed' /\ FrameInv'
  BY <1>2, <1>3 DEF RasterFormed, DepthFormed, FrameInv
<1> QED BY <1>1, <1>2, <1>3, <1>4, <1>5, <1>6 DEF RasterFormed

--------------------------------------------------------------------------------
(* Every step is one of these.                                                 *)
RasterStep ==
  \/ \E w \in Nat : \E h \in Nat : ResizeDepth(<<w, h>>)
  \/ BeginPass
  \/ \E mesh \in Meshes : \E test \in BOOLEAN : DrawTriangles(mesh, test)
  \/ \E v0 \in Vertices : \E v1 \in Vertices : <<v0, v1>> \in Segments /\ DrawLine(v0, v1)
  \/ NextTriangle \/ LinePoint
  \/ (EndList \/ RasterReturn)
  \/ call.pc = "idle" /\ PresentBack /\ UNCHANGED rasterVars
  \/ OwnerDraws
  \/ UNCHANGED <<frameVars, rasterVars>>

(* The disjuncts of the next-state relation, and no other.                     *)
LEMMA RasterStepIs ==
  ASSUME RasterFormed, [OwnerDraws \/ RasterNext]_<<frameVars, rasterVars>>
  PROVE  RasterStep
<1>1. ASSUME NEW size \in DepthSizes, ResizeDepth(size)
      PROVE  \E w \in Nat : \E h \in Nat : ResizeDepth(<<w, h>>)
  <2>1. PICK w \in Nat, h \in Nat : size = <<w, h>>
    BY RasterizerAssumption
  <2> QED BY <1>1, <2>1
<1>2. ASSUME ClearDepth
      PROVE  \E w \in Nat : \E h \in Nat : ResizeDepth(<<w, h>>)
  <2>1. depth.width \in Nat /\ depth.height \in Nat
    BY DEF RasterFormed, DepthFormed, DepthsOver
  <2> QED BY <1>2, <2>1 DEF ClearDepth
<1>3. ASSUME NEW s \in Segments, DrawLine(s[1], s[2])
      PROVE  \E v0 \in Vertices : \E v1 \in Vertices : <<v0, v1>> \in Segments /\ DrawLine(v0, v1)
  <2>1. PICK v0 \in Vertices, v1 \in Vertices : s = <<v0, v1>>
    BY RasterizerAssumption
  <2>2. s[1] = v0 /\ s[2] = v1
    BY <2>1
  <2> QED BY <1>3, <2>1, <2>2
<1> QED BY <1>1, <1>2, <1>3 DEF RasterNext, RasterStep

(* The end of a call.                                                          *)
LEMMA ReturnKept ==
  ASSUME FrameInv, RasterFormed, EndList \/ RasterReturn
  PROVE  /\ FrameInv' /\ RasterFormed' /\ back' = back /\ depth' = depth /\ scene' = scene
         /\ call.pc # "line" /\ call'.pc # "line"
<1>1. back' = back /\ depth' = depth /\ scene' = scene /\ front' = front /\ draws' = draws
  BY DEF EndList, RasterReturn, OthersUnchanged
<1>2. call'.pc \in {"ok", "idle"} /\ CallFormed(call')
  <2>1. call' = [pc |-> "ok"] \/ call' = [pc |-> "idle"]
    BY DEF EndList, RasterReturn, Idle
  <2>2. call' \in [pc : {"idle", "ok", "error", "panic"}] /\ call'.pc \in {"ok", "idle"}
    BY <2>1
  <2> QED BY <2>2 DEF CallFormed
<1>3. call.pc # "line"
  BY DEF EndList, RasterReturn
<1> QED BY <1>1, <1>2, <1>3 DEF RasterFormed, DepthFormed, SceneFormed, FrameInv

(* Presenting shows the back buffer and keeps its bytes.                       *)
LEMMA PresentKept ==
  ASSUME FrameInv, RasterFormed, PresentBack, UNCHANGED rasterVars
  PROVE  /\ FrameInv' /\ RasterFormed' /\ Alike(back', back) /\ back'.pixels = back.pixels
         /\ depth' = depth /\ scene' = scene /\ call' = call
<1>1. depth' = depth /\ scene' = scene /\ call' = call
  BY DEF rasterVars
<1>2. RasterFormed'
  BY <1>1 DEF RasterFormed, DepthFormed, SceneFormed
<1>3. back' = [back EXCEPT !.dirty = FALSE] /\ front' = front /\ draws' = draws
  BY DEF PresentBack
<1>4. FrameInv'
  BY <1>3, StillFormed DEF FrameInv
<1>5. /\ back'.pixels = back.pixels /\ back'.width = back.width /\ back'.height = back.height
      /\ back'.stride = back.stride /\ back'.format = back.format
  BY <1>3 DEF FrameInv, WellFormed
<1>6. Points(back') = Points(back)
  BY <1>5 DEF Points
<1>7. \A p : Place(back', p) = Place(back, p)
  BY <1>5 DEF Place
<1>8. \A x, y : Offset(back', x, y) = Offset(back, x, y)
  BY <1>5 DEF Offset
<1> QED BY <1>1, <1>2, <1>4, <1>5, <1>6, <1>7, <1>8 DEF Alike

(* The owner draws between calls.                                              *)
LEMMA OwnerKept ==
  ASSUME FrameInv, RasterFormed, OwnerDraws
  PROVE  FrameInv' /\ RasterFormed' /\ scene'.known = FALSE
<1>1. FrameInv'
  BY FrameKept DEF OwnerDraws
<1>2. /\ scene' = [scene EXCEPT !.known = FALSE] /\ depth' = depth /\ call' = call
  BY DEF OwnerDraws
<1> QED BY <1>1, <1>2 DEF RasterFormed, DepthFormed, SceneFormed

(* So every step keeps the types.                                              *)
LEMMA RasterKept ==
  ASSUME FrameInv, RasterFormed, [OwnerDraws \/ RasterNext]_<<frameVars, rasterVars>>
  PROVE  FrameInv' /\ RasterFormed'
<1>1. RasterStep
  BY RasterStepIs
<1>2. ASSUME NEW w \in Nat, NEW h \in Nat, ResizeDepth(<<w, h>>) PROVE FrameInv' /\ RasterFormed'
  BY <1>2, SizeKept
<1>3. ASSUME BeginPass PROVE FrameInv' /\ RasterFormed'
  BY <1>3, PassKept
<1>4. ASSUME NEW mesh \in Meshes, NEW test \in BOOLEAN, DrawTriangles(mesh, test)
      PROVE  FrameInv' /\ RasterFormed'
  BY <1>4, ListKept
<1>5. ASSUME NEW v0 \in Vertices, NEW v1 \in Vertices, DrawLine(v0, v1)
      PROVE  FrameInv' /\ RasterFormed'
  BY <1>5, LineStartKept
<1>6. ASSUME NextTriangle PROVE FrameInv' /\ RasterFormed'
  BY <1>6, TriangleKept
<1>7. ASSUME LinePoint PROVE FrameInv' /\ RasterFormed'
  BY <1>7, LineKept
<1>8. ASSUME EndList \/ RasterReturn PROVE FrameInv' /\ RasterFormed'
  BY <1>8, ReturnKept
<1>9. ASSUME PresentBack, UNCHANGED rasterVars PROVE FrameInv' /\ RasterFormed'
  BY <1>9, PresentKept
<1>10. ASSUME OwnerDraws PROVE FrameInv' /\ RasterFormed'
  BY <1>10, OwnerKept
<1>11. ASSUME UNCHANGED <<frameVars, rasterVars>> PROVE FrameInv' /\ RasterFormed'
  BY <1>11 DEF frameVars, rasterVars, FrameInv, RasterFormed, DepthFormed, SceneFormed
<1> QED BY <1>1, <1>2, <1>3, <1>4, <1>5, <1>6, <1>7, <1>8, <1>9, <1>10, <1>11 DEF RasterStep

(* The types of the rasterizer hold in every state, with an owner that draws   *)
(* between calls: the list under way is a list of triangles, the line under    *)
(* way has two ends, a point and an error term, and every depth is a fraction  *)
(* with a positive denominator, so that the comparisons of the depth test      *)
(* compare depths.                                                             *)
THEOREM RasterIsFormed == RasterSpec => [](FrameInv /\ RasterFormed)
<1>1. FrameInit /\ RasterInit => FrameInv /\ RasterFormed
  BY RasterInitially
<1>2. /\ FrameInv /\ RasterFormed
      /\ [OwnerDraws \/ RasterNext]_<<frameVars, rasterVars>>
      => (FrameInv /\ RasterFormed)'
  BY RasterKept
<1> QED BY <1>1, <1>2, PTL DEF RasterSpec

--------------------------------------------------------------------------------
(* While the size of the back buffer stays, so does the geometry.              *)
(* Geometry is that of the size of the framebuffer, which stays.               *)
LEMMA SharesKept ==
  ASSUME back'.width = back.width, back'.height = back.height, NEW t, NEW p
  PROVE  Shares(t, p)' = Shares(t, p) /\ (Covers(t, p)' <=> Covers(t, p))
<1>1. \A k \in 1..3 : Screen(t[k])' = Screen(t[k])
  BY DEF Screen
<1>2. Screen(t[1])' = Screen(t[1]) /\ Screen(t[2])' = Screen(t[2]) /\ Screen(t[3])' = Screen(t[3])
  BY <1>1
<1>3. Shares(t, p)' = Shares(t, p)
  BY <1>2 DEF Shares
<1>4. Covers(t, p)' <=> Covers(t, p)
  BY <1>2, <1>3 DEF Covers
<1> QED BY <1>3, <1>4

(* So are depth and colour,                                                    *)
LEMMA RankKept ==
  ASSUME back'.width = back.width, back'.height = back.height, NEW t, NEW p
  PROVE  Rank(t, p)' = Rank(t, p) /\ Hue(t, p)' = Hue(t, p)
BY SharesKept DEF Rank, Hue

(* The triangles that were drawn with the depth test.                          *)
Rival(e, p) == e.kind = "triangle" /\ e.test /\ Covers(e.vertices, p)

(* The depth of a point is that of the nearest of them.                        *)
Nearest(v, drawn, p) ==
  /\ v \in Fractions /\ ~Less(Far, v)
  /\ \A i \in DOMAIN drawn : Rival(drawn[i], p) => ~Less(Rank(drawn[i].vertices, p), v)
  /\ v = Far \/ \E i \in DOMAIN drawn : Rival(drawn[i], p) /\ v = Rank(drawn[i].vertices, p)

(* and who is drawn with the test.                                             *)
LEMMA RivalKept ==
  ASSUME back'.width = back.width, back'.height = back.height, NEW e, NEW p
  PROVE  Rival(e, p)' <=> Rival(e, p)
BY SharesKept DEF Rival

(* The nearest stays the nearest.                                              *)
LEMMA NearestKept ==
  ASSUME back'.width = back.width, back'.height = back.height,
         NEW v, NEW drawn, NEW p, Nearest(v, drawn, p)
  PROVE  Nearest(v, drawn, p)'
<1>1. \A i \in DOMAIN drawn : Rival(drawn[i], p)' <=> Rival(drawn[i], p)
  BY RivalKept
<1>2. \A i \in DOMAIN drawn : Rank(drawn[i].vertices, p)' = Rank(drawn[i].vertices, p)
  BY RankKept
<1> QED BY <1>1, <1>2 DEF Nearest

(* Where nothing was drawn all is far.                                         *)
LEMMA NothingNearest ==
  ASSUME NEW p
  PROVE  Nearest(Far, << >>, p) /\ Nearest(Far, << >>, p)'
<1>1. Far \in Fractions
  BY RasterizerAssumption DEF Far, Fractions
<1>2. ~Less(Far, Far)
  BY <1>1, LessOrder
<1>3. DOMAIN << >> = {}
  OBVIOUS
<1> QED BY <1>1, <1>2, <1>3 DEF Nearest

(* One more was drawn.                                                         *)
LEMMA OneMore ==
  ASSUME NEW drawn \in Seq(Items), NEW e \in Items, NEW more, more = Append(drawn, e)
  PROVE  /\ more \in Seq(Items) /\ Len(more) = Len(drawn) + 1 /\ Len(drawn) \in Nat
         /\ DOMAIN more = DOMAIN drawn \cup {Len(drawn) + 1}
         /\ DOMAIN drawn = 1 .. Len(drawn)
         /\ more[Len(drawn) + 1] = e
         /\ \A i \in DOMAIN drawn : more[i] = drawn[i] /\ drawn[i] \in Items
BY Z3

(* A line has no depth.                                                        *)
LEMMA LineDrawn ==
  ASSUME NEW drawn \in Seq(Items), NEW e \in Items, e.kind = "line", NEW p, NEW v,
         Nearest(v, drawn, p)
  PROVE  Nearest(v, Append(drawn, e), p)
<1>1. PICK more : more = Append(drawn, e)
  OBVIOUS
<1>2. /\ DOMAIN more = DOMAIN drawn \cup {Len(drawn) + 1} /\ more[Len(drawn) + 1] = e
      /\ \A i \in DOMAIN drawn : more[i] = drawn[i]
  BY <1>1, OneMore
<1>3. ~Rival(e, p)
  BY DEF Rival
<1>4. Nearest(v, more, p)
  BY <1>2, <1>3 DEF Nearest
<1> QED BY <1>1, <1>4

(* The depth test, where there is a depth and where there is none.             *)
LEMMA VisibleIs ==
  ASSUME NEW t, NEW p, NEW test, NEW d
  PROVE  /\ ~test => (Visible(d, t, p, test) <=> Covers(t, p))
         /\ test /\ p \in DOMAIN d.values =>
              (Visible(d, t, p, test) <=>
                 Covers(t, p) /\ Less(Rank(t, p), Far) /\ Less(Rank(t, p), d.values[p]))
         /\ test /\ p \notin DOMAIN d.values =>
              (Visible(d, t, p, test) <=> Covers(t, p) /\ Less(Rank(t, p), Far))
BY DEF Visible, Hidden, At, Rank

(* What set_depth leaves is the nearest of one more.                           *)
LEMMA TriangleNearest ==
  ASSUME WellFormed(back), NEW drawn \in Seq(Items), NEW t \in Corners, NEW test,
         NEW e \in Items, e = [kind |-> "triangle", vertices |-> t, test |-> test],
         NEW p \in Points(back), NEW d, p \in DOMAIN d.values, NEW v, v = d.values[p],
         Nearest(v, drawn, p), NEW w,
         w = IF test /\ Visible(d, t, p, test) THEN Rank(t, p) ELSE v
  PROVE  Nearest(w, Append(drawn, e), p)
<1>1. PICK more : more = Append(drawn, e)
  OBVIOUS
<1>2. /\ DOMAIN more = DOMAIN drawn \cup {Len(drawn) + 1} /\ more[Len(drawn) + 1] = e
      /\ \A i \in DOMAIN drawn : more[i] = drawn[i] /\ drawn[i] \in Items
  BY <1>1, OneMore
<1>0. Far \in Fractions
  BY RasterizerAssumption DEF Far, Fractions
<1>3. PICK far \in Fractions : far = Far
  BY <1>0
<1>4. v \in Fractions
  BY DEF Nearest
<1>5. ASSUME NEW i \in DOMAIN drawn, Rival(drawn[i], p)
      PROVE  Rank(drawn[i].vertices, p) \in Fractions /\ ~Less(Rank(drawn[i].vertices, p), v)
  <2>1. PICK u : u = drawn[i].vertices
    OBVIOUS
  <2>2. u \in Corners /\ Covers(u, p)
    BY <1>2, <1>5, <2>1 DEF Rival, Items
  <2> QED BY <1>5, <2>1, <2>2, RankTyped DEF Nearest
<1>6. Rival(e, p) <=> test /\ Covers(t, p)
  BY DEF Rival
<1>7. e.vertices = t
  OBVIOUS
<1>8. CASE test /\ Visible(d, t, p, test)
  <2>1. w = Rank(t, p) /\ Covers(t, p) /\ Less(w, far) /\ Less(w, v)
    BY <1>3, <1>8, VisibleIs
  <2>2. w \in Fractions
    BY <2>1, RankTyped
  <2>3. ~Less(far, w) /\ ~Less(w, w)
    BY <1>3, <2>1, <2>2, LessOrder
  <2>4. ASSUME NEW i \in DOMAIN drawn, Rival(drawn[i], p)
        PROVE  ~Less(Rank(drawn[i].vertices, p), w)
    <3>1. PICK r \in Fractions : r = Rank(drawn[i].vertices, p) /\ ~Less(r, v)
      BY <1>5, <2>4
    <3>2. Less(w, r)
      BY <1>4, <2>1, <2>2, <3>1, LessOrder
    <3>3. ~Less(r, w)
      BY <2>2, <2>3, <3>1, <3>2, LessOrder
    <3> QED BY <3>1, <3>3
  <2>5. Nearest(w, more, p)
    BY <1>2, <1>3, <1>6, <1>7, <1>8, <2>1, <2>2, <2>3, <2>4 DEF Nearest
  <2> QED BY <1>1, <2>5
<1>9. CASE ~(test /\ Visible(d, t, p, test))
  <2>1. w = v
    BY <1>9
  <2>2. Rival(e, p) => ~Less(Rank(t, p), v)
    <3> SUFFICES ASSUME Rival(e, p) PROVE ~Less(Rank(t, p), v)
      OBVIOUS
    <3>1. test /\ Covers(t, p)
      BY <1>6
    <3>2. PICK r \in Fractions : r = Rank(t, p)
      BY <3>1, RankTyped
    <3>3. ~Less(r, far) \/ ~Less(r, v)
      BY <1>3, <1>9, <3>1, <3>2, VisibleIs
    <3>4. ~Less(far, v)
      BY <1>3 DEF Nearest
    <3>5. ~Less(r, v)
      BY <1>4, <3>2, <3>3, <3>4, LessOrder
    <3> QED BY <3>2, <3>5
  <2>3. Nearest(v, more, p)
    BY <1>2, <1>7, <2>2 DEF Nearest
  <2> QED BY <1>1, <2>1, <2>3
<1> QED BY <1>8, <1>9

(* The code's test is against the nearest, which is a test against all.        *)
Ahead(t, drawn, n, p) ==
  \A i \in 1..n : Rival(drawn[i], p) => Less(Rank(t, p), Rank(drawn[i].vertices, p))

(* To be ahead of the nearest is to be ahead of all.                           *)
LEMMA AheadOfNearest ==
  ASSUME WellFormed(back), NEW drawn \in Seq(Items), NEW t \in Corners,
         NEW p \in Points(back), Covers(t, p), NEW v, Nearest(v, drawn, p)
  PROVE  Less(Rank(t, p), Far) /\ Less(Rank(t, p), v)
           <=> Less(Rank(t, p), Far) /\ Ahead(t, drawn, Len(drawn), p)
<1>1. PICK r \in Fractions : r = Rank(t, p)
  BY RankTyped
<1>2. v \in Fractions
  BY DEF Nearest
<1>3. DOMAIN drawn = 1..Len(drawn)
  OBVIOUS
<1>4. ASSUME NEW i \in DOMAIN drawn, Rival(drawn[i], p)
      PROVE  Rank(drawn[i].vertices, p) \in Fractions /\ ~Less(Rank(drawn[i].vertices, p), v)
  <2>1. PICK u : u = drawn[i].vertices
    OBVIOUS
  <2>2. drawn[i] \in Items
    OBVIOUS
  <2>3. u \in Corners /\ Covers(u, p)
    BY <1>4, <2>1, <2>2 DEF Rival, Items
  <2> QED BY <1>4, <2>1, <2>3, RankTyped DEF Nearest
<1>5. ASSUME Less(r, v), NEW i \in DOMAIN drawn, Rival(drawn[i], p)
      PROVE  Less(r, Rank(drawn[i].vertices, p))
  <2>1. PICK q \in Fractions : q = Rank(drawn[i].vertices, p) /\ ~Less(q, v)
    BY <1>4, <1>5
  <2>2. Less(r, q)
    BY <1>2, <1>5, <2>1, LessOrder
  <2> QED BY <2>1, <2>2
<1>6. ASSUME Less(r, Far), Ahead(t, drawn, Len(drawn), p)
      PROVE  Less(r, v)
  <2>1. CASE v = Far
    BY <1>6, <2>1
  <2>2. CASE \E i \in DOMAIN drawn : Rival(drawn[i], p) /\ v = Rank(drawn[i].vertices, p)
    BY <1>1, <1>3, <1>6, <2>2 DEF Ahead
  <2> QED BY <2>1, <2>2 DEF Nearest
<1> QED BY <1>1, <1>3, <1>5, <1>6 DEF Ahead

--------------------------------------------------------------------------------
(* The scene, of which the geometry is the same as long as the sizes are.      *)

ShowsIn(drawn, i, p) ==
  LET e == drawn[i]
  IN IF e.kind = "line" THEN OnLine(e, p)
     ELSE /\ Covers(e.vertices, p)
          /\ e.test => /\ Less(Rank(e.vertices, p), Far)
                       /\ p \in DOMAIN depth.values => Ahead(e.vertices, drawn, i - 1, p)

ColorOf(e, p) ==
  IF e.kind = "line" THEN [c \in 1..4 |-> Byte(e.vertices[1].color[c], One)]
  ELSE Hue(e.vertices, p)

SeenIn(base, drawn, p) ==
  LET shows == {i \in DOMAIN drawn : ShowsIn(drawn, i, p)}
  IN IF shows = {} THEN base[p] ELSE ColorOf(drawn[Max(shows)], p)

(* They are one.                                                               *)
LEMMA SeenIs ==
  ASSUME NEW p
  PROVE  Seen(p) = SeenIn(scene.base, scene.drawn, p)
<1>1. ASSUME NEW i
      PROVE  Shows(i, p) <=> ShowsIn(scene.drawn, i, p)
  BY DEF Shows, ShowsIn, InFront, Rank, Ahead, Rival
<1>2. \A i : Shown(i, p) = ColorOf(scene.drawn[i], p)
  BY DEF Shown, ColorOf, Hue
<1>3. PICK s : s = {i \in DOMAIN scene.drawn : Shows(i, p)}
  OBVIOUS
<1>4. s = {i \in DOMAIN scene.drawn : ShowsIn(scene.drawn, i, p)}
  BY <1>1, <1>3
<1>5. Seen(p) = IF s = {} THEN scene.base[p] ELSE Shown(Max(s), p)
  BY <1>3 DEF Seen
<1>6. SeenIn(scene.base, scene.drawn, p) =
        IF s = {} THEN scene.base[p] ELSE ColorOf(scene.drawn[Max(s)], p)
  BY <1>4 DEF SeenIn
<1> QED BY <1>2, <1>5, <1>6

(* What is seen depends on sizes only.                                         *)
LEMMA SeenKept ==
  ASSUME back'.width = back.width, back'.height = back.height,
         DOMAIN depth'.values = DOMAIN depth.values, NEW base, NEW drawn, NEW p
  PROVE  SeenIn(base, drawn, p)' = SeenIn(base, drawn, p)
<1>1. ASSUME NEW t, NEW n
      PROVE  Ahead(t, drawn, n, p)' <=> Ahead(t, drawn, n, p)
  <2>1. \A i \in 1..n : Rival(drawn[i], p)' <=> Rival(drawn[i], p)
    BY RivalKept
  <2>2. \A i \in 1..n : Rank(drawn[i].vertices, p)' = Rank(drawn[i].vertices, p)
    BY RankKept
  <2>3. Rank(t, p)' = Rank(t, p)
    BY RankKept
  <2> QED BY <2>1, <2>2, <2>3 DEF Ahead
<1>2. ASSUME NEW i
      PROVE  ShowsIn(drawn, i, p)' <=> ShowsIn(drawn, i, p)
  <2>1. PICK e, t : e = drawn[i] /\ t = e.vertices
    OBVIOUS
  <2>2. (Covers(t, p)' <=> Covers(t, p)) /\ Rank(t, p)' = Rank(t, p)
    BY SharesKept, RankKept
  <2>3. Ahead(t, drawn, i - 1, p)' <=> Ahead(t, drawn, i - 1, p)
    BY <1>1
  <2> QED BY <2>1, <2>2, <2>3 DEF ShowsIn
<1>3. ASSUME NEW e
      PROVE  ColorOf(e, p)' = ColorOf(e, p)
  BY RankKept DEF ColorOf
<1>4. PICK s : s = {i \in DOMAIN drawn : ShowsIn(drawn, i, p)}
  OBVIOUS
<1>5. s = {i \in DOMAIN drawn : ShowsIn(drawn, i, p)'}
  BY <1>2, <1>4
<1>6. SeenIn(base, drawn, p) = IF s = {} THEN base[p] ELSE ColorOf(drawn[Max(s)], p)
  BY <1>4 DEF SeenIn
<1>7. SeenIn(base, drawn, p)' = IF s = {} THEN base[p] ELSE ColorOf(drawn[Max(s)], p)'
  BY <1>5 DEF SeenIn
<1> QED BY <1>3, <1>6, <1>7

(* Of nothing drawn the background is seen.                                    *)
LEMMA NothingSeen ==
  ASSUME NEW base, NEW p
  PROVE  SeenIn(base, << >>, p) = base[p] /\ SeenIn(base, << >>, p)' = base[p]
<1>1. /\ {i \in DOMAIN << >> : ShowsIn(<< >>, i, p)} = {}
      /\ {i \in DOMAIN << >> : ShowsIn(<< >>, i, p)'} = {}
  OBVIOUS
<1> QED BY <1>1 DEF SeenIn

(* The latest that shows is seen.                                              *)
LEMMA SeenNext ==
  ASSUME NEW base, NEW drawn \in Seq(Items), NEW e \in Items, NEW p,
         NEW more, more = Append(drawn, e)
  PROVE  SeenIn(base, more, p) =
           IF ShowsIn(more, Len(drawn) + 1, p) THEN ColorOf(e, p) ELSE SeenIn(base, drawn, p)
<1>1. PICK n \in Nat : n = Len(drawn)
  OBVIOUS
<1>2. /\ DOMAIN more = (1..n) \cup {n + 1} /\ DOMAIN drawn = 1..n /\ more[n + 1] = e
      /\ \A i \in 1..n : more[i] = drawn[i]
  BY <1>1, OneMore
<1>3. ASSUME NEW i \in 1..n
      PROVE  ShowsIn(more, i, p) <=> ShowsIn(drawn, i, p)
  <2>1. \A j \in 1 .. i - 1 : more[j] = drawn[j]
    BY <1>2
  <2>2. \A t : Ahead(t, more, i - 1, p) <=> Ahead(t, drawn, i - 1, p)
    BY <2>1 DEF Ahead
  <2> QED BY <1>2, <2>2 DEF ShowsIn
<1>4. PICK s \in SUBSET (1..n) : s = {i \in 1..n : ShowsIn(drawn, i, p)}
  OBVIOUS
<1>5. PICK s2 : s2 = {i \in DOMAIN more : ShowsIn(more, i, p)}
  OBVIOUS
<1>6. SeenIn(base, drawn, p) = IF s = {} THEN base[p] ELSE ColorOf(drawn[Max(s)], p)
  BY <1>2, <1>4 DEF SeenIn
<1>7. SeenIn(base, more, p) = IF s2 = {} THEN base[p] ELSE ColorOf(more[Max(s2)], p)
  BY <1>5 DEF SeenIn
<1>8. CASE ShowsIn(more, n + 1, p)
  <2>1. s2 \in SUBSET Int /\ n + 1 \in s2 /\ \A i \in s2 : i <= n + 1
    BY <1>2, <1>5, <1>8
  <2>2. Max(s2) = n + 1
    BY <2>1, MaxIs
  <2> QED BY <1>1, <1>2, <1>7, <1>8, <2>1, <2>2
<1>9. CASE ~ShowsIn(more, n + 1, p)
  <2>1. s2 = s
    BY <1>2, <1>3, <1>4, <1>5, <1>9
  <2>2. s # {} => Max(s) \in 1..n
    BY <1>4, MaxIn
  <2> QED BY <1>1, <1>2, <1>6, <1>7, <1>9, <2>1, <2>2
<1> QED BY <1>8, <1>9

(* A triangle shows where the code paints it.                                  *)
LEMMA TriangleShows ==
  ASSUME WellFormed(back), NEW drawn \in Seq(Items), NEW t \in Corners, NEW test,
         NEW e \in Items, e = [kind |-> "triangle", vertices |-> t, test |-> test],
         NEW p \in Points(back),
         p \in DOMAIN depth.values => Nearest(depth.values[p], drawn, p)
  PROVE  /\ ShowsIn(Append(drawn, e), Len(drawn) + 1, p) <=> Visible(depth, t, p, test)
         /\ ColorOf(e, p) = Hue(t, p)
<1>1. PICK more : more = Append(drawn, e)
  OBVIOUS
<1>2. PICK n \in Nat : n = Len(drawn)
  OBVIOUS
<1>3. more[n + 1] = e /\ \A i \in 1..n : more[i] = drawn[i]
  BY <1>1, <1>2, OneMore
<1>4. Ahead(t, more, n, p) <=> Ahead(t, drawn, n, p)
  BY <1>3 DEF Ahead
<1>5. e.kind = "triangle" /\ e.vertices = t /\ (e.test <=> test)
  OBVIOUS
<1>6. ShowsIn(more, n + 1, p) <=>
        /\ Covers(t, p)
        /\ test => /\ Less(Rank(t, p), Far)
                   /\ p \in DOMAIN depth.values => Ahead(t, drawn, n, p)
  <2>1. n + 1 - 1 = n
    OBVIOUS
  <2> QED BY <1>3, <1>4, <1>5, <2>1 DEF ShowsIn
<1>7. ASSUME p \in DOMAIN depth.values, Covers(t, p)
      PROVE  Less(Rank(t, p), Far) /\ Less(Rank(t, p), depth.values[p])
               <=> Less(Rank(t, p), Far) /\ Ahead(t, drawn, n, p)
  BY <1>2, <1>7, AheadOfNearest
<1>8. ShowsIn(more, n + 1, p) <=> Visible(depth, t, p, test)
  BY <1>6, <1>7, VisibleIs
<1>9. ColorOf(e, p) = Hue(t, p)
  BY <1>5 DEF ColorOf
<1> QED BY <1>1, <1>2, <1>8, <1>9

--------------------------------------------------------------------------------
(* A line, by the steps i along its longer axis and j along its shorter one.   *)

Nears(n, m, i, j) ==
  /\ i <= n /\ j <= m
  /\ 2 * n * j - 2 * i * m <= n /\ (n > 0 => 2 * n * j - 2 * i * m > -n)

(* Its rise follows from the bounds.                                           *)
LEMMA NearsIs ==
  ASSUME NEW n \in Nat, NEW m \in Nat, m <= n, NEW i \in Nat, i <= n, NEW j \in Nat,
         n = 0 => j = 0,
         2 * n * j - 2 * i * m <= n, n > 0 => 2 * n * j - 2 * i * m > -n
  PROVE  Nears(n, m, i, j)
<1>1. CASE n = 0
  BY <1>1 DEF Nears
<1>2. CASE n > 0
  <2> SUFFICES ASSUME j >= m + 1 PROVE FALSE
    BY <1>2 DEF Nears
  <2>1. PICK x \in Nat, y \in Nat, z \in Nat : x = n * j /\ y = i * m /\ z = n * m
    OBVIOUS
  <2>2. (m + 1) * n <= j * n
    BY Monotone
  <2>3. z + n <= x
    <3>1. (m + 1) * n = z + n /\ j * n = x
      BY <2>1
    <3> QED BY <2>2, <3>1
  <2>4. y <= z
    BY <2>1, Monotone
  <2>5. 2 * x - 2 * y <= n
    BY <2>1
  <2> QED BY <1>2, <2>3, <2>4, <2>5
<1> QED BY <1>1, <1>2

(* The next one.                                                               *)
LEMMA NearsNext ==
  ASSUME NEW n \in Nat, NEW m \in Nat, m <= n, NEW i \in Nat, NEW j \in Nat,
         Nears(n, m, i, j), i # n \/ j # m
  PROVE  /\ n > 0 /\ i < n
         /\ 2 * n * j - 2 * i * m + n <= 2 * m => Nears(n, m, i + 1, j + 1)
         /\ 2 * n * j - 2 * i * m + n > 2 * m => Nears(n, m, i + 1, j)
<1>1. PICK x \in Nat, y \in Nat, z \in Nat : x = n * j /\ y = i * m /\ z = n * m
  OBVIOUS
<1>2. 2 * n * j - 2 * i * m = 2 * x - 2 * y
  BY <1>1
<1>3. i <= n /\ j <= m /\ 2 * x - 2 * y <= n /\ (n > 0 => 2 * x - 2 * y > -n)
  BY <1>2 DEF Nears
<1>4. n > 0
  BY <1>3
<1>5. i < n
  <2> SUFFICES ASSUME i = n PROVE FALSE
    BY <1>3
  <2>1. j <= m - 1
    BY <1>3
  <2>2. j * n <= (m - 1) * n
    BY <2>1, Monotone
  <2>3. x <= z - n /\ y = z
    <3>1. (m - 1) * n = z - n /\ j * n = x
      BY <1>1
    <3> QED BY <1>1, <2>2, <3>1
  <2> QED BY <1>3, <1>4, <2>3
<1>6. n * (j + 1) = x + n /\ (i + 1) * m = y + m
  BY <1>1
<1>7. /\ 2 * n * (j + 1) - 2 * (i + 1) * m = 2 * x - 2 * y + 2 * n - 2 * m
      /\ 2 * n * j - 2 * (i + 1) * m = 2 * x - 2 * y - 2 * m
  <2>1. /\ 2 * n * (j + 1) = 2 * (n * (j + 1)) /\ 2 * (i + 1) * m = 2 * ((i + 1) * m)
        /\ 2 * n * j = 2 * x
    BY <1>1
  <2> QED BY <1>6, <2>1
<1>8. ASSUME 2 * x - 2 * y + n <= 2 * m
      PROVE  Nears(n, m, i + 1, j + 1)
  <2>1. j + 1 <= m
    <3> SUFFICES ASSUME j = m PROVE FALSE
      BY <1>3
    <3>1. (i + 1) * m <= n * m
      BY <1>5, Monotone
    <3>2. y + m <= z /\ x = z
      BY <1>1, <1>6, <3>1
    <3> QED BY <1>4, <1>8, <3>2
  <2>2. /\ 2 * x - 2 * y + 2 * n - 2 * m <= n
        /\ 2 * x - 2 * y + 2 * n - 2 * m > -n
    BY <1>3, <1>4, <1>8
  <2> QED BY <1>5, <1>7, <2>1, <2>2 DEF Nears
<1>9. ASSUME 2 * x - 2 * y + n > 2 * m
      PROVE  Nears(n, m, i + 1, j)
  <2>1. /\ 2 * x - 2 * y - 2 * m <= n
        /\ 2 * x - 2 * y - 2 * m > -n
    BY <1>3, <1>9
  <2> QED BY <1>3, <1>5, <1>7, <2>1 DEF Nears
<1> QED BY <1>2, <1>4, <1>5, <1>8, <1>9

(* One point for each step.                                                    *)
LEMMA NearsOne ==
  ASSUME NEW n \in Nat, NEW m \in Nat, m <= n, NEW i \in Nat, NEW j \in Nat, NEW k \in Nat,
         Nears(n, m, i, j), Nears(n, m, i, k)
  PROVE  j = k
<1>1. PICK x \in Nat, y \in Nat, z \in Nat : x = n * j /\ y = i * m /\ z = n * k
  OBVIOUS
<1>2. /\ j <= m /\ 2 * x - 2 * y <= n /\ (n > 0 => 2 * x - 2 * y > -n)
      /\ k <= m /\ 2 * z - 2 * y <= n /\ (n > 0 => 2 * z - 2 * y > -n)
  <2>1. 2 * n * j - 2 * i * m = 2 * x - 2 * y /\ 2 * n * k - 2 * i * m = 2 * z - 2 * y
    BY <1>1
  <2> QED BY <2>1 DEF Nears
<1>3. CASE n = 0
  BY <1>2, <1>3
<1>4. CASE n > 0
  <2>1. ASSUME j < k PROVE FALSE
    <3>1. (j + 1) * n <= k * n
      BY <2>1, Monotone
    <3>2. x + n <= z
      <4>1. (j + 1) * n = x + n /\ k * n = z
        BY <1>1
      <4> QED BY <3>1, <4>1
    <3> QED BY <1>2, <1>4, <3>2
  <2>2. ASSUME k < j PROVE FALSE
    <3>1. (k + 1) * n <= j * n
      BY <2>2, Monotone
    <3>2. z + n <= x
      <4>1. (k + 1) * n = z + n /\ j * n = x
        BY <1>1
      <4> QED BY <3>1, <4>1
    <3> QED BY <1>2, <1>4, <3>2
  <2> QED BY <2>1, <2>2
<1> QED BY <1>3, <1>4

(* By the steps u along the first axis and v along the second.                 *)
Nearby(a, b, u, v) == IF a >= b THEN Nears(a, b, u, v) ELSE Nears(b, a, v, u)
Progress(a, b, u, v) == IF a >= b THEN u ELSE v

(* The error term of the walk, and its comparisons.                            *)
Term(a, b, u, v) == (v + 1) * a - (u + 1) * b

AlongFirst(b, e, u)  == IF 2 * e >= -b THEN u + 1 ELSE u
AlongSecond(a, e, v) == IF 2 * e <= a THEN v + 1 ELSE v

WalksTo(a, b, u, v, e, x, y) ==
  /\ x \in Nat /\ y \in Nat /\ Nearby(a, b, x, y)
  /\ Progress(a, b, x, y) = Progress(a, b, u, v) + 1
  /\ Term(a, b, x, y) = e - (IF 2 * e >= -b THEN b ELSE 0) + (IF 2 * e <= a THEN a ELSE 0)

(* The comparisons of e2 with both axes lead to the next point, and the error  *)
(* term with it.                                                               *)
LEMMA WalkNext ==
  ASSUME NEW a \in Nat, NEW b \in Nat, NEW u \in Nat, NEW v \in Nat, Nearby(a, b, u, v),
         u # a \/ v # b, NEW e \in Int, e = Term(a, b, u, v),
         NEW u1, u1 = AlongFirst(b, e, u), NEW v1, v1 = AlongSecond(a, e, v)
  PROVE  WalksTo(a, b, u, v, e, u1, v1)
<1>0. /\ u1 = IF 2 * e >= -b THEN u + 1 ELSE u
      /\ v1 = IF 2 * e <= a THEN v + 1 ELSE v
  BY DEF AlongFirst, AlongSecond
<1>1. PICK x \in Nat, y \in Nat : x = v * a /\ y = u * b
  OBVIOUS
<1>2. (v + 1) * a = x + a /\ (v + 2) * a = x + 2 * a /\ (u + 1) * b = y + b /\ (u + 2) * b = y + 2 * b
  BY <1>1
<1>3. e = x + a - y - b
  BY <1>2 DEF Term
<1>4. u1 \in Nat /\ v1 \in Nat
  BY <1>0
<1>5. /\ (u1 + 1) * b = IF 2 * e >= -b THEN y + 2 * b ELSE y + b
      /\ (v1 + 1) * a = IF 2 * e <= a THEN x + 2 * a ELSE x + a
  <2>1. 2 * e >= -b => u1 + 1 = u + 2
    BY <1>0
  <2>2. 2 * e <= a => v1 + 1 = v + 2
    BY <1>0
  <2> QED BY <1>0, <1>2, <2>1, <2>2
<1>6. Term(a, b, u1, v1) =
        e - (IF 2 * e >= -b THEN b ELSE 0) + (IF 2 * e <= a THEN a ELSE 0)
  <2>1. PICK f \in Int, g \in Int : f = (u1 + 1) * b /\ g = (v1 + 1) * a
    BY <1>4
  <2> QED BY <1>3, <1>5, <2>1 DEF Term
<1>7. CASE a >= b
  <2>1. Nears(a, b, u, v)
    BY <1>7 DEF Nearby
  <2>0. 2 * a * v = 2 * x /\ 2 * u * b = 2 * y
    <3>1. 2 * a * v = 2 * (v * a) /\ 2 * u * b = 2 * (u * b)
      OBVIOUS
    <3> QED BY <1>1, <3>1
  <2>i. 2 * x - 2 * y \in Int
    OBVIOUS
  <2>p. PICK o \in Int : o = 2 * x - 2 * y
    BY <2>i
  <2>2. o = 2 * a * v - 2 * u * b /\ o = 2 * x - 2 * y
    BY <2>0, <2>p
  <2>3. /\ a > 0 /\ u < a
        /\ o + a <= 2 * b => Nears(a, b, u + 1, v + 1)
        /\ o + a > 2 * b => Nears(a, b, u + 1, v)
    BY <1>7, <2>1, <2>2, NearsNext
  <2>4. o > -a
    BY <2>1, <2>2, <2>3 DEF Nears
  <2>5. 2 * e >= -b /\ (2 * e <= a <=> o + a <= 2 * b)
    BY <1>3, <1>7, <2>2, <2>4
  <2>6. Nears(a, b, u1, v1) /\ u1 = u + 1
    BY <1>0, <2>2, <2>3, <2>5
  <2> QED BY <1>4, <1>6, <1>7, <2>6 DEF Nearby, Progress, WalksTo
<1>8. CASE a < b
  <2>1. Nears(b, a, v, u)
    BY <1>8 DEF Nearby
  <2>0. 2 * b * u = 2 * y /\ 2 * v * a = 2 * x
    <3>1. 2 * b * u = 2 * (u * b) /\ 2 * v * a = 2 * (v * a)
      OBVIOUS
    <3> QED BY <1>1, <3>1
  <2>i. 2 * y - 2 * x \in Int
    OBVIOUS
  <2>p. PICK o \in Int : o = 2 * y - 2 * x
    BY <2>i
  <2>2. o = 2 * b * u - 2 * v * a /\ o = 2 * y - 2 * x
    BY <2>0, <2>p
  <2>3. /\ b > 0 /\ v < b
        /\ o + b <= 2 * a => Nears(b, a, v + 1, u + 1)
        /\ o + b > 2 * a => Nears(b, a, v + 1, u)
    BY <1>8, <2>1, <2>2, NearsNext
  <2>4. o > -b
    BY <2>1, <2>2, <2>3 DEF Nears
  <2>5. 2 * e <= a /\ (2 * e >= -b <=> o + b <= 2 * a)
    BY <1>3, <1>8, <2>2, <2>4
  <2>6. Nears(b, a, v1, u1) /\ v1 = v + 1
    BY <1>0, <2>2, <2>3, <2>5
  <2> QED BY <1>4, <1>6, <1>8, <2>6 DEF Nearby, Progress, WalksTo
<1> QED BY <1>7, <1>8

--------------------------------------------------------------------------------
(* The points of a line.                                                       *)

Gone(f, t, x, u) == x = IF f < t THEN f + u ELSE f - u

(* The point of a line after u and v steps.                                    *)
Marks(from, to, p, u, v) ==
  /\ Gone(from[1], to[1], p[1], u) /\ Gone(from[2], to[2], p[2], v)
  /\ Nearby(Abs(to[1] - from[1]), Abs(to[2] - from[2]), u, v)

(* The number of steps is known from where they lead.                          *)
LEMMA GoneIs ==
  ASSUME NEW f \in Int, NEW t \in Int, NEW x \in Int, NEW u \in Nat, Gone(f, t, x, u)
  PROVE  u = Abs(x - f)
BY DEF Gone, Abs

(* The property says it by the longer axis,                                    *)
LEMMA LongerAxis ==
  ASSUME NEW f \in Int, NEW t \in Int, NEW x \in Int
  PROVE  (\E i \in 0..Abs(t - f) : x = f + (IF t - f < 0 THEN -i ELSE i))
           <=> Gone(f, t, x, Abs(x - f)) /\ Abs(x - f) <= Abs(t - f)
<1>1. ASSUME NEW i \in 0..Abs(t - f), x = f + (IF t - f < 0 THEN -i ELSE i)
      PROVE  Gone(f, t, x, Abs(x - f)) /\ Abs(x - f) <= Abs(t - f)
  BY <1>1 DEF Gone, Abs
<1>2. ASSUME Gone(f, t, x, Abs(x - f)), Abs(x - f) <= Abs(t - f)
      PROVE  \E i \in 0..Abs(t - f) : x = f + (IF t - f < 0 THEN -i ELSE i)
  <2>1. PICK i \in 0..Abs(t - f) : i = Abs(x - f)
    BY <1>2, AbsTyped
  <2>2. x = f + (IF t - f < 0 THEN -i ELSE i)
    <3>1. CASE t - f < 0
      BY <1>2, <2>1, <3>1 DEF Gone, Abs
    <3>2. CASE t - f >= 0
      BY <1>2, <2>1, <3>2 DEF Gone, Abs
    <3> QED BY <3>1, <3>2
  <2> QED BY <2>2
<1> QED BY <1>1, <1>2

(* and by the shorter one.                                                     *)
LEMMA ShorterAxis ==
  ASSUME NEW f \in Int, NEW t \in Int, NEW x \in Int
  PROVE  (x - f) * (t - f) >= 0 /\ (t - f = 0 => x = f)
           <=> Gone(f, t, x, Abs(x - f)) /\ (t = f => x = f)
<1>1. PICK a \in Int, d \in Int : a = x - f /\ d = t - f
  OBVIOUS
<1>2. CASE d = 0
  <2>1. a * d = 0
    BY <1>2
  <2> QED BY <1>1, <1>2, <2>1 DEF Gone, Abs
<1>3. CASE d > 0
  <2>1. a >= 0 => a * d >= 0
    <3>1. a >= 0 => 0 * d <= a * d
      BY <1>3, Monotone
    <3> QED BY <3>1
  <2>2. a < 0 => a * d < 0
    <3>1. a < 0 => a * d <= (-1) * d
      BY <1>3, Monotone
    <3> QED BY <1>3, <3>1
  <2>3. a * d >= 0 <=> a >= 0
    BY <2>1, <2>2
  <2> QED BY <1>1, <1>3, <2>3 DEF Gone, Abs
<1>4. CASE d < 0
  <2>0. PICK g \in Nat : g = -d /\ g > 0
    BY <1>4
  <2>i. a * d = -(a * g)
    BY <2>0
  <2>1. a <= 0 => a * d >= 0
    <3>1. a <= 0 => a * g <= 0 * g
      BY Monotone
    <3> QED BY <2>i, <3>1
  <2>2. a > 0 => a * d < 0
    <3>1. a > 0 => 1 * g <= a * g
      BY Monotone
    <3> QED BY <2>0, <2>i, <3>1
  <2>3. a * d >= 0 <=> a <= 0
    BY <2>1, <2>2
  <2> QED BY <1>1, <1>4, <2>3 DEF Gone, Abs
<1> QED BY <1>2, <1>3, <1>4

(* A point is on a line exactly if its steps are near.                         *)
OnWay(from, to, p) == \E u \in Nat : \E v \in Nat : Marks(from, to, p, u, v)

(* Which steps these are.                                                      *)
LEMMA OnWayIs ==
  ASSUME NEW from \in Pairs, NEW to \in Pairs, NEW p \in Pairs
  PROVE  OnWay(from, to, p) <=>
           Marks(from, to, p, Abs(p[1] - from[1]), Abs(p[2] - from[2]))
<1>1. \A k \in 1..2 : from[k] \in Int /\ to[k] \in Int /\ p[k] \in Int
  BY DEF Pairs
<1>2. ASSUME NEW u \in Nat, NEW v \in Nat, Marks(from, to, p, u, v)
      PROVE  u = Abs(p[1] - from[1]) /\ v = Abs(p[2] - from[2])
  BY <1>1, <1>2, GoneIs DEF Marks
<1>3. Abs(p[1] - from[1]) \in Nat /\ Abs(p[2] - from[2]) \in Nat
  BY <1>1, AbsTyped
<1> QED BY <1>2, <1>3 DEF OnWay

(* The property, in these terms.                                               *)
LEMMA OnLineIs ==
  ASSUME NEW from \in Pairs, NEW to \in Pairs, NEW p \in Pairs,
         NEW l, l.from = from, l.to = to
  PROVE  OnLine(l, p) <=> OnWay(from, to, p)
<1>1. PICK f1 \in Int, f2 \in Int : f1 = from[1] /\ f2 = from[2]
  BY DEF Pairs
<1>2. PICK t1 \in Int, t2 \in Int : t1 = to[1] /\ t2 = to[2]
  BY DEF Pairs
<1>3. PICK p1 \in Int, p2 \in Int : p1 = p[1] /\ p2 = p[2]
  BY DEF Pairs
<1>4. PICK a \in Nat, b \in Nat : a = Abs(t1 - f1) /\ b = Abs(t2 - f2)
  BY AbsTyped
<1>5. PICK u \in Nat, v \in Nat : u = Abs(p1 - f1) /\ v = Abs(p2 - f2)
  BY AbsTyped
<1>6. OnWay(from, to, p) <=> Gone(f1, t1, p1, u) /\ Gone(f2, t2, p2, v) /\ Nearby(a, b, u, v)
  BY <1>1, <1>2, <1>3, <1>4, <1>5, OnWayIs DEF Marks
<1>7. (a = 0 <=> t1 = f1) /\ (b = 0 <=> t2 = f2) /\ (u = 0 <=> p1 = f1) /\ (v = 0 <=> p2 = f2)
  BY <1>4, <1>5 DEF Abs
<1>8. CASE a >= b
  <2>1. OnLine(l, p) <=>
          /\ \E i \in 0..a : p1 = f1 + (IF t1 - f1 < 0 THEN -i ELSE i)
          /\ (p2 - f2) * (t2 - f2) >= 0 /\ (t2 - f2 = 0 => p2 = f2)
          /\ 2 * a * v - 2 * u * b <= a /\ (a > 0 => 2 * a * v - 2 * u * b > -a)
    BY <1>1, <1>2, <1>3, <1>4, <1>5, <1>8 DEF OnLine
  <2>2. (\E i \in 0..a : p1 = f1 + (IF t1 - f1 < 0 THEN -i ELSE i)) <=> Gone(f1, t1, p1, u) /\ u <= a
    BY <1>4, <1>5, LongerAxis
  <2>3. (p2 - f2) * (t2 - f2) >= 0 /\ (t2 - f2 = 0 => p2 = f2)
          <=> Gone(f2, t2, p2, v) /\ (t2 = f2 => p2 = f2)
    BY <1>5, ShorterAxis
  <2>4. Nears(a, b, u, v) <=>
          /\ u <= a /\ (b = 0 => v = 0)
          /\ 2 * a * v - 2 * u * b <= a /\ (a > 0 => 2 * a * v - 2 * u * b > -a)
    <3>1. ASSUME u <= a, b = 0 => v = 0, 2 * a * v - 2 * u * b <= a,
                 a > 0 => 2 * a * v - 2 * u * b > -a
          PROVE  Nears(a, b, u, v)
      <4>1. a = 0 => v = 0
        BY <1>8, <3>1
      <4> QED BY <1>8, <3>1, <4>1, NearsIs
    <3>2. Nears(a, b, u, v) =>
            /\ u <= a /\ (b = 0 => v = 0)
            /\ 2 * a * v - 2 * u * b <= a /\ (a > 0 => 2 * a * v - 2 * u * b > -a)
      BY DEF Nears
    <3> QED BY <3>1, <3>2
  <2>5. Nearby(a, b, u, v) <=> Nears(a, b, u, v)
    BY <1>8 DEF Nearby
  <2> QED BY <1>6, <1>7, <2>1, <2>2, <2>3, <2>4, <2>5
<1>9. CASE a < b
  <2>d. PICK d : d = [k \in 1..2 |-> l.to[k] - l.from[k]]
    OBVIOUS
  <2>e. d[1] = t1 - f1 /\ d[2] = t2 - f2
    BY <1>1, <1>2, <2>d
  <2>m. PICK major, minor : /\ major = IF Abs(d[1]) >= Abs(d[2]) THEN 1 ELSE 2
                            /\ minor = 3 - major
    OBVIOUS
  <2>o. OnLine(l, p) <=>
          /\ \E i \in 0..Abs(d[major]) : p[major] = l.from[major] + (IF d[major] < 0 THEN -i ELSE i)
          /\ (p[minor] - l.from[minor]) * d[minor] >= 0
          /\ (d[minor] = 0 => p[minor] = l.from[minor])
          /\ LET off == 2 * Abs(d[major]) * Abs(p[minor] - l.from[minor])
                           - 2 * Abs(p[major] - l.from[major]) * Abs(d[minor])
             IN off <= Abs(d[major]) /\ (Abs(d[major]) > 0 => off > -Abs(d[major]))
    BY <2>d, <2>m DEF OnLine
  <2>n. major = 2 /\ minor = 1
    BY <1>4, <1>9, <2>e, <2>m
  <2>1. OnLine(l, p) <=>
          /\ \E i \in 0..b : p2 = f2 + (IF t2 - f2 < 0 THEN -i ELSE i)
          /\ (p1 - f1) * (t1 - f1) >= 0 /\ (t1 - f1 = 0 => p1 = f1)
          /\ 2 * b * u - 2 * v * a <= b /\ (b > 0 => 2 * b * u - 2 * v * a > -b)
    BY <1>1, <1>3, <1>4, <1>5, <2>e, <2>n, <2>o
  <2>2. (\E i \in 0..b : p2 = f2 + (IF t2 - f2 < 0 THEN -i ELSE i)) <=> Gone(f2, t2, p2, v) /\ v <= b
    BY <1>4, <1>5, LongerAxis
  <2>3. (p1 - f1) * (t1 - f1) >= 0 /\ (t1 - f1 = 0 => p1 = f1)
          <=> Gone(f1, t1, p1, u) /\ (t1 = f1 => p1 = f1)
    BY <1>5, ShorterAxis
  <2>4. Nears(b, a, v, u) <=>
          /\ v <= b /\ (a = 0 => u = 0)
          /\ 2 * b * u - 2 * v * a <= b /\ (b > 0 => 2 * b * u - 2 * v * a > -b)
    <3>1. ASSUME v <= b, a = 0 => u = 0, 2 * b * u - 2 * v * a <= b,
                 b > 0 => 2 * b * u - 2 * v * a > -b
          PROVE  Nears(b, a, v, u)
      <4>1. a <= b /\ (b = 0 => u = 0)
        BY <1>9
      <4> QED BY <3>1, <4>1, NearsIs
    <3>2. Nears(b, a, v, u) =>
            /\ v <= b /\ (a = 0 => u = 0)
            /\ 2 * b * u - 2 * v * a <= b /\ (b > 0 => 2 * b * u - 2 * v * a > -b)
      BY DEF Nears
    <3> QED BY <3>1, <3>2
  <2>5. Nearby(a, b, u, v) <=> Nears(b, a, v, u)
    BY <1>9 DEF Nearby
  <2> QED BY <1>6, <1>7, <2>1, <2>2, <2>3, <2>4, <2>5
<1> QED BY <1>8, <1>9

(* The points behind the i-th step of the walk.                                *)
Trail(from, to, p, i) ==
  \E u \in Nat : \E v \in Nat :
    /\ Marks(from, to, p, u, v)
    /\ Progress(Abs(to[1] - from[1]), Abs(to[2] - from[2]), u, v) < i

(* One more step, one more point.                                              *)
LEMMA TrailGrows ==
  ASSUME NEW from \in Pairs, NEW to \in Pairs, NEW at \in Pairs, NEW p \in Pairs,
         NEW u \in Nat, NEW v \in Nat, Marks(from, to, at, u, v),
         NEW i, i = Progress(Abs(to[1] - from[1]), Abs(to[2] - from[2]), u, v)
  PROVE  /\ i \in Nat
         /\ Trail(from, to, p, i + 1) <=> Trail(from, to, p, i) \/ p = at
         /\ ~Trail(from, to, p, 0)
<1>1. PICK a \in Nat, b \in Nat : a = Abs(to[1] - from[1]) /\ b = Abs(to[2] - from[2])
  BY AbsTyped DEF Pairs
<1>2. i = Progress(a, b, u, v) /\ Nearby(a, b, u, v) /\ i \in Nat
  BY <1>1 DEF Marks, Progress
<1>3. ASSUME NEW x \in Nat, NEW y \in Nat, Marks(from, to, p, x, y),
             Progress(a, b, x, y) = i
      PROVE  p = at
  <2>1. Nearby(a, b, x, y)
    BY <1>1, <1>3 DEF Marks
  <2>2. x = u /\ y = v
    <3>1. CASE a >= b
      <4>1. x = u /\ Nears(a, b, u, y) /\ Nears(a, b, u, v)
        BY <1>2, <1>3, <2>1, <3>1 DEF Nearby, Progress
      <4> QED BY <3>1, <4>1, NearsOne
    <3>2. CASE a < b
      <4>1. y = v /\ Nears(b, a, v, x) /\ Nears(b, a, v, u)
        BY <1>2, <1>3, <2>1, <3>2 DEF Nearby, Progress
      <4> QED BY <3>2, <4>1, NearsOne
    <3> QED BY <3>1, <3>2
  <2>3. p[1] = at[1] /\ p[2] = at[2]
    BY <1>3, <2>2 DEF Marks, Gone
  <2> QED BY <2>3 DEF Pairs
<1>4. ASSUME NEW x \in Nat, NEW y \in Nat
      PROVE  Progress(a, b, x, y) \in Nat
  BY DEF Progress
<1>5. \A j : Trail(from, to, p, j) <=>
        \E x \in Nat : \E y \in Nat : Marks(from, to, p, x, y) /\ Progress(a, b, x, y) < j
  BY <1>1 DEF Trail
<1>6. ASSUME Trail(from, to, p, i + 1) PROVE Trail(from, to, p, i) \/ p = at
  <2>1. PICK x \in Nat, y \in Nat : Marks(from, to, p, x, y) /\ Progress(a, b, x, y) < i + 1
    BY <1>5, <1>6
  <2>2. Progress(a, b, x, y) < i \/ Progress(a, b, x, y) = i
    <3>1. PICK q \in Nat : q = Progress(a, b, x, y)
      BY <1>4
    <3>2. i \in Nat /\ q < i + 1
      BY <1>2, <2>1, <3>1
    <3>3. q < i \/ q = i
      BY <3>2
    <3> QED BY <3>1, <3>3
  <2> QED BY <1>3, <1>5, <2>1, <2>2
<1>7. ASSUME Trail(from, to, p, i) PROVE Trail(from, to, p, i + 1)
  <2>1. PICK x \in Nat, y \in Nat : Marks(from, to, p, x, y) /\ Progress(a, b, x, y) < i
    BY <1>5, <1>7
  <2>2. Progress(a, b, x, y) < i + 1
    BY <1>2, <1>4, <2>1
  <2> QED BY <1>5, <2>1, <2>2
<1>8. ASSUME p = at PROVE Trail(from, to, p, i + 1)
  <2>1. Marks(from, to, p, u, v) /\ Progress(a, b, u, v) < i + 1
    BY <1>2, <1>8
  <2> QED BY <1>5, <2>1
<1>9. ~Trail(from, to, p, 0)
  BY <1>4, <1>5
<1> QED BY <1>2, <1>6, <1>7, <1>8, <1>9

(* All of the line is behind its end.                                          *)
LEMMA TrailEnds ==
  ASSUME NEW from \in Pairs, NEW to \in Pairs, NEW p \in Pairs,
         NEW u \in Nat, NEW v \in Nat, Marks(from, to, to, u, v),
         NEW i, i = Progress(Abs(to[1] - from[1]), Abs(to[2] - from[2]), u, v)
  PROVE  Trail(from, to, p, i + 1) <=> OnWay(from, to, p)
<1>1. PICK a \in Nat, b \in Nat : a = Abs(to[1] - from[1]) /\ b = Abs(to[2] - from[2])
  BY AbsTyped DEF Pairs
<1>2. u = a /\ v = b
  <2>1. \A k \in 1..2 : from[k] \in Int /\ to[k] \in Int
    BY DEF Pairs
  <2> QED BY <1>1, <2>1, GoneIs DEF Marks
<1>3. ASSUME NEW x \in Nat, NEW y \in Nat, Marks(from, to, p, x, y)
      PROVE  Progress(a, b, x, y) < i + 1
  <2>1. Nearby(a, b, x, y)
    BY <1>1, <1>3 DEF Marks
  <2>2. i = Progress(a, b, a, b)
    BY <1>1, <1>2
  <2> QED BY <2>1, <2>2 DEF Nearby, Nears, Progress
<1> QED BY <1>1, <1>3 DEF Trail, OnWay

--------------------------------------------------------------------------------
(* What fits 32 bits.                                                          *)
InRange(n, h) == -h <= n /\ n < h

(* Signed leaves what is in the range of the type.                             *)
LEMMA SignedIs == \E h \in Nat : \A n \in Int : n = Signed(n) <=> InRange(n, h)
<1>1. PICK h \in Int, r \in 0..1 : h = I32 \div 2 /\ I32 = 2 * h + r /\ r = I32 % 2
  <2>1. I32 \in Int /\ 2 \in Nat \ {0} /\ 2 - 1 = 1
    BY RasterizerAssumption
  <2> QED BY <2>1, DivMod
<1>2. PICK q \in Int : I32 = 32 * q
  <2>1. I32 \in Int /\ 32 \in Nat \ {0} /\ I32 % 32 = 0
    BY RasterizerAssumption
  <2>2. PICK q \in Int, s \in 0 .. 32 - 1 : q = I32 \div 32 /\ s = I32 % 32 /\ I32 = 32 * q + s
    BY <2>1, DivMod
  <2> QED BY <2>1, <2>2
<1>3. I32 \in Nat \ {0} /\ I32 = 2 * h /\ h > 0
  BY <1>1, <1>2, RasterizerAssumption
<1>4. ASSUME NEW n \in Int
      PROVE  n = Signed(n) <=> InRange(n, h)
  <2>1. PICK m \in Int : m = n + h
    OBVIOUS
  <2>2. PICK s \in Int, t \in 0 .. I32 - 1 : s = m \div I32 /\ t = m % I32 /\ m = I32 * s + t
    BY <1>3, DivMod
  <2>3. Signed(n) = t - h
    BY <1>1, <2>1, <2>2 DEF Signed
  <2>4. ASSUME InRange(n, h) PROVE t = m
    <3>1. m \in 0 .. I32 - 1 /\ m = I32 * 0 + m
      BY <1>3, <2>1, <2>4 DEF InRange
    <3>2. m % I32 = m
      BY <1>3, <3>1, RemainderIs
    <3> QED BY <2>2, <3>2
  <2>5. ASSUME t = m PROVE InRange(n, h)
    BY <1>3, <2>1, <2>5 DEF InRange
  <2> QED BY <2>1, <2>3, <2>4, <2>5
<1>5. h \in Nat
  BY <1>3
<1> QED BY <1>4, <1>5

(* The difference of two numbers that fit and are not negative fits.           *)
LEMMA DifferenceFits ==
  ASSUME NEW a \in Nat, NEW b \in Nat, a = Signed(a), b = Signed(b)
  PROVE  Signed(a - b) = a - b
<1>1. PICK h \in Nat : \A n \in Int : n = Signed(n) <=> InRange(n, h)
  BY SignedIs
<1>2. InRange(a, h) /\ InRange(b, h)
  BY <1>1
<1>3. PICK d \in Int : d = a - b
  OBVIOUS
<1>4. InRange(d, h)
  BY <1>2, <1>3 DEF InRange
<1>5. d = Signed(d)
  BY <1>1, <1>4
<1> QED BY <1>3, <1>5

--------------------------------------------------------------------------------
(* The walk along a line.                                                      *)

Reach(c, k) == Abs(c.to[k] - c.from[k])

LineFits(c) ==
  /\ c.v0.color = c.v1.color
  /\ \A k \in 1..2 : Signed(c.to[k] - c.from[k]) = c.to[k] - c.from[k]

Walked(c, u, v) ==
  /\ Marks(c.from, c.to, c.at, u, v)
  /\ c.err = Term(Reach(c, 1), Reach(c, 2), u, v)

(* A line begins at its first point.                                           *)
LEMMA LineBegun ==
  ASSUME OverflowChecks, NEW v0 \in Vertices, NEW v1 \in Vertices, v0.color = v1.color,
         WellFormed(back), DrawLine(v0, v1), call'.pc = "line"
  PROVE  LineFits(call') /\ Walked(call', 0, 0) /\ call'.at = call'.from /\ Walking(call')
<1>1. PICK from \in Pairs, to \in Pairs : from = Pixelled(v0) /\ to = Pixelled(v1)
  BY PixelledTyped
<1>2. PICK d1 \in Int, d2 \in Int : d1 = to[1] - from[1] /\ d2 = to[2] - from[2]
  BY DEF Pairs
<1>3. PICK e : e = Signed(Abs(Signed(d1)) - Abs(Signed(d2)))
  OBVIOUS
<1>4. call' = IF Overflown({d1, d2, Abs(d1), Abs(d2)}) THEN [pc |-> "panic"]
              ELSE [pc |-> "line", v0 |-> v0, v1 |-> v1, from |-> from, to |-> to, at |-> from,
                    err |-> e]
  <2>1. PICK d : d = [k \in 1..2 |-> to[k] - from[k]]
    OBVIOUS
  <2>2. d[1] = d1 /\ d[2] = d2
    BY <1>2, <2>1
  <2>3. call' = IF Overflown({d[1], d[2], Abs(d[1]), Abs(d[2])}) THEN [pc |-> "panic"]
                ELSE [pc |-> "line", v0 |-> v0, v1 |-> v1, from |-> from, to |-> to, at |-> from,
                      err |-> Signed(Abs(Signed(d[1])) - Abs(Signed(d[2])))]
    BY <1>1, <2>1 DEF DrawLine
  <2> QED BY <1>3, <2>2, <2>3
<1>5. ~Overflown({d1, d2, Abs(d1), Abs(d2)})
  BY <1>4
<1>6. d1 = Signed(d1) /\ d2 = Signed(d2) /\ Abs(d1) = Signed(Abs(d1)) /\ Abs(d2) = Signed(Abs(d2))
  BY <1>5 DEF Overflown
<1>7. PICK c : c = call' /\ c = [pc |-> "line", v0 |-> v0, v1 |-> v1, from |-> from, to |-> to,
                                 at |-> from, err |-> e]
  BY <1>4, <1>5
<1>8. PICK a \in Nat, b \in Nat : a = Abs(d1) /\ b = Abs(d2)
  BY AbsTyped
<1>9. e = a - b
  BY <1>3, <1>6, <1>8, DifferenceFits
<1>10. LineFits(c)
  <2>1. \A k \in 1..2 : Signed(to[k] - from[k]) = to[k] - from[k]
    BY <1>2, <1>6
  <2> QED BY <1>7, <2>1 DEF LineFits
<1>11. Walked(c, 0, 0)
  <2>1. Reach(c, 1) = a /\ Reach(c, 2) = b
    BY <1>2, <1>7, <1>8 DEF Reach
  <2>2. Term(a, b, 0, 0) = a - b
    BY DEF Term
  <2>3. Nears(a, b, 0, 0) /\ Nears(b, a, 0, 0)
    BY DEF Nears
  <2>4. Gone(from[1], to[1], from[1], 0) /\ Gone(from[2], to[2], from[2], 0)
    BY DEF Gone, Pairs
  <2>5. Marks(from, to, from, 0, 0)
    BY <1>2, <1>8, <2>3, <2>4 DEF Marks, Nearby
  <2> QED BY <1>7, <1>9, <2>1, <2>2, <2>5 DEF Walked
<1>12. Walking(c)
  BY <1>7, <1>9 DEF Walking
<1> QED BY <1>7, <1>10, <1>11, <1>12

(* One step of a line that does not overflow.                                  *)
LEMMA LineWalked ==
  ASSUME OverflowChecks, Walking(call), LineFits(call),
         NEW u \in Nat, NEW v \in Nat, Walked(call, u, v),
         Walk, call'.pc = "line"
  PROVE  /\ ~AtEnd /\ Walking(call') /\ LineFits(call')
         /\ call'.from = call.from /\ call'.to = call.to /\ call'.v0 = call.v0
         /\ \E x \in Nat : \E y \in Nat :
              /\ Walked(call', x, y)
              /\ Progress(Reach(call, 1), Reach(call, 2), x, y) =
                   Progress(Reach(call, 1), Reach(call, 2), u, v) + 1
<1>1. PICK from \in Pairs, to \in Pairs, at \in Pairs :
        from = call.from /\ to = call.to /\ at = call.at
  BY DEF Walking
<1>2. PICK e \in Int : e = call.err
  BY DEF Walking
<1>3. PICK f1 \in Int, f2 \in Int, t1 \in Int, t2 \in Int :
        f1 = from[1] /\ f2 = from[2] /\ t1 = to[1] /\ t2 = to[2]
  BY DEF Pairs
<1>4. PICK p1 \in Int, p2 \in Int : p1 = at[1] /\ p2 = at[2]
  BY DEF Pairs
<1>5. PICK a \in Nat, b \in Nat : a = Abs(t1 - f1) /\ b = Abs(t2 - f2)
  BY AbsTyped
<1>6. Reach(call, 1) = a /\ Reach(call, 2) = b
  BY <1>1, <1>3, <1>5 DEF Reach
<1>7. Dx = a /\ Dy = -b
  BY <1>1, <1>3, <1>5 DEF Dx, Dy, LineFits
<1>8. ~AtEnd /\ ~LineOverflows
  BY DEF Walk
<1>9. /\ Gone(f1, t1, p1, u) /\ Gone(f2, t2, p2, v) /\ Nearby(a, b, u, v)
      /\ e = Term(a, b, u, v)
  BY <1>1, <1>2, <1>3, <1>4, <1>5, <1>6 DEF Walked, Marks
<1>10. u # a \/ v # b
  <2> SUFFICES ASSUME u = a, v = b PROVE FALSE
    OBVIOUS
  <2>1. p1 = t1 /\ p2 = t2
    BY <1>5, <1>9 DEF Gone, Abs
  <2>2. at = to
    <3>a. at[1] = to[1] /\ at[2] = to[2]
      BY <1>3, <1>4, <2>1
    <3>b. \A k \in 1..2 : k = 1 \/ k = 2
      OBVIOUS
    <3>1. \A k \in 1..2 : at[k] = to[k]
      BY <3>a, <3>b
    <3> QED BY <3>1 DEF Pairs
  <2> QED BY <1>1, <1>8, <2>2 DEF AtEnd
<1>11. ~Overflown({2 * call.err, Err1, Err2, Moved[1], Moved[2]})
  BY <1>8 DEF LineOverflows
<1>12. /\ Signed(2 * e) = 2 * e /\ Signed(Err1) = Err1 /\ Signed(Err2) = Err2
       /\ Signed(Moved[1]) = Moved[1] /\ Signed(Moved[2]) = Moved[2]
  BY <1>2, <1>11 DEF Overflown
<1>13. (Turn(1) <=> 2 * e >= -b) /\ (Turn(2) <=> 2 * e <= a)
  BY <1>2, <1>7, <1>12 DEF Turn
<1>14. PICK x : x = AlongFirst(b, e, u)
  OBVIOUS
<1>15. PICK y : y = AlongSecond(a, e, v)
  OBVIOUS
<1>w. WalksTo(a, b, u, v, e, x, y)
  BY <1>9, <1>10, <1>14, <1>15, WalkNext
<1>16. /\ x \in Nat /\ y \in Nat /\ Nearby(a, b, x, y)
       /\ Progress(a, b, x, y) = Progress(a, b, u, v) + 1
       /\ Term(a, b, x, y) = e - (IF 2 * e >= -b THEN b ELSE 0) + (IF 2 * e <= a THEN a ELSE 0)
  BY <1>w DEF WalksTo
<1>17. Err2 = Term(a, b, x, y)
  <2>1. PICK g \in Int : g = Err1 /\ g = e - (IF 2 * e >= -b THEN b ELSE 0)
    BY <1>2, <1>7, <1>13 DEF Err1
  <2>2. Err2 = g + (IF 2 * e <= a THEN a ELSE 0)
    BY <1>7, <1>12, <1>13, <2>1 DEF Err2
  <2> QED BY <1>16, <2>1, <2>2
<1>18. PICK m1 \in Int, m2 \in Int : m1 = Moved[1] /\ m2 = Moved[2]
  BY WalkTyped
<1>19. Gone(f1, t1, m1, x) /\ Gone(f2, t2, m2, y)
  <2>1. m1 = IF 2 * e >= -b THEN p1 + (IF f1 < t1 THEN 1 ELSE -1) ELSE p1
    BY <1>1, <1>3, <1>4, <1>13, <1>18 DEF Moved, Heading
  <2>2. m2 = IF 2 * e <= a THEN p2 + (IF f2 < t2 THEN 1 ELSE -1) ELSE p2
    BY <1>1, <1>3, <1>4, <1>13, <1>18 DEF Moved, Heading
  <2>3. Gone(f1, t1, m1, x)
    BY <1>9, <1>14, <2>1 DEF Gone, AlongFirst
  <2>4. Gone(f2, t2, m2, y)
    BY <1>9, <1>15, <2>2 DEF Gone, AlongSecond
  <2> QED BY <2>3, <2>4
<1>20. PICK to2 : to2 = [k \in 1..2 |-> Signed(Moved[k])]
  OBVIOUS
<1>21. to2 \in Pairs /\ to2[1] = m1 /\ to2[2] = m2
  <2>1. \A k \in 1..2 : Signed(Moved[k]) \in Int
    BY WalkTyped, SignedTyped
  <2> QED BY <1>12, <1>18, <1>20, <2>1 DEF Pairs
<1>22. PICK e2 \in Int : e2 = Signed(Err2) /\ e2 = Err2
  BY <1>12, WalkTyped
<1>23. PICK c : c = call' /\ c = [call EXCEPT !.at = to2, !.err = e2]
  <2>1. call' = [call EXCEPT !.at = to2, !.err = e2]
    BY <1>8, <1>20, <1>22 DEF Walk
  <2> QED BY <2>1
<1>24. /\ Walking(c) /\ c.at = to2 /\ c.err = e2 /\ c.from = from /\ c.to = to
       /\ c.v0 = call.v0 /\ c.v1 = call.v1
  BY <1>1, <1>21, <1>23 DEF Walking
<1>25. LineFits(c)
  BY <1>1, <1>24 DEF LineFits
<1>26. Walked(c, x, y)
  <2>1. Reach(c, 1) = a /\ Reach(c, 2) = b
    BY <1>3, <1>5, <1>24 DEF Reach
  <2>2. Marks(from, to, to2, x, y)
    BY <1>3, <1>5, <1>16, <1>19, <1>21 DEF Marks
  <2> QED BY <1>17, <1>22, <1>24, <2>1, <2>2 DEF Walked
<1> QED BY <1>1, <1>6, <1>8, <1>16, <1>23, <1>24, <1>25, <1>26

--------------------------------------------------------------------------------
(* The picture, during calls too: what is seen is the scene and, of the line   *)
(* that is drawn, the points that were walked past.                            *)

LineHue(c) == [k \in 1..4 |-> Byte(c.v0.color[k], One)]

Behind(c, p) ==
  \E u \in Nat : \E v \in Nat :
    Walked(c, u, v) /\ Trail(c.from, c.to, p, Progress(Reach(c, 1), Reach(c, 2), u, v))

(* The inductive invariant: each depth is that of the nearest triangle,        *)
DepthExact ==
  scene.known =>
    \A p \in Points(back) :
      p \in DOMAIN depth.values => Nearest(depth.values[p], scene.drawn, p)

(* the line under way is at a point of its own with the error term of that     *)
(* point,                                                                      *)
LineExact ==
  scene.known /\ call.pc = "line" =>
    LineFits(call) /\ \E u \in Nat : \E v \in Nat : Walked(call, u, v)

(* and what is seen is the scene and, of that line, what it has been over.     *)
SeenExact ==
  scene.known /\ back.format = "rgba8" =>
    \A p \in Points(back) :
      Image(back)[p] = IF call.pc = "line" /\ Behind(call, p) THEN LineHue(call)
                       ELSE SeenIn(scene.base, scene.drawn, p)

(* All three, while the scene is known.                                        *)
PictureInv == DepthExact /\ LineExact /\ SeenExact

(* The same bytes look the same.                                               *)
LEMMA ImageSame ==
  ASSUME NEW r, NEW s, Alike(r, s), r.pixels = s.pixels
  PROVE  Image(r) = Image(s)
<1>1. Points(r) = Points(s) /\ r.format = s.format /\ \A p : Place(r, p) = Place(s, p)
  BY DEF Alike
<1> QED BY <1>1 DEF Image

(* Sizes and format stay.                                                      *)
LEMMA AlikeSizes ==
  ASSUME Alike(back', back)
  PROVE  /\ back'.width = back.width /\ back'.height = back.height
         /\ Points(back') = Points(back) /\ back'.format = back.format
BY DEF Alike

(* Steps between calls, and those that leave all as it is.                     *)
LEMMA RestKept ==
  ASSUME PictureInv, Alike(back', back), back'.pixels = back.pixels, depth' = depth,
         scene' = scene, call' = call \/ (call.pc # "line" /\ call'.pc # "line")
  PROVE  PictureInv'
<1>1. /\ back'.width = back.width /\ back'.height = back.height
      /\ Points(back') = Points(back) /\ back'.format = back.format
  BY AlikeSizes
<1>2. DepthExact'
  <2>1. ASSUME scene.known, NEW p \in Points(back), p \in DOMAIN depth.values
        PROVE  Nearest(depth.values[p], scene.drawn, p)'
    <3>1. PICK v, drawn : v = depth.values[p] /\ drawn = scene.drawn
      OBVIOUS
    <3>2. Nearest(v, drawn, p)
      BY <2>1, <3>1 DEF PictureInv, DepthExact
    <3>3. Nearest(v, drawn, p)'
      BY <1>1, <3>2, NearestKept
    <3>4. v = depth'.values[p] /\ drawn = scene'.drawn
      BY <3>1
    <3> QED BY <3>3, <3>4
  <2> QED BY <1>1, <2>1 DEF DepthExact
<1>3. LineExact'
  BY DEF PictureInv, LineExact
<1>4. SeenExact'
  <2>1. ASSUME scene.known, back.format = "rgba8", NEW p \in Points(back)
        PROVE  Image(back')[p] = IF call'.pc = "line" /\ Behind(call', p) THEN LineHue(call')
                                 ELSE SeenIn(scene.base, scene.drawn, p)'
    <3>1. PICK base, drawn : base = scene.base /\ drawn = scene.drawn
      OBVIOUS
    <3>2. SeenIn(base, drawn, p)' = SeenIn(base, drawn, p)
      BY <1>1, SeenKept
    <3>3. Image(back')[p] = Image(back)[p]
      BY ImageSame
    <3>4. Image(back)[p] = IF call.pc = "line" /\ Behind(call, p) THEN LineHue(call)
                           ELSE SeenIn(base, drawn, p)
      BY <2>1, <3>1 DEF PictureInv, SeenExact
    <3>5. base = scene'.base /\ drawn = scene'.drawn
      BY <3>1
    <3>6. CASE call' = call
      BY <3>2, <3>3, <3>4, <3>5, <3>6
    <3>7. CASE call.pc # "line" /\ call'.pc # "line"
      BY <3>2, <3>3, <3>4, <3>5, <3>7
    <3> QED BY <3>6, <3>7
  <2> QED BY <1>1, <2>1 DEF SeenExact
<1> QED BY <1>2, <1>3, <1>4 DEF PictureInv

(* A new scene begins with what is there.                                      *)
LEMMA SceneBegins ==
  ASSUME Points(back') = Points(back)', call'.pc # "line",
         scene'.base = Image(back'), scene'.drawn = << >>,
         \A p \in DOMAIN depth'.values : depth'.values[p] = Far
  PROVE  PictureInv'
<1>1. ASSUME NEW p
      PROVE  Nearest(Far, << >>, p)'
  BY NothingNearest
<1>2. DepthExact'
  BY <1>1 DEF DepthExact
<1>3. LineExact'
  BY DEF LineExact
<1>4. ASSUME NEW p
      PROVE  SeenIn(scene.base, << >>, p)' = scene'.base[p]
  <2>1. PICK base : base = scene'.base
    OBVIOUS
  <2>2. SeenIn(base, << >>, p)' = base[p]
    BY NothingSeen
  <2> QED BY <2>1, <2>2
<1>5. SeenExact'
  BY <1>4 DEF SeenExact
<1> QED BY <1>2, <1>3, <1>5 DEF PictureInv

(* The lines that PictureExact is about.                                       *)
OneColour == \A s \in Segments : s[1].color = s[2].color

(* Of a scene that is not known nothing is said.                               *)
LEMMA UnknownScene ==
  ASSUME ~scene'.known
  PROVE  PictureInv'
BY DEF PictureInv, DepthExact, LineExact, SeenExact

(* Each step keeps it: a depth buffer is sized,                                *)
LEMMA SizePicture ==
  ASSUME FrameInv, RasterFormed, NEW w \in Nat, NEW h \in Nat, ResizeDepth(<<w, h>>)
  PROVE  PictureInv'
<1>1. back' = back /\ \A p \in DOMAIN depth'.values : depth'.values[p] = Far
  BY SizeKept
<1>2. call' = call /\ call.pc = "idle" /\ scene' = [scene EXCEPT !.base = Image(back), !.drawn = << >>]
  BY DEF ResizeDepth, Called
<1>3. scene'.base = Image(back) /\ scene'.drawn = << >>
  BY <1>2 DEF RasterFormed, SceneFormed
<1>4. scene'.base = Image(back') /\ Points(back') = Points(back)' /\ call'.pc # "line"
  BY <1>1, <1>2, <1>3
<1> QED BY <1>1, <1>3, <1>4, SceneBegins

(* a pass begins,                                                              *)
LEMMA PassPicture ==
  ASSUME FrameInv, RasterFormed, BeginPass
  PROVE  PictureInv'
<1>1. \A p \in DOMAIN depth'.values : depth'.values[p] = Far
  BY PassKept
<1>2. call' = call /\ call.pc = "idle" /\ scene' = [base |-> Image(back'), drawn |-> <<>>, known |-> TRUE]
  BY DEF BeginPass, Called
<1>3. scene'.base = Image(back') /\ scene'.drawn = << >> /\ call'.pc # "line"
  BY <1>2
<1>4. Points(back') = Points(back)'
  OBVIOUS
<1> QED BY <1>1, <1>3, <1>4, SceneBegins

(* (nothing changes)                                                           *)
LEMMA AlikeSame == ASSUME back' = back PROVE Alike(back', back)
BY DEF Alike

(* a list begins,                                                              *)
LEMMA ListPicture ==
  ASSUME FrameInv, RasterFormed, PictureInv, NEW mesh \in Meshes, NEW test \in BOOLEAN,
         DrawTriangles(mesh, test)
  PROVE  PictureInv'
<1>1. back' = back /\ depth' = depth /\ scene' = scene /\ Alike(back', back)
  BY ListKept, AlikeSame
<1>2. call.pc # "line" /\ call'.pc # "line"
  BY DEF DrawTriangles, Called
<1>3. back'.pixels = back.pixels
  BY <1>1
<1> QED BY <1>1, <1>2, <1>3, RestKept

(* a line begins,                                                              *)
LEMMA LineStartPicture ==
  ASSUME OverflowChecks, FrameInv, RasterFormed, PictureInv,
         NEW v0 \in Vertices, NEW v1 \in Vertices, v0.color = v1.color, DrawLine(v0, v1)
  PROVE  PictureInv'
<1>1. back' = back /\ depth' = depth /\ Alike(back', back)
  BY LineStartKept, AlikeSame
<1>2. scene' = [scene EXCEPT !.known = scene.known /\ call'.pc = "line"] /\ call.pc = "idle"
  BY DEF DrawLine, Called
<1>3. CASE call'.pc # "line"
  <2>1. ~scene'.known
    BY <1>2, <1>3 DEF RasterFormed, SceneFormed
  <2> QED BY <2>1, UnknownScene
<1>4. CASE call'.pc = "line"
  <2>1. /\ scene'.base = scene.base /\ scene'.drawn = scene.drawn
        /\ scene'.known => scene.known
    BY <1>2 DEF RasterFormed, SceneFormed
  <2>2. PICK c : c = call'
    OBVIOUS
  <2>3. LineFits(c) /\ Walked(c, 0, 0) /\ c.at = c.from /\ Walking(c)
    BY <1>4, <2>2, LineBegun DEF FrameInv
  <2>4. /\ back'.width = back.width /\ back'.height = back.height
        /\ Points(back') = Points(back) /\ back'.format = back.format
    BY <1>1
  <2>5. DepthExact'
    <3>1. ASSUME scene.known, NEW p \in Points(back), p \in DOMAIN depth.values
          PROVE  Nearest(depth.values[p], scene.drawn, p)'
      <4>1. PICK v, drawn : v = depth.values[p] /\ drawn = scene.drawn
        OBVIOUS
      <4>2. Nearest(v, drawn, p)
        BY <3>1, <4>1 DEF PictureInv, DepthExact
      <4>3. Nearest(v, drawn, p)'
        BY <2>4, <4>2, NearestKept
      <4>4. v = depth'.values[p] /\ drawn = scene'.drawn
        BY <1>1, <2>1, <4>1
      <4> QED BY <4>3, <4>4
    <3> QED BY <1>1, <2>1, <2>4, <3>1 DEF DepthExact
  <2>6. LineExact'
    <3>1. \E u \in Nat : \E v \in Nat : Walked(c, u, v)
      BY <2>3
    <3> QED BY <2>2, <2>3, <3>1 DEF LineExact
  <2>7. ASSUME NEW p \in Points(back)
        PROVE  ~Behind(c, p)
    <3> SUFFICES ASSUME NEW u \in Nat, NEW v \in Nat, Walked(c, u, v),
                        Trail(c.from, c.to, p, Progress(Reach(c, 1), Reach(c, 2), u, v))
                 PROVE  FALSE
      BY DEF Behind
    <3>1. PICK from \in Pairs, to \in Pairs : from = c.from /\ to = c.to
      BY <2>3 DEF Walking
    <3>2. Marks(from, to, from, u, v)
      BY <2>3, <3>1 DEF Walked
    <3>3. u = 0 /\ v = 0
      <4>1. \A k \in 1..2 : from[k] \in Int /\ to[k] \in Int
        BY DEF Pairs
      <4>2. u = Abs(from[1] - from[1]) /\ v = Abs(from[2] - from[2])
        BY <3>2, <4>1, GoneIs DEF Marks
      <4> QED BY <4>1, <4>2 DEF Abs
    <3>4. Trail(from, to, p, 0)
      BY <3>1, <3>3 DEF Progress
    <3>5. p \in Pairs
      BY PointInside DEF FrameInv, Points, Pairs
    <3>6. PICK i : i = Progress(Abs(to[1] - from[1]), Abs(to[2] - from[2]), u, v)
      OBVIOUS
    <3> QED BY <3>2, <3>4, <3>5, <3>6, TrailGrows
  <2>8. SeenExact'
    <3>1. ASSUME scene.known, back.format = "rgba8", NEW p \in Points(back)
          PROVE  Image(back')[p] = SeenIn(scene.base, scene.drawn, p)'
      <4>1. PICK base, drawn : base = scene.base /\ drawn = scene.drawn
        OBVIOUS
      <4>2. SeenIn(base, drawn, p)' = SeenIn(base, drawn, p)
        BY <1>1, <2>4, SeenKept
      <4>3. Image(back)[p] = SeenIn(base, drawn, p)
        BY <1>2, <3>1, <4>1 DEF PictureInv, SeenExact
      <4>4. base = scene'.base /\ drawn = scene'.drawn
        BY <2>1, <4>1
      <4> QED BY <1>1, <4>2, <4>3, <4>4
    <3> QED BY <2>1, <2>2, <2>4, <2>7, <3>1 DEF SeenExact
  <2> QED BY <2>5, <2>6, <2>8 DEF PictureInv
<1> QED BY <1>3, <1>4

(* a triangle is drawn: it is seen where it is ahead of all before it.         *)
LEMMA TrianglePicture ==
  ASSUME FrameInv, RasterFormed, PictureInv, NextTriangle
  PROVE  PictureInv'
<1>1. /\ RasterFormed' /\ Alike(back', back) /\ DOMAIN depth'.values = DOMAIN depth.values
  BY TriangleKept
<1>2. PICK t \in Corners, test \in BOOLEAN :
        /\ scene' = [scene EXCEPT !.drawn =
                       Append(@, [kind |-> "triangle", vertices |-> t, test |-> test])]
        /\ Drawn(DOMAIN depth.values, [back |-> back, depth |-> depth],
                 [back |-> back', depth |-> depth'], t, test)
  BY TriangleKept
<1>3. PICK e : e = [kind |-> "triangle", vertices |-> t, test |-> test]
  OBVIOUS
<1>4. e \in Items
  BY <1>3 DEF Items
<1>5. PICK drawn, base : drawn = scene.drawn /\ base = scene.base
  OBVIOUS
<1>6. drawn \in Seq(Items)
  BY <1>5 DEF RasterFormed, SceneFormed
<1>7. PICK more : more = Append(drawn, e)
  OBVIOUS
<1>8. scene'.drawn = more /\ scene'.base = base /\ (scene'.known <=> scene.known)
  BY <1>2, <1>3, <1>5, <1>7 DEF RasterFormed, SceneFormed
<1>9. /\ back'.width = back.width /\ back'.height = back.height
      /\ Points(back') = Points(back) /\ back'.format = back.format
  BY <1>1, AlikeSizes
<1>10. PICK D : D = DOMAIN depth.values
  OBVIOUS
<1>11. WellFormed(back)
  BY DEF FrameInv
<1>12. ASSUME NEW p \in Points(back)
       PROVE  /\ back.format = "rgba8" =>
                   Image(back')[p] = IF Visible(depth, t, p, test) THEN Hue(t, p) ELSE Image(back)[p]
              /\ p \in D =>
                   depth'.values[p] =
                     IF test /\ Visible(depth, t, p, test) THEN Rank(t, p) ELSE depth.values[p]
  BY <1>2, <1>10 DEF Drawn, Treated
<1>13. ASSUME scene.known, NEW p \in Points(back)
       PROVE  p \in D => Nearest(depth.values[p], drawn, p)
  BY <1>5, <1>10, <1>13 DEF PictureInv, DepthExact
<1>14. DepthExact'
  <2>1. ASSUME scene.known, NEW p \in Points(back), p \in D
        PROVE  Nearest(depth.values[p], scene.drawn, p)'
    <3>1. PICK v : v = depth.values[p]
      OBVIOUS
    <3>2. PICK w : w = IF test /\ Visible(depth, t, p, test) THEN Rank(t, p) ELSE v
      OBVIOUS
    <3>3. Nearest(v, drawn, p)
      BY <1>13, <2>1, <3>1
    <3>4. Nearest(w, more, p)
      <4>1. PICK d : d = depth
        OBVIOUS
      <4>2. p \in DOMAIN d.values /\ v = d.values[p]
        BY <1>10, <2>1, <3>1, <4>1
      <4>3. w = IF test /\ Visible(d, t, p, test) THEN Rank(t, p) ELSE v
        BY <3>2, <4>1
      <4>4. Nearest(w, Append(drawn, e), p)
        BY <1>3, <1>4, <1>6, <1>11, <3>3, <4>2, <4>3, TriangleNearest
      <4> QED BY <1>7, <4>4
    <3>5. Nearest(w, more, p)'
      BY <1>9, <3>4, NearestKept
    <3>6. w = depth'.values[p]
      BY <1>12, <2>1, <3>1, <3>2
    <3> QED BY <1>8, <3>5, <3>6
  <2> QED BY <1>1, <1>8, <1>9, <1>10, <2>1 DEF DepthExact
<1>15. call.pc = "list" /\ call'.pc = "list"
  BY DEF NextTriangle, RasterFormed, CallFormed
<1>16. LineExact'
  BY <1>15 DEF LineExact
<1>17. SeenExact'
  <2>1. ASSUME scene.known, back.format = "rgba8", NEW p \in Points(back)
        PROVE  Image(back')[p] = SeenIn(scene.base, scene.drawn, p)'
    <3>1. SeenIn(base, more, p)' = SeenIn(base, more, p)
      BY <1>1, <1>9, SeenKept
    <3>2. SeenIn(base, more, p) =
            IF ShowsIn(more, Len(drawn) + 1, p) THEN ColorOf(e, p) ELSE SeenIn(base, drawn, p)
      BY <1>4, <1>6, <1>7, SeenNext, ZenonT(60)
    <3>3. /\ ShowsIn(Append(drawn, e), Len(drawn) + 1, p) <=> Visible(depth, t, p, test)
          /\ ColorOf(e, p) = Hue(t, p)
      <4>1. p \in DOMAIN depth.values => Nearest(depth.values[p], drawn, p)
        BY <1>10, <1>13, <2>1
      <4> QED BY <1>3, <1>4, <1>6, <1>11, <4>1, TriangleShows
    <3>4. Image(back)[p] = SeenIn(base, drawn, p)
      BY <1>5, <1>15, <2>1 DEF PictureInv, SeenExact
    <3>5. Image(back')[p] = IF Visible(depth, t, p, test) THEN Hue(t, p) ELSE Image(back)[p]
      BY <1>12, <2>1
    <3>6. Image(back')[p] = SeenIn(base, more, p)
      BY <1>7, <3>2, <3>3, <3>4, <3>5
    <3> QED BY <1>8, <3>1, <3>6
  <2> QED BY <1>8, <1>9, <1>15, <2>1 DEF SeenExact
<1> QED BY <1>14, <1>16, <1>17 DEF PictureInv

(* The steps of a walk are known from where it is.                             *)
LEMMA BehindIs ==
  ASSUME NEW c, Walking(c), NEW u \in Nat, NEW v \in Nat, Walked(c, u, v), NEW p
  PROVE  Behind(c, p) <=> Trail(c.from, c.to, p, Progress(Reach(c, 1), Reach(c, 2), u, v))
<1>1. PICK from \in Pairs, to \in Pairs, at \in Pairs :
        from = c.from /\ to = c.to /\ at = c.at
  BY DEF Walking
<1>2. from[1] \in Int /\ from[2] \in Int /\ to[1] \in Int /\ to[2] \in Int
      /\ at[1] \in Int /\ at[2] \in Int
  BY DEF Pairs
<1>3. ASSUME NEW x \in Nat, NEW y \in Nat, Walked(c, x, y)
      PROVE  x = Abs(at[1] - from[1]) /\ y = Abs(at[2] - from[2])
  <2>1. Gone(from[1], to[1], at[1], x) /\ Gone(from[2], to[2], at[2], y)
    BY <1>1, <1>3 DEF Walked, Marks
  <2> QED BY <1>2, <2>1, GoneIs
<1>4. \A x \in Nat : \A y \in Nat : Walked(c, x, y) => x = u /\ y = v
  BY <1>3
<1> QED BY <1>4 DEF Behind

(* What a step of a line paints.                                               *)
LinePaint(p) ==
  IF p = call.at THEN LineHue(call) ELSE Image(back)[p]

(* The point it is at.                                                         *)
LEMMA LinePaints ==
  ASSUME FrameInv, RasterFormed, LinePoint, call.v0.color = call.v1.color,
         back.format = "rgba8", NEW p \in Points(back)
  PROVE  Image(back')[p] = LinePaint(p)
<1>1. Walking(call)
  BY LineKept
<1>2. CASE call.at \in Points(back)
  <2>1. PICK h \in Color : h = LineColor /\ h = LineHue(call)
    BY <1>1, LineColorIs DEF LineHue
  <2>2. PICK q \in Points(back) : q = call.at
    BY <1>2
  <2>3. PICK r : r = Put(back, q, h)
    OBVIOUS
  <2>4. back' = r
    BY <2>1, <2>2, <2>3 DEF LinePoint
  <2>5. WellFormed(back)
    BY DEF FrameInv
  <2>6. /\ \A o \in Points(back) : o # q => Image(r)[o] = Image(back)[o]
        /\ back.format = "rgba8" => Image(r)[q] = h
    BY <2>3, <2>5, PutShown
  <2> QED BY <2>1, <2>2, <2>4, <2>6 DEF LinePaint
<1>3. CASE call.at \notin Points(back)
  <2>1. back' = back /\ p # call.at
    BY <1>3 DEF LinePoint
  <2> QED BY <2>1 DEF LinePaint
<1> QED BY <1>2, <1>3

(* The depths while the scene is as it was, and when a line was added to it.   *)
LEMMA DepthStays ==
  ASSUME RasterFormed, DepthExact, Alike(back', back), depth' = depth,
         scene'.known => scene.known,
         NEW more, scene'.drawn = more, NEW drawn, scene.drawn = drawn,
         more = drawn \/ \E e \in Items : e.kind = "line" /\ more = Append(drawn, e)
  PROVE  DepthExact'
<1>1. /\ back'.width = back.width /\ back'.height = back.height
      /\ Points(back') = Points(back)
  BY AlikeSizes
<1>2. ASSUME scene.known, NEW p \in Points(back), p \in DOMAIN depth.values
      PROVE  Nearest(depth.values[p], scene.drawn, p)'
  <2>1. PICK v : v = depth.values[p]
    OBVIOUS
  <2>2. Nearest(v, drawn, p)
    BY <1>2, <2>1 DEF DepthExact
  <2>3. drawn \in Seq(Items)
    BY DEF RasterFormed, SceneFormed
  <2>4. Nearest(v, more, p)
    BY <2>2, <2>3, LineDrawn
  <2>5. Nearest(v, more, p)'
    BY <1>1, <2>4, NearestKept
  <2>6. v = depth'.values[p]
    BY <2>1
  <2> QED BY <2>5, <2>6
<1> QED BY <1>1, <1>2 DEF DepthExact

(* The last point of a line.                                                   *)
LEMMA LineEndPicture ==
  ASSUME OverflowChecks, FrameInv, RasterFormed, PictureInv, LinePoint, AtEnd
  PROVE  PictureInv'
<1>1. RasterFormed' /\ Alike(back', back) /\ depth' = depth /\ Walking(call)
  BY LineKept
<1>2. PICK e : e = [kind |-> "line", vertices |-> <<call.v0, call.v1>>,
                    from |-> call.from, to |-> call.to]
  OBVIOUS
<1>3. e \in Items
  <2>1. PICK v \in Vertices \X Vertices : v = <<call.v0, call.v1>>
    BY <1>1 DEF Walking
  <2>2. PICK a \in Pairs, b \in Pairs : a = call.from /\ b = call.to
    BY <1>1 DEF Walking
  <2>3. e = [kind |-> "line", vertices |-> v, from |-> a, to |-> b]
    BY <1>2, <2>1, <2>2
  <2> QED BY <2>3 DEF Items
<1>4. PICK base, drawn : drawn = scene.drawn /\ base = scene.base
  OBVIOUS
<1>5. drawn \in Seq(Items)
  BY <1>4 DEF RasterFormed, SceneFormed
<1>6. PICK more : more = Append(drawn, e)
  OBVIOUS
<1>7. scene'.drawn = more /\ scene'.base = base /\ (scene'.known <=> scene.known)
  BY <1>2, <1>4, <1>6 DEF LinePoint, RasterFormed, SceneFormed
<1>8. call.pc = "line" /\ call'.pc # "line" /\ call.at = call.to
  BY DEF LinePoint, Walk, AtEnd
<1>9. /\ back'.width = back.width /\ back'.height = back.height
      /\ Points(back') = Points(back) /\ back'.format = back.format
  BY <1>1, AlikeSizes
<1>10. e.kind = "line" /\ e.vertices[1] = call.v0 /\ e.from = call.from /\ e.to = call.to
  BY <1>2
<1>11. DepthExact'
  BY <1>1, <1>3, <1>4, <1>6, <1>7, <1>10, DepthStays DEF PictureInv
<1>12. LineExact'
  BY <1>8 DEF LineExact
<1>13. ASSUME scene.known, back.format = "rgba8", NEW p \in Points(back)
       PROVE  Image(back')[p] = SeenIn(scene.base, scene.drawn, p)'
  <2>1. SeenIn(base, more, p)' = SeenIn(base, more, p)
    BY <1>1, <1>9, SeenKept DEF RasterFormed
  <2>2. SeenIn(base, more, p) =
          IF ShowsIn(more, Len(drawn) + 1, p) THEN ColorOf(e, p) ELSE SeenIn(base, drawn, p)
    BY <1>3, <1>5, <1>6, SeenNext, ZenonT(60)
  <2>3. ColorOf(e, p) = LineHue(call)
    BY <1>10 DEF ColorOf, LineHue
  <2>4. ShowsIn(more, Len(drawn) + 1, p) <=> OnLine(e, p)
    <3>1. more[Len(drawn) + 1] = e
      BY <1>3, <1>5, <1>6, OneMore
    <3> QED BY <1>10, <3>1 DEF ShowsIn
  <2>5. PICK from \in Pairs, to \in Pairs : from = call.from /\ to = call.to
    BY <1>1 DEF Walking
  <2>6. p \in Pairs
    BY PointInside DEF FrameInv, Points, Pairs
  <2>7. OnLine(e, p) <=> OnWay(from, to, p)
    BY <1>10, <2>5, <2>6, OnLineIs
  <2>8. PICK u \in Nat, v \in Nat : Walked(call, u, v)
    BY <1>8, <1>13 DEF PictureInv, LineExact
  <2>9. PICK i : i = Progress(Reach(call, 1), Reach(call, 2), u, v)
    OBVIOUS
  <2>10. Behind(call, p) <=> Trail(from, to, p, i)
    BY <1>1, <2>5, <2>8, <2>9, BehindIs
  <2>11. Marks(from, to, to, u, v)
    BY <1>8, <2>5, <2>8 DEF Walked
  <2>12. i = Progress(Abs(to[1] - from[1]), Abs(to[2] - from[2]), u, v)
    BY <2>5, <2>9 DEF Reach
  <2>13. Trail(from, to, p, i + 1) <=> Trail(from, to, p, i) \/ p = to
    BY <2>6, <2>11, <2>12, TrailGrows
  <2>14. Trail(from, to, p, i + 1) <=> OnWay(from, to, p)
    BY <2>6, <2>11, <2>12, TrailEnds
  <2>15. OnLine(e, p) <=> Behind(call, p) \/ p = call.at
    BY <1>8, <2>5, <2>7, <2>10, <2>13, <2>14
  <2>16. Image(back)[p] = IF Behind(call, p) THEN LineHue(call) ELSE SeenIn(base, drawn, p)
    BY <1>4, <1>8, <1>13 DEF PictureInv, SeenExact
  <2>17. Image(back')[p] = IF p = call.at THEN LineHue(call) ELSE Image(back)[p]
    <3>1. call.v0.color = call.v1.color
      BY <1>8, <1>13 DEF PictureInv, LineExact, LineFits
    <3> QED BY <1>13, <3>1, LinePaints DEF LinePaint
  <2>18. Image(back')[p] = SeenIn(base, more, p)
    BY <2>2, <2>3, <2>4, <2>15, <2>16, <2>17
  <2> QED BY <1>7, <2>1, <2>18
<1>14. SeenExact'
  BY <1>7, <1>8, <1>9, <1>13 DEF SeenExact
<1> QED BY <1>11, <1>12, <1>14 DEF PictureInv

(* Any other.                                                                  *)
LEMMA LineOnPicture ==
  ASSUME OverflowChecks, FrameInv, RasterFormed, PictureInv, LinePoint, ~AtEnd
  PROVE  PictureInv'
<1>1. RasterFormed' /\ Alike(back', back) /\ depth' = depth /\ Walking(call)
  BY LineKept
<1>2. scene' = [scene EXCEPT !.known = scene.known /\ call'.pc = "line"]
  BY DEF LinePoint
<1>3. PICK base, drawn : drawn = scene.drawn /\ base = scene.base
  OBVIOUS
<1>4. scene'.base = base /\ scene'.drawn = drawn
  BY <1>2, <1>3 DEF RasterFormed, SceneFormed
<1>5. scene'.known <=> scene.known /\ call'.pc = "line"
  BY <1>2 DEF RasterFormed, SceneFormed
<1>6. SUFFICES ASSUME scene.known, call'.pc = "line" PROVE PictureInv'
  BY <1>5, UnknownScene
<1>7. /\ back'.width = back.width /\ back'.height = back.height
      /\ Points(back') = Points(back) /\ back'.format = back.format
  BY <1>1, AlikeSizes
<1>8. call.pc = "line" /\ Walk
  BY DEF LinePoint, Walk
<1>9. LineFits(call) /\ \E u \in Nat : \E v \in Nat : Walked(call, u, v)
  BY <1>6, <1>8 DEF PictureInv, LineExact
<1>10. PICK u \in Nat, v \in Nat : Walked(call, u, v)
  BY <1>9
<1>11. PICK c : c = call'
  OBVIOUS
<1>12. /\ Walking(c) /\ LineFits(c)
       /\ c.from = call.from /\ c.to = call.to /\ c.v0 = call.v0
       /\ \E x \in Nat : \E y \in Nat :
            /\ Walked(c, x, y)
            /\ Progress(Reach(call, 1), Reach(call, 2), x, y) =
                 Progress(Reach(call, 1), Reach(call, 2), u, v) + 1
  BY <1>1, <1>6, <1>8, <1>9, <1>10, <1>11, LineWalked
<1>13. PICK x \in Nat, y \in Nat :
         /\ Walked(c, x, y)
         /\ Progress(Reach(call, 1), Reach(call, 2), x, y) =
              Progress(Reach(call, 1), Reach(call, 2), u, v) + 1
  BY <1>12
<1>14. DepthExact'
  BY <1>1, <1>3, <1>4, <1>5, DepthStays DEF PictureInv
<1>15. LineExact'
  <2>1. \E k \in Nat : \E l \in Nat : Walked(c, k, l)
    BY <1>13
  <2> QED BY <1>11, <1>12, <2>1 DEF LineExact
<1>16. LineHue(c) = LineHue(call)
  BY <1>12 DEF LineHue
<1>17. ASSUME back.format = "rgba8", NEW p \in Points(back)
       PROVE  Image(back')[p] = IF Behind(c, p) THEN LineHue(call)
                                ELSE SeenIn(scene.base, scene.drawn, p)'
  <2>1. SeenIn(base, drawn, p)' = SeenIn(base, drawn, p)
    BY <1>1, <1>7, SeenKept DEF RasterFormed
  <2>2. PICK from \in Pairs, to \in Pairs, at \in Pairs :
          from = call.from /\ to = call.to /\ at = call.at
    BY <1>1 DEF Walking
  <2>3. p \in Pairs
    BY PointInside DEF FrameInv, Points, Pairs
  <2>4. PICK i : i = Progress(Reach(call, 1), Reach(call, 2), u, v)
    OBVIOUS
  <2>5. Behind(call, p) <=> Trail(from, to, p, i)
    BY <1>1, <1>10, <2>2, <2>4, BehindIs
  <2>6. Progress(Reach(c, 1), Reach(c, 2), x, y) = i + 1
    BY <1>12, <1>13, <2>4 DEF Reach
  <2>7. Behind(c, p) <=> Trail(c.from, c.to, p, Progress(Reach(c, 1), Reach(c, 2), x, y))
    BY <1>12, <1>13, BehindIs
  <2>8. Behind(c, p) <=> Trail(from, to, p, i + 1)
    BY <1>12, <2>2, <2>6, <2>7
  <2>9. Marks(from, to, at, u, v)
    BY <1>10, <2>2 DEF Walked
  <2>10. i = Progress(Abs(to[1] - from[1]), Abs(to[2] - from[2]), u, v)
    BY <2>2, <2>4 DEF Reach
  <2>11. Trail(from, to, p, i + 1) <=> Trail(from, to, p, i) \/ p = at
    BY <2>3, <2>9, <2>10, TrailGrows
  <2>12. Behind(c, p) <=> Behind(call, p) \/ p = call.at
    BY <2>2, <2>5, <2>8, <2>11
  <2>13. Image(back)[p] = IF Behind(call, p) THEN LineHue(call) ELSE SeenIn(base, drawn, p)
    BY <1>3, <1>6, <1>8, <1>17 DEF PictureInv, SeenExact
  <2>14. Image(back')[p] = IF p = call.at THEN LineHue(call) ELSE Image(back)[p]
    BY <1>9, <1>17, LinePaints DEF LinePaint, LineFits
  <2>15. Image(back')[p] = IF Behind(c, p) THEN LineHue(call) ELSE SeenIn(base, drawn, p)
    BY <2>12, <2>13, <2>14
  <2> QED BY <1>4, <2>1, <2>15
<1>18. SeenExact'
  BY <1>6, <1>7, <1>11, <1>16, <1>17 DEF SeenExact
<1> QED BY <1>14, <1>15, <1>18 DEF PictureInv

--------------------------------------------------------------------------------
(* Every step of the rasterizer and of the owner keeps the invariant.          *)
LEMMA PictureKept ==
  ASSUME OverflowChecks, OneColour, FrameInv, RasterFormed, PictureInv,
         [OwnerDraws \/ RasterNext]_<<frameVars, rasterVars>>
  PROVE  PictureInv'
<1>1. RasterStep
  BY RasterStepIs
<1>2. ASSUME NEW w \in Nat, NEW h \in Nat, ResizeDepth(<<w, h>>)
      PROVE  PictureInv'
  BY <1>2, SizePicture
<1>3. CASE BeginPass
  BY <1>3, PassPicture
<1>4. ASSUME NEW mesh \in Meshes, NEW test \in BOOLEAN, DrawTriangles(mesh, test)
      PROVE  PictureInv'
  BY <1>4, ListPicture
<1>5. ASSUME NEW v0 \in Vertices, NEW v1 \in Vertices, <<v0, v1>> \in Segments, DrawLine(v0, v1)
      PROVE  PictureInv'
  <2>1. v0.color = v1.color
    <3>1. PICK s \in Segments : s = <<v0, v1>>
      BY <1>5
    <3>2. s[1].color = s[2].color
      BY DEF OneColour
    <3> QED BY <3>1, <3>2
  <2> QED BY <1>5, <2>1, LineStartPicture
<1>6. CASE NextTriangle
  BY <1>6, TrianglePicture
<1>7. CASE LinePoint
  BY <1>7, LineEndPicture, LineOnPicture
<1>8. CASE EndList \/ RasterReturn
  <2>1. /\ back' = back /\ depth' = depth /\ scene' = scene
        /\ call.pc # "line" /\ call'.pc # "line"
    BY <1>8, ReturnKept
  <2> QED BY <2>1, AlikeSame, RestKept
<1>9. CASE PresentBack /\ UNCHANGED rasterVars
  <2>1. /\ Alike(back', back) /\ back'.pixels = back.pixels
        /\ depth' = depth /\ scene' = scene /\ call' = call
    BY <1>9, PresentKept
  <2> QED BY <2>1, RestKept
<1>10. CASE OwnerDraws
  BY <1>10, OwnerKept, UnknownScene
<1>11. CASE UNCHANGED <<frameVars, rasterVars>>
  <2>1. back' = back /\ depth' = depth /\ scene' = scene /\ call' = call
    BY <1>11 DEF frameVars, rasterVars
  <2> QED BY <2>1, AlikeSame, RestKept
<1> QED BY <1>1, <1>2, <1>3, <1>4, <1>5, <1>6, <1>7, <1>8, <1>9, <1>10, <1>11 DEF RasterStep

(* It holds at first.                                                          *)
LEMMA PictureInitially == FrameInit /\ RasterInit => PictureInv
<1> SUFFICES ASSUME FrameInit, RasterInit PROVE PictureInv
  OBVIOUS
<1>1. call.pc # "line" /\ scene.base = Image(back) /\ scene.drawn = << >> /\ depth = Fresh(0, 0)
  BY DEF RasterInit, Idle
<1>2. \A p \in DOMAIN depth.values : depth.values[p] = Far
  BY <1>1, FreshFormed
<1>3. DepthExact
  BY <1>1, <1>2, NothingNearest DEF DepthExact
<1>4. SeenExact
  BY <1>1, NothingSeen DEF SeenExact
<1> QED BY <1>1, <1>3, <1>4 DEF PictureInv, LineExact

(* Between calls it is the property.                                           *)
LEMMA PictureShown == PictureInv => PictureExact
BY SeenIs DEF PictureInv, SeenExact, PictureExact

(* Between calls the framebuffer shows the scene, for any number of triangles  *)
(* and lines in any order, of any size and winding, on or off the screen: at   *)
(* each point the colour of the last thing that covers it and is not hidden.   *)
(* The code decides it by a bounding box, signed weights, a depth buffer that  *)
(* it overwrites in place and an error term that it compares twice; the        *)
(* property, by areas, by all pairs of triangles and by distance from the      *)
(* ideal line.                                                                 *)
THEOREM PictureIsExact == OverflowChecks /\ OneColour /\ RasterSpec => []PictureExact
<1> SUFFICES ASSUME OverflowChecks, OneColour PROVE RasterSpec => []PictureExact
  OBVIOUS
<1>1. FrameInit /\ RasterInit => FrameInv /\ RasterFormed /\ PictureInv
  BY RasterInitially, PictureInitially
<1>2. FrameInv /\ RasterFormed /\ PictureInv
        /\ [OwnerDraws \/ RasterNext]_<<frameVars, rasterVars>>
      => (FrameInv /\ RasterFormed /\ PictureInv)'
  BY RasterKept, PictureKept
<1>3. PictureInv => PictureExact
  BY PictureShown
<1> QED BY <1>1, <1>2, <1>3, PTL DEF RasterSpec
================================================================================

------------------------------- MODULE GpuSync -------------------------------
(***************************************************************************)
(* GpuSyncManager: fences, semaphores and events that several threads       *)
(* signal, wait for and reset.  A fence is two atomic words, so signal and  *)
(* reset take two steps each; reset_all visits one object after the other.  *)
(* Atomic accesses interleave; no operation loads a word after it stored    *)
(* another, so release and acquire order all that an operation sees.        *)
(***************************************************************************)
EXTENDS Integers, FiniteSets

CONSTANTS
  Threads,
  Fences, Semaphores, Events,   \* objects a manager may be asked to create
  Payload,                      \* values a fence is signaled with, 0 excluded
  MaxCount                      \* bound: signals of a semaphore between resets

ASSUME SyncAssumption ==
  /\ Payload \subseteq Nat \ {0}
  /\ MaxCount \in Nat
  /\ Fences \intersect Semaphores = {} /\ Fences \intersect Events = {}
  /\ Semaphores \intersect Events = {}

Objects == Fences \union Semaphores \union Events

VARIABLES
  created,   \* objects in the three maps of the manager
  flag,      \* GpuFence::signaled
  value,     \* GpuFence::value
  counter,   \* GpuSemaphore::counter
  fired,     \* GpuEvent::fired
  thread,    \* what each thread is doing: [pc, object, target, todo, expired]
  clear,     \* history: threads whose object was not ready during their wait
  since,     \* history: objects signaled during a thread's reset_all
  overlapped \* history: fences once signaled and reset at the same time

words   == <<flag, value, counter, fired>>
history == <<clear, since, overlapped>>
vars    == <<created, words, thread, history>>

NoObject == [pc |-> "idle", object |-> "none", target |-> 0, todo |-> {}, expired |-> FALSE]

Doing(t, label) == thread[t].pc = label
Start(t, label, o, n) ==
  /\ Doing(t, "idle") /\ o \in created
  /\ thread' = [thread EXCEPT ![t] = [@ EXCEPT !.pc = label, !.object = o, !.target = n]]
Goto(t, label) == thread' = [thread EXCEPT ![t].pc = label]
Finish(t) == thread' = [thread EXCEPT ![t] = NoObject]

-----------------------------------------------------------------------------
(* create_*: the manager is borrowed exclusively, so no call of it is under *)
(* way; a thread may still use a fence it cloned before.                    *)
InManager == {"sweep", "sweepValue", "check", "clock"}

CreateObject(o) ==
  /\ o \notin created
  /\ \A t \in Threads : thread[t].pc \notin InManager
  /\ created' = created \union {o}
  /\ UNCHANGED <<words, thread>>

(* Faulty variant: signal raises the flag without storing the value.        *)
SignalFenceWithoutValue(t, f, v) ==
  /\ Start(t, "flag", f, v)
  /\ UNCHANGED <<created, words>>

(* GpuFence::signal: the value, then the flag.                             *)
SignalFence(t, f, v) ==
  /\ Start(t, "flag", f, v)
  /\ value' = [value EXCEPT ![f] = v]
  /\ UNCHANGED <<created, flag, counter, fired>>

RaiseFlag(t) ==
  /\ Doing(t, "flag")
  /\ flag' = [flag EXCEPT ![thread[t].object] = TRUE]
  /\ Finish(t)
  /\ UNCHANGED <<created, value, counter, fired>>

(* GpuFence::reset: the flag, then the value.                              *)
ResetFence(t, f) ==
  /\ Start(t, "value", f, 0)
  /\ flag' = [flag EXCEPT ![f] = FALSE]
  /\ UNCHANGED <<created, value, counter, fired>>

(* Faulty variant: the value stays.                                        *)
ClearValueKept(t) ==
  /\ Doing(t, "value")
  /\ Finish(t)
  /\ UNCHANGED <<created, words>>

ClearValue(t) ==
  /\ Doing(t, "value")
  /\ value' = [value EXCEPT ![thread[t].object] = 0]
  /\ Finish(t)
  /\ UNCHANGED <<created, flag, counter, fired>>

(* Semaphores and events are one word each.                                *)
SignalSemaphore(s) ==
  /\ s \in created /\ counter[s] < MaxCount
  /\ counter' = [counter EXCEPT ![s] = @ + 1]
  /\ UNCHANGED <<created, flag, value, fired, thread>>

ResetSemaphore(s) ==
  /\ s \in created
  /\ counter' = [counter EXCEPT ![s] = 0]
  /\ UNCHANGED <<created, flag, value, fired, thread>>

StoreEvent(e, b) ==
  /\ e \in created
  /\ fired' = [fired EXCEPT ![e] = b]
  /\ UNCHANGED <<created, flag, value, counter, thread>>

-----------------------------------------------------------------------------
(* wait_fence, wait_semaphore, wait_event: look, then compare the clock.    *)
(* An unknown id answers false at once and changes nothing.                 *)
Ready(o, n) == CASE o \in Fences     -> flag[o]
                 [] o \in Semaphores -> counter[o] >= n
                 [] o \in Events     -> fired[o]

(* Faulty variant: the clock is compared before the first look.             *)
WaitClockFirst(t, o, n) == Start(t, "clock", o, n) /\ UNCHANGED <<created, words>>

Wait(t, o, n) == Start(t, "check", o, n) /\ UNCHANGED <<created, words>>

Check(t) ==
  /\ Doing(t, "check")
  /\ IF Ready(thread[t].object, thread[t].target) THEN Finish(t) ELSE Goto(t, "clock")
  /\ UNCHANGED <<created, words>>

(* The wait returns false once its time is over, or spins.                  *)
CompareClock(t) ==
  /\ Doing(t, "clock")
  /\ IF thread[t].expired THEN Finish(t) ELSE Goto(t, "check")
  /\ UNCHANGED <<created, words>>

(* Time passes.                                                            *)
Expire(t) ==
  /\ thread[t].pc \in {"check", "clock"} /\ ~thread[t].expired
  /\ thread' = [thread EXCEPT ![t].expired = TRUE]
  /\ UNCHANGED <<created, words>>

-----------------------------------------------------------------------------
(* reset_all: the fences, the semaphores, the events, each map in any order.*)
BeginSweep(t, objects) ==
  /\ Doing(t, "idle")
  /\ thread' = [thread EXCEPT ![t].pc = "sweep", ![t].todo = objects]
  /\ UNCHANGED <<created, words>>

(* Faulty variant: the events are forgotten.                               *)
ResetAllButEvents(t) == BeginSweep(t, created \ Events)

ResetAll(t) == BeginSweep(t, created)

Due(todo) == IF todo \intersect Fences # {} THEN todo \intersect Fences
             ELSE IF todo \intersect Semaphores # {} THEN todo \intersect Semaphores
             ELSE todo

SweepFence(t, f) ==
  /\ Doing(t, "sweep") /\ f \in Due(thread[t].todo) \intersect Fences
  /\ flag' = [flag EXCEPT ![f] = FALSE]
  /\ thread' = [thread EXCEPT ![t].pc = "sweepValue", ![t].object = f]
  /\ UNCHANGED <<created, value, counter, fired>>

Swept(t, o) ==
  thread' = [thread EXCEPT ![t].pc = "sweep", ![t].todo = @ \ {o}]

SweepValue(t) ==
  /\ Doing(t, "sweepValue")
  /\ value' = [value EXCEPT ![thread[t].object] = 0]
  /\ Swept(t, thread[t].object)
  /\ UNCHANGED <<created, flag, counter, fired>>

SweepWord(t, o) ==
  /\ Doing(t, "sweep") /\ o \in Due(thread[t].todo) \ Fences
  /\ \/ o \in Semaphores /\ counter' = [counter EXCEPT ![o] = 0] /\ UNCHANGED fired
     \/ o \in Events /\ fired' = [fired EXCEPT ![o] = FALSE] /\ UNCHANGED counter
  /\ Swept(t, o)
  /\ UNCHANGED <<created, flag, value>>

FinishSweep(t) ==
  /\ Doing(t, "sweep") /\ thread[t].todo = {}
  /\ Finish(t)
  /\ UNCHANGED <<created, words>>

-----------------------------------------------------------------------------
Init ==
  /\ created = {}
  /\ flag = [f \in Fences |-> FALSE] /\ value = [f \in Fences |-> 0]
  /\ counter = [s \in Semaphores |-> 0] /\ fired = [e \in Events |-> FALSE]
  /\ thread = [t \in Threads |-> NoObject]
  /\ clear = {} /\ since = [t \in Threads |-> {}] /\ overlapped = {}

(* What a thread does once it is inside an operation.                       *)
Continue(t) ==
  \/ RaiseFlag(t) \/ ClearValue(t) \/ Check(t) \/ CompareClock(t)
  \/ \E o \in Objects : SweepFence(t, o) \/ SweepWord(t, o)
  \/ SweepValue(t) \/ FinishSweep(t)

Call(t) ==
  \/ \E f \in Fences : ResetFence(t, f) \/ \E v \in Payload : SignalFence(t, f, v)
  \/ \E o \in Fences \union Events : Wait(t, o, 0)
  \/ \E s \in Semaphores, n \in 1..MaxCount : Wait(t, s, n)
  \/ ResetAll(t)

Step ==
  \/ \E o \in Objects : CreateObject(o)
  \/ \E s \in Semaphores : SignalSemaphore(s) \/ ResetSemaphore(s)
  \/ \E e \in Events, b \in BOOLEAN : StoreEvent(e, b)
  \/ \E t \in Threads : Call(t) \/ Continue(t) \/ Expire(t)

Waiting(t)  == thread[t].pc \in {"check", "clock"}
Sweeping(t) == thread[t].pc \in {"sweep", "sweepValue"}
Signaled == {thread[t].object : t \in {u \in Threads : Doing(u, "flag")}}
Resetting == {thread[t].object :
                t \in {u \in Threads : thread[u].pc \in {"value", "sweepValue"}}}

(* History variables; no action reads them.                                *)
Remember ==
  /\ clear' = {t \in Threads : Waiting(t)' /\
                 (t \in clear \/ ~Ready(thread[t].object, thread[t].target)')}
  /\ LET touched == Signaled \union Signaled'
                      \union {s \in Semaphores : counter'[s] > counter[s]}
                      \union {e \in Events : fired'[e] /\ ~fired[e]}
     IN since' = [t \in Threads |->
                    IF Sweeping(t)' THEN since[t] \union touched ELSE {}]
  /\ overlapped' = overlapped \union (Signaled' \intersect Resetting')

Next == Step /\ Remember

Spec == Init /\ [][Next]_vars

-----------------------------------------------------------------------------
(* Every word and every thread's place has its type.                       *)
Labels == {"idle", "flag", "value"} \union InManager
Places == [pc : Labels, object : Objects \union {"none"}, target : Nat,
           todo : SUBSET Objects, expired : BOOLEAN]

TypeOK ==
  /\ created \subseteq Objects
  /\ flag \in [Fences -> BOOLEAN] /\ value \in [Fences -> Payload \union {0}]
  /\ counter \in [Semaphores -> 0..MaxCount] /\ fired \in [Events -> BOOLEAN]
  /\ thread \in [Threads -> Places]
  /\ clear \subseteq Threads /\ overlapped \subseteq Fences
  /\ since \in [Threads -> SUBSET Objects]

(* A fence that nobody is signaling or resetting and whose flag is down has *)
(* value 0, however many threads signaled and reset it at the same time:    *)
(* signal ends and reset begins with the flag.                             *)
QuietFenceIsZero ==
  \A f \in Fences \ (Signaled \union Resetting) : ~flag[f] => value[f] = 0

(* A raised flag publishes a value that was signaled, unless a reset ran    *)
(* into a signal of the same fence (get_value after wait_fence).            *)
FlagPublishesValue ==
  \A f \in Fences : flag[f] => value[f] \in Payload \/ f \in overlapped

(* A wait answers false only if its object was not ready at some moment of  *)
(* the wait, even with a timeout of zero.                                  *)
TimeoutMeansUnset ==
  [][\A t \in Threads : Doing(t, "clock") /\ Doing(t, "idle")' => t \in clear]_vars

IsClear(o) == /\ o \in Fences     => ~flag[o] /\ value[o] = 0
              /\ o \in Semaphores => counter[o] = 0
              /\ o \in Events     => ~fired[o]

(* When reset_all returns, whatever is still set was signaled while it ran. *)
ResetAllClears ==
  [][\A t \in Threads : Doing(t, "sweep") /\ Doing(t, "idle")' =>
       \A o \in created : IsClear(o) \/ o \in since[t]]_vars

=============================================================================

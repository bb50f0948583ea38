-------------------------- MODULE FairMutexProofs --------------------------
(***************************************************************************)
(* Theorems about FairMutex, for every set of threads and nesting bound,   *)
(* and about LwMutex, which is built on it, for every set of call sites.   *)
(*                                                                         *)
(* MutualExclusion speaks of the callers (nest) and is not inductive: that *)
(* two callers never both hold the lock depends on owner_, depth_ and      *)
(* timed_out_ agreeing with what the callers still have to release, which  *)
(* is Balanced.  A deadline takes a thread out of the middle of the queue, *)
(* so that the queue holds each waiter once belongs to the invariant, too.  *)
(*                                                                         *)
(* Every step of LwMutex is a step of FairMutex or leaves it alone, so the *)
(* invariant carries over; what LwMutex adds is that the guest's nesting   *)
(* follows the host's (Mirrored where every call site is guarded, Counted  *)
(* where some are not) and that nobody uses the host mutex before its      *)
(* policy is published.                                                    *)
(***************************************************************************)
EXTENDS LwMutex, TLAPS, SequenceTheorems, FiniteSetTheorems

USE NoneAssumption

-----------------------------------------------------------------------------
(* Lemmas about the nesting of one thread's acquires.                      *)

(* A successful acquire adds one held level. *)
LEMMA PushGot ==
  ASSUME NEW s \in Seq(Outcomes), NEW l \in Nat, NEW h \in Nat, Nesting(s, l, h)
  PROVE  /\ Append(s, "got") \in Seq(Outcomes)
         /\ Nesting(Append(s, "got"), l, h + 1)
BY DEF Nesting, Outcomes

(* A timed-out acquire, of a thread that holds no level, adds a late one. *)
LEMMA PushLate ==
  ASSUME NEW s \in Seq(Outcomes), NEW l \in Nat, Nesting(s, l, 0)
  PROVE  /\ Append(s, "late") \in Seq(Outcomes)
         /\ Nesting(Append(s, "late"), l + 1, 0)
BY DEF Nesting, Outcomes

(* While a thread holds a level, its innermost acquire is a held one. *)
LEMMA PopGot ==
  ASSUME NEW s \in Seq(Outcomes), NEW l \in Nat, NEW h \in Nat \ {0}, Nesting(s, l, h)
  PROVE  /\ Front(s) \in Seq(Outcomes)
         /\ Nesting(Front(s), l, h - 1)
BY DEF Nesting, Outcomes, Front

(* Otherwise it is a late one. *)
LEMMA PopLate ==
  ASSUME NEW s \in Seq(Outcomes), NEW l \in Nat \ {0}, Nesting(s, l, 0)
  PROVE  /\ Front(s) \in Seq(Outcomes)
         /\ Nesting(Front(s), l - 1, 0)
BY DEF Nesting, Outcomes, Front

(* release_all drops the held levels and keeps the late ones. *)
LEMMA DropHeld ==
  ASSUME NEW s \in Seq(Outcomes), NEW l \in Nat, NEW h \in Nat, Nesting(s, l, h)
  PROVE  /\ SubSeq(s, 1, Len(s) - h) \in Seq(Outcomes)
         /\ Nesting(SubSeq(s, 1, Len(s) - h), l, 0)
BY DEF Nesting, Outcomes

-----------------------------------------------------------------------------
(* Lemmas about a queue without duplicates: enqueue, dequeue in front, and  *)
(* dequeue in the middle.                                                  *)
LEMMA DequeueAt ==
  ASSUME NEW s \in Seq(Threads), IsInjective(s), NEW i \in 1..Len(s)
  PROVE  /\ RemoveAt(s, i) \in Seq(Threads)
         /\ IsInjective(RemoveAt(s, i))
         /\ Range(RemoveAt(s, i)) = Range(s) \ {s[i]}
         /\ i # 1 => RemoveAt(s, i) # <<>> /\ Head(RemoveAt(s, i)) = Head(s)
<1> DEFINE r == [k \in 1..(Len(s) - 1) |-> IF k < i THEN s[k] ELSE s[k + 1]]
<1>1. Len(s) \in Nat /\ Len(s) - 1 \in Nat /\ s \in [1..Len(s) -> Threads]
  OBVIOUS
<1>3. r \in Seq(Threads) /\ Len(r) = Len(s) - 1 /\ DOMAIN r = 1..(Len(s) - 1)
  BY <1>1
<1>2. RemoveAt(s, i) = r
  <2> DEFINE a == SubSeq(s, 1, i - 1)
             b == SubSeq(s, i + 1, Len(s))
  <2>1. a \in Seq(Threads) /\ Len(a) = i - 1 /\ \A k \in 1..(i - 1) : a[k] = s[k]
    <3>1. \A k \in 1..(i - 1) : s[k] \in Threads
      BY <1>1
    <3> QED  BY <1>1, <3>1, SubSeqProperties, i - 1 \in Int, 1 \in Int
  <2>2. /\ b \in Seq(Threads)
        /\ Len(b) = Len(s) - i
        /\ \A k \in 1..(Len(s) - i) : b[k] = s[k + i]
    <3>1. \A k \in (i + 1)..Len(s) : s[k] \in Threads
      BY <1>1
    <3> QED  BY <1>1, <3>1, SubSeqProperties, i + 1 \in Int, Len(s) \in Int
  <2> HIDE DEF a, b
  <2>3. /\ a \o b \in Seq(Threads)
        /\ Len(a \o b) = Len(a) + Len(b)
        /\ \A k \in 1..(Len(a) + Len(b)) :
              (a \o b)[k] = IF k <= Len(a) THEN a[k] ELSE b[k - Len(a)]
    BY <2>1, <2>2, ConcatProperties, Zenon
  <2>6. Len(a) + Len(b) = Len(s) - 1
    BY <1>1, <2>1, <2>2
  <2>4. ASSUME NEW k \in 1..(Len(s) - 1)
        PROVE  (a \o b)[k] = r[k]
    <3> HIDE DEF r
    <3>1. (a \o b)[k] = IF k <= Len(a) THEN a[k] ELSE b[k - Len(a)]
      BY <2>3, <2>6
    <3>2. r[k] = IF k < i THEN s[k] ELSE s[k + 1]
      BY DEF r
    <3>3. CASE k < i
      <4>1. k <= Len(a) /\ k \in 1..(i - 1)
        BY <1>1, <2>1, <3>3
      <4> QED  BY <2>1, <3>1, <3>2, <3>3, <4>1
    <3>4. CASE ~(k < i)
      <4>1. ~(k <= Len(a)) /\ k - Len(a) \in 1..(Len(s) - i)
        BY <1>1, <2>1, <3>4
      <4>2. b[k - Len(a)] = s[(k - Len(a)) + i]
        BY <2>2, <4>1
      <4>3. (k - Len(a)) + i = k + 1
        BY <1>1, <2>1
      <4> QED  BY <3>1, <3>2, <3>4, <4>1, <4>2, <4>3
    <3> QED  BY <3>3, <3>4
  <2>5. a \o b = r
    <3> HIDE DEF r
    <3> QED  BY <1>3, <2>3, <2>6, <2>4, SeqEqual
  <2> QED  BY <2>5 DEF RemoveAt, a, b
<1>4. IsInjective(r)
  BY <1>1, <1>3 DEF IsInjective
<1>5. Range(r) = Range(s) \ {s[i]}
  <2>1. ASSUME NEW k \in 1..(Len(s) - 1)
        PROVE  r[k] \in Range(s) \ {s[i]}
    BY <1>1 DEF Range, IsInjective
  <2>2. ASSUME NEW k \in 1..Len(s), k # i
        PROVE  s[k] \in Range(r)
    <3>1. CASE k < i
      BY <1>1, <1>3, <2>2, <3>1, r[k] = s[k] DEF Range
    <3>2. CASE k > i
      BY <1>1, <1>3, <2>2, <3>2, r[k - 1] = s[k] DEF Range
    <3> QED  BY <1>1, <2>2, <3>1, <3>2
  <2> QED  BY <1>1, <1>3, <2>1, <2>2 DEF Range
<1>6. i # 1 => r # <<>> /\ Head(r) = Head(s)
  <2>1. ASSUME i # 1  PROVE  Len(r) # 0 /\ r[1] = s[1]
    BY <1>1, <1>3, <2>1
  <2>2. r # <<>> <=> Len(r) # 0
    BY <1>3, EmptySeq
  <2>3. Head(r) = r[1] /\ Head(s) = s[1]
    OBVIOUS
  <2> QED  BY <2>1, <2>2, <2>3
<1> QED  BY <1>2, <1>3, <1>4, <1>5, <1>6

(* A thread that is not queued joins the queue at its end. *)
LEMMA EnqueueLast ==
  ASSUME NEW s \in Seq(Threads), IsInjective(s), NEW t \in Threads \ Range(s)
  PROVE  /\ Append(s, t) \in Seq(Threads)
         /\ IsInjective(Append(s, t))
         /\ Range(Append(s, t)) = Range(s) \cup {t}
         /\ s # <<>> => Head(Append(s, t)) = Head(s)
<1>1. /\ Append(s, t) \in Seq(Threads)
      /\ DOMAIN Append(s, t) = 1..(Len(s) + 1)
      /\ Append(s, t)[Len(s) + 1] = t
      /\ \A k \in 1..Len(s) : Append(s, t)[k] = s[k]
      /\ DOMAIN s = 1..Len(s) /\ Len(s) \in Nat
  OBVIOUS
<1>2. \A k \in 1..Len(s) : s[k] # t
  BY <1>1 DEF Range
<1>3. IsInjective(Append(s, t))
  BY <1>1, <1>2 DEF IsInjective
<1>4. Range(Append(s, t)) = Range(s) \cup {t}
  BY <1>1 DEF Range
<1>5. s # <<>> => Head(Append(s, t)) = Head(s)
  OBVIOUS
<1> QED  BY <1>1, <1>3, <1>4, <1>5

(* The oldest waiter leaves, and the rest stay as they are. *)
LEMMA DequeueHead ==
  ASSUME NEW s \in Seq(Threads), IsInjective(s), s # <<>>
  PROVE  /\ Tail(s) \in Seq(Threads)
         /\ IsInjective(Tail(s))
         /\ Range(Tail(s)) = Range(s) \ {Head(s)}
<1>1. /\ Tail(s) \in Seq(Threads)
      /\ DOMAIN Tail(s) = 1..(Len(s) - 1)
      /\ \A k \in 1..(Len(s) - 1) : Tail(s)[k] = s[k + 1]
      /\ DOMAIN s = 1..Len(s) /\ Len(s) \in Nat \ {0} /\ Head(s) = s[1]
  OBVIOUS
<1>2. IsInjective(Tail(s))
  BY <1>1 DEF IsInjective
<1>3. ASSUME NEW k \in 1..(Len(s) - 1)
      PROVE  Tail(s)[k] \in Range(s) \ {Head(s)}
  BY <1>1 DEF Range, IsInjective
<1>4. ASSUME NEW k \in 1..Len(s), k # 1
      PROVE  s[k] \in Range(Tail(s))
  <2>1. k - 1 \in 1..(Len(s) - 1) /\ s[(k - 1) + 1] = s[k]
    BY <1>1, <1>4
  <2>2. Tail(s)[k - 1] = s[k] /\ k - 1 \in DOMAIN Tail(s)
    BY <1>1, <2>1
  <2> QED  BY <2>2 DEF Range
<1>5. Range(Tail(s)) = Range(s) \ {Head(s)}
  BY <1>1, <1>3, <1>4 DEF Range
<1> QED  BY <1>1, <1>2, <1>5

-----------------------------------------------------------------------------
(* The inductive invariant. *)
IInv == TypeOK /\ Balanced /\ QueueIsWaiters /\ NoLostWakeup

(* The invariant holds before anybody called. *)
LEMMA InitIInv == Init => IInv
<1> SUFFICES ASSUME Init  PROVE IInv
  OBVIOUS
<1> USE DEF Init
<1>1. TypeOK
  BY DEF TypeOK, Places, Outcomes
<1>2. Balanced
  BY DEF Balanced, Nesting, Levels
<1>3. QueueIsWaiters
  BY DEF QueueIsWaiters, IsInjective, Range, Waiting
<1>4. NoLostWakeup
  BY DEF NoLostWakeup
<1> QED  BY <1>1, <1>2, <1>3, <1>4 DEF IInv

(* A thread that takes the mutex at once, or one more level of it. *)
LEMMA TakeNowIInv ==
  ASSUME IInv, NEW t \in Threads, pc[t] = "run", TakeNow(t)
  PROVE  IInv'
<1> USE DEF IInv
<1>1. Nesting(nest[t], timed_out[t], Levels(t)) /\ Levels(t) \in Nat
  BY DEF TypeOK, Balanced, Levels
<1>2. /\ Append(nest[t], "got") \in Seq(Outcomes)
      /\ Nesting(Append(nest[t], "got"), timed_out[t], Levels(t) + 1)
  BY <1>1, PushGot DEF TypeOK
<1>3. TypeOK'
  BY <1>2 DEF TypeOK, TakeNow, Push
<1>4. Levels(t)' = Levels(t) + 1 /\ \A u \in Threads \ {t} : Levels(u)' = Levels(u)
  BY DEF TypeOK, TakeNow, Uncontended, Levels
<1>5. (owner = None <=> depth = 0)'
  BY DEF TypeOK, TakeNow
<1>6. ASSUME NEW u \in Threads
      PROVE  Nesting(nest[u], timed_out[u], Levels(u))'
  BY <1>2, <1>4 DEF TypeOK, Balanced, TakeNow, Push, Nesting
<1>7. Balanced'
  BY <1>5, <1>6 DEF Balanced
<1>8. QueueIsWaiters'
  BY DEF QueueIsWaiters, TakeNow, Waiting, MayAcquire
<1>9. NoLostWakeup'
  BY DEF NoLostWakeup, TakeNow
<1> QED  BY <1>3, <1>7, <1>8, <1>9

(* A thread that queues: the queue stays one of distinct threads, and an   *)
(* older ticket, or the owner, answers for the wakeup.                     *)
LEMMA EnqueueIInv ==
  ASSUME IInv, NEW t \in Threads, NEW place \in {"lock", "timed"},
         pc[t] = "run", Enqueue(t, place)
  PROVE  IInv'
<1> USE DEF IInv
<1>1. t \notin Range(waiters) /\ waiters \in Seq(Threads) /\ IsInjective(waiters)
  BY DEF TypeOK, QueueIsWaiters, Waiting
<1>2. /\ waiters' \in Seq(Threads)
      /\ IsInjective(waiters')
      /\ Range(waiters') = Range(waiters) \cup {t}
      /\ waiters # <<>> => Head(waiters') = Head(waiters)
  BY <1>1, EnqueueLast DEF Enqueue
<1>3. TypeOK'
  BY <1>2 DEF TypeOK, Enqueue, Goto, Places
<1>4. Balanced'
  BY DEF Balanced, Enqueue, Levels, Nesting
<1>5. QueueIsWaiters'
  <2>1. {u \in Threads : Waiting(u)}' = {u \in Threads : Waiting(u)} \cup {t}
    BY DEF TypeOK, Enqueue, Goto, Waiting
  <2> QED  BY <1>2, <2>1 DEF QueueIsWaiters, Enqueue, Uncontended
<1>6. NoLostWakeup'
  <2> SUFFICES ASSUME owner' = None
               PROVE  \/ (Head(waiters) \notin asleep)'
                      \/ (\E u \in Threads : pc[u] = "notify")'
    BY DEF NoLostWakeup
  <2>1. owner = None /\ waiters # <<>>
    BY DEF Enqueue, Uncontended
  <2>2. Head(waiters') = Head(waiters) /\ Head(waiters) \in Range(waiters)
    BY <1>1, <1>2, <2>1 DEF Range
  <2>3. \A u \in Threads : pc[u] = "notify" => pc'[u] = "notify"
    BY DEF TypeOK, Enqueue, Goto
  <2> QED  BY <1>1, <2>1, <2>2, <2>3 DEF NoLostWakeup, Enqueue
<1> QED  BY <1>3, <1>4, <1>5, <1>6

(* A waiter whose turn has come leaves the front of the queue as owner. *)
LEMMA TakeTurnIInv ==
  ASSUME IInv, NEW t \in Threads, Waiting(t), TakeTurn(t)
  PROVE  IInv'
<1> USE DEF IInv
<1>1. owner = None /\ waiters # <<>> /\ Head(waiters) = t /\ depth = 0
  BY DEF TakeTurn, Ready, Balanced
<1>2. /\ waiters' \in Seq(Threads)
      /\ IsInjective(waiters')
      /\ Range(waiters') = Range(waiters) \ {t}
  BY <1>1, DequeueHead DEF TakeTurn, TypeOK, QueueIsWaiters
<1>3. /\ Append(nest[t], "got") \in Seq(Outcomes)
      /\ Nesting(Append(nest[t], "got"), timed_out[t], 0 + 1)
  BY <1>1, PushGot DEF TypeOK, Balanced, Levels
<1>4. TypeOK'
  BY <1>2, <1>3 DEF TypeOK, TakeTurn, Push, Goto, Places
<1>5. Levels(t)' = 1 /\ \A u \in Threads \ {t} : Levels(u)' = 0 /\ Levels(u) = 0
  BY <1>1 DEF TakeTurn, Levels
<1>6. ASSUME NEW u \in Threads
      PROVE  Nesting(nest[u], timed_out[u], Levels(u))'
  BY <1>3, <1>5 DEF TypeOK, Balanced, TakeTurn, Push, Nesting
<1>7. Balanced'
  BY <1>6 DEF Balanced, TakeTurn
<1>8. QueueIsWaiters'
  <2>1. {u \in Threads : Waiting(u)}' = {u \in Threads : Waiting(u)} \ {t}
    BY DEF TypeOK, TakeTurn, Goto, Waiting
  <2> QED  BY <1>2, <2>1 DEF QueueIsWaiters, TakeTurn
<1>9. NoLostWakeup'
  BY DEF NoLostWakeup, TakeTurn
<1> QED  BY <1>4, <1>7, <1>8, <1>9

(* A notified waiter: its turn, or back to sleep. *)
LEMMA WakeIInv ==
  ASSUME IInv, NEW t \in Threads, Wake(t)
  PROVE  IInv'
<1> USE DEF IInv
<1>1. CASE TakeTurn(t)
  BY <1>1, TakeTurnIInv DEF Wake
<1>2. CASE ~TakeTurn(t)
  <2>1. /\ ~Ready(t)
        /\ Waiting(t)
        /\ asleep' = asleep \cup {t}
        /\ UNCHANGED <<owner, depth, waiters, timed_out, pc, nest>>
    BY <1>2 DEF Wake
  <2>2. TypeOK'
    BY <2>1 DEF TypeOK
  <2>3. Balanced'
    BY <2>1 DEF Balanced, Levels, Nesting
  <2>4. QueueIsWaiters'
    BY <2>1 DEF QueueIsWaiters, Waiting
  <2>5. NoLostWakeup'
    BY <2>1 DEF NoLostWakeup, Ready
  <2> QED  BY <2>2, <2>3, <2>4, <2>5
<1> QED  BY <1>1, <1>2

(* A wakeup without a notification only leaves the sleepers. *)
LEMMA SpuriousWakeIInv ==
  ASSUME IInv, NEW t \in Threads, SpuriousWake(t)
  PROVE  IInv'
<1> USE DEF IInv, SpuriousWake
<1>1. TypeOK'
  BY DEF TypeOK
<1>2. Balanced'
  BY DEF Balanced, Levels, Nesting
<1>3. QueueIsWaiters'
  BY DEF QueueIsWaiters, Waiting
<1>4. NoLostWakeup'
  BY DEF NoLostWakeup
<1> QED  BY <1>1, <1>2, <1>3, <1>4

(* A waiter that gives up: it holds no level, so its late acquire is the   *)
(* innermost, and the ticket in front of the queue of a free mutex is not  *)
(* the one that goes.                                                      *)
LEMMA TimeoutIInv ==
  ASSUME IInv, NEW t \in Threads, Timeout(t)
  PROVE  IInv'
<1> USE DEF IInv
<1>1. CASE TakeTurn(t)
  BY <1>1, TakeTurnIInv DEF Timeout, Waiting
<1>2. CASE ~TakeTurn(t)
  <2>1. PICK i \in 1..Len(waiters) :
          waiters[i] = t /\ waiters' = RemoveAt(waiters, i)
    BY <1>2 DEF Timeout
  <2>2. /\ pc[t] = "timed"
        /\ ~Ready(t)
        /\ asleep' = asleep \ {t}
        /\ timed_out' = [timed_out EXCEPT ![t] = @ + 1]
        /\ Goto(t, "run")
        /\ Push(t, "late")
        /\ UNCHANGED <<owner, depth>>
    BY <1>2 DEF Timeout
  <2>3. /\ waiters' \in Seq(Threads)
        /\ IsInjective(waiters')
        /\ Range(waiters') = Range(waiters) \ {t}
        /\ i # 1 => waiters' # <<>> /\ Head(waiters') = Head(waiters)
    BY <2>1, DequeueAt DEF TypeOK, QueueIsWaiters
  <2>4. owner # t /\ Levels(t) = 0
    BY <2>1 DEF QueueIsWaiters, Range, TypeOK, Levels
  <2>5. /\ Append(nest[t], "late") \in Seq(Outcomes)
        /\ Nesting(Append(nest[t], "late"), timed_out[t] + 1, 0)
    BY <2>4, PushLate DEF TypeOK, Balanced
  <2>6. TypeOK'
    <3>1. timed_out' \in [Threads -> Nat]
      BY <2>2 DEF TypeOK
    <3>2. nest' \in [Threads -> Seq(Outcomes)]
      BY <2>2, <2>5 DEF TypeOK, Push
    <3>3. pc' \in [Threads -> Places] /\ asleep' \in SUBSET Threads
      BY <2>2 DEF TypeOK, Goto, Places
    <3> QED  BY <2>2, <2>3, <3>1, <3>2, <3>3 DEF TypeOK
  <2>7. ASSUME NEW u \in Threads
        PROVE  Nesting(nest[u], timed_out[u], Levels(u))'
    BY <2>2, <2>4, <2>5 DEF TypeOK, Balanced, Push, Nesting, Levels
  <2>8. Balanced'
    BY <2>2, <2>7 DEF Balanced
  <2>9. QueueIsWaiters'
    <3>1. {u \in Threads : Waiting(u)}' = {u \in Threads : Waiting(u)} \ {t}
      BY <2>2 DEF TypeOK, Goto, Waiting
    <3> QED  BY <2>2, <2>3, <3>1 DEF QueueIsWaiters
  <2>10. NoLostWakeup'
    <3> SUFFICES ASSUME owner = None
                 PROVE  \/ (waiters = <<>>)'
                        \/ (Head(waiters) \notin asleep)'
                        \/ (\E u \in Threads : pc[u] = "notify")'
      BY <2>2 DEF NoLostWakeup
    <3>1. waiters # <<>> /\ i # 1
      BY <2>1, <2>2 DEF Ready, TypeOK
    <3>2. \A u \in Threads : pc[u] = "notify" => pc'[u] = "notify"
      BY <2>2 DEF TypeOK, Goto
    <3> QED  BY <2>2, <2>3, <3>1, <3>2 DEF NoLostWakeup
  <2> QED  BY <2>6, <2>8, <2>9, <2>10
<1> QED  BY <1>1, <1>2

(* One level of the owner goes, whoever calls; the caller t of the last    *)
(* one owes the notify_all.                                                *)
LEMMA DropLevelIInv ==
  ASSUME IInv, NEW t \in Threads, pc[t] = "run",
         NEW o \in Threads, owner = o, DropLevel(t),
         nest' = [nest EXCEPT ![o] = Front(@)]
  PROVE  IInv'
<1> USE DEF IInv
<1>1. depth \in Nat \ {0} /\ Levels(o) = depth
  BY DEF TypeOK, Balanced, Levels
<1>2. /\ Front(nest[o]) \in Seq(Outcomes)
      /\ Nesting(Front(nest[o]), timed_out[o], depth - 1)
  BY <1>1, PopGot DEF TypeOK, Balanced
<1>3. TypeOK'
  <2>1. nest' \in [Threads -> Seq(Outcomes)]
    BY <1>2 DEF TypeOK
  <2>2. pc' \in [Threads -> Places] /\ owner' \in Threads \cup {None}
    BY DEF TypeOK, DropLevel, Goto, Places
  <2>3. depth' \in Nat
    BY <1>1 DEF DropLevel
  <2> QED  BY <2>1, <2>2, <2>3 DEF TypeOK, DropLevel
<1>4. Levels(o)' = depth - 1
  <2>1. owner' \in {o, None} /\ (owner' = None => depth = 1) /\ depth' = depth - 1
    BY DEF DropLevel
  <2> QED  BY <1>1, <2>1 DEF Levels
<1>5. \A u \in Threads \ {o} : Levels(u)' = 0 /\ Levels(u) = 0
  BY DEF DropLevel, Levels
<1>6. ASSUME NEW u \in Threads
      PROVE  Nesting(nest[u], timed_out[u], Levels(u))'
  <2>1. CASE u = o
    BY <1>2, <1>4, <2>1 DEF TypeOK, DropLevel
  <2>2. CASE u # o
    <3>1. nest'[u] = nest[u] /\ timed_out'[u] = timed_out[u] /\ Levels(u)' = Levels(u)
      BY <1>5, <2>2 DEF TypeOK, DropLevel
    <3> QED  BY <3>1 DEF Balanced, Nesting
  <2> QED  BY <2>1, <2>2
<1>7. Balanced'
  BY <1>1, <1>6 DEF Balanced, DropLevel
<1>8. QueueIsWaiters'
  <2>1. \A u \in Threads : Waiting(u)' <=> Waiting(u)
    BY DEF TypeOK, DropLevel, Goto, Waiting
  <2>2. Range(waiters) \subseteq Threads
    BY DEF TypeOK, Range
  <2> QED  BY <2>1, <2>2 DEF QueueIsWaiters, DropLevel
<1>9. NoLostWakeup'
  BY DEF NoLostWakeup, DropLevel, TypeOK, Goto
<1> QED  BY <1>3, <1>7, <1>8, <1>9

(* unlock: the owner's level, else a late acquire, which is then innermost. *)
LEMMA UnlockIInv ==
  ASSUME IInv, NEW t \in Threads, Unlock(t)
  PROVE  IInv'
<1> USE DEF IInv
<1>1. CASE owner = t
  BY <1>1, DropLevelIInv DEF Unlock
<1>2. CASE owner # t
  <2>1. /\ timed_out[t] \in Nat \ {0}
        /\ timed_out' = [timed_out EXCEPT ![t] = @ - 1]
        /\ nest' = [nest EXCEPT ![t] = Front(@)]
        /\ UNCHANGED <<owner, depth, waiters, asleep, pc>>
    BY <1>2 DEF Unlock, TypeOK
  <2>2. /\ Front(nest[t]) \in Seq(Outcomes)
        /\ Nesting(Front(nest[t]), timed_out[t] - 1, 0)
    BY <1>2, <2>1, PopLate DEF TypeOK, Balanced, Levels
  <2>3. TypeOK'
    BY <2>1, <2>2 DEF TypeOK
  <2>4. ASSUME NEW u \in Threads
        PROVE  Nesting(nest[u], timed_out[u], Levels(u))'
    BY <1>2, <2>1, <2>2 DEF TypeOK, Balanced, Nesting, Levels
  <2>5. Balanced'
    BY <2>1, <2>4 DEF Balanced
  <2>6. QueueIsWaiters'
    BY <2>1 DEF QueueIsWaiters, Waiting
  <2>7. NoLostWakeup'
    BY <2>1 DEF NoLostWakeup
  <2> QED  BY <2>3, <2>5, <2>6, <2>7
<1> QED  BY <1>1, <1>2

(* release_all keeps the late acquires of the owner. *)
LEMMA ReleaseAllIInv ==
  ASSUME IInv, NEW t \in Threads, ReleaseAll(t)
  PROVE  IInv'
<1> USE DEF IInv
<1>1. owner = t /\ depth \in Nat /\ Levels(t) = depth
  BY DEF ReleaseAll, TypeOK, Levels
<1>2. /\ SubSeq(nest[t], 1, Len(nest[t]) - depth) \in Seq(Outcomes)
      /\ Nesting(SubSeq(nest[t], 1, Len(nest[t]) - depth), timed_out[t], 0)
  BY <1>1, DropHeld DEF TypeOK, Balanced
<1>3. TypeOK'
  BY <1>2 DEF TypeOK, ReleaseAll, Goto, Places
<1>4. \A u \in Threads : Levels(u)' = 0 /\ (u # t => Levels(u) = 0)
  BY <1>1 DEF ReleaseAll, Levels
<1>5. ASSUME NEW u \in Threads
      PROVE  Nesting(nest[u], timed_out[u], Levels(u))'
  BY <1>2, <1>4 DEF TypeOK, Balanced, ReleaseAll, Nesting
<1>6. Balanced'
  BY <1>5 DEF Balanced, ReleaseAll
<1>7. QueueIsWaiters'
  <2>1. \A u \in Threads : Waiting(u)' <=> Waiting(u)
    BY DEF TypeOK, ReleaseAll, Goto, Waiting
  <2>2. Range(waiters) \subseteq Threads
    BY DEF TypeOK, Range
  <2> QED  BY <2>1, <2>2 DEF QueueIsWaiters, ReleaseAll
<1>8. NoLostWakeup'
  BY DEF NoLostWakeup, ReleaseAll, TypeOK, Goto
<1> QED  BY <1>3, <1>6, <1>7, <1>8

(* notify_all only wakes. *)
LEMMA NotifyIInv ==
  ASSUME IInv, NEW t \in Threads, Notify(t)
  PROVE  IInv'
<1> USE DEF IInv
<1>1. TypeOK'
  BY DEF TypeOK, Notify, Goto, Places
<1>2. Balanced'
  BY DEF Balanced, Notify, Levels, Nesting
<1>3. QueueIsWaiters'
  <2>1. \A u \in Threads : Waiting(u)' <=> Waiting(u)
    BY DEF TypeOK, Notify, Goto, Waiting
  <2> QED  BY <2>1 DEF QueueIsWaiters, Notify
<1>4. NoLostWakeup'
  BY DEF NoLostWakeup, Notify
<1> QED  BY <1>1, <1>2, <1>3, <1>4

(* No step of the mutex breaks the invariant. *)
LEMMA NextIInv == IInv /\ [Next]_vars => IInv'
<1> SUFFICES ASSUME IInv, [Next]_vars  PROVE IInv'
  OBVIOUS
<1>1. ASSUME NEW t \in Threads, Step(t)  PROVE IInv'
  <2>1. CASE Lock(t)
    BY <2>1, TakeNowIInv, EnqueueIInv DEF Lock, MayAcquire
  <2>2. CASE TryLock(t) /\ TakeNow(t)
    BY <2>2, TakeNowIInv DEF TryLock, MayAcquire
  <2>3. CASE TryLockFor(t)
    BY <2>3, TakeNowIInv, EnqueueIInv DEF TryLockFor, MayAcquire
  <2>4. CASE Wake(t)
    BY <2>4, WakeIInv
  <2>5. CASE SpuriousWake(t)
    BY <2>5, SpuriousWakeIInv
  <2>6. CASE Timeout(t)
    BY <2>6, TimeoutIInv
  <2>7. CASE Unlock(t)
    BY <2>7, UnlockIInv
  <2>8. CASE ForeignUnlock(t)
    BY <2>8, DropLevelIInv DEF ForeignUnlock, IInv, TypeOK
  <2>9. CASE ReleaseAll(t)
    BY <2>9, ReleaseAllIInv
  <2>10. CASE Notify(t)
    BY <2>10, NotifyIInv
  <2>11. CASE UNCHANGED vars
    BY <2>11 DEF vars, IInv, TypeOK, Balanced, QueueIsWaiters, NoLostWakeup,
                 Levels, Nesting, Waiting
  <2> QED  BY <1>1, <2>1, <2>2, <2>3, <2>4, <2>5, <2>6, <2>7, <2>8, <2>9,
              <2>10, <2>11 DEF Step, TryLock
<1>2. CASE UNCHANGED vars
  BY <1>2 DEF vars, IInv, TypeOK, Balanced, QueueIsWaiters, NoLostWakeup,
              Levels, Nesting, Waiting
<1> QED  BY <1>1, <1>2 DEF Next
-----------------------------------------------------------------------------
(* The theorems.                                                           *)

LEMMA Invariance == Spec => []IInv
BY InitIInv, NextIInv, PTL DEF Spec

(* The state of the mutex is well formed in every reachable state. *)
THEOREM TypeCorrect == Spec => []TypeOK
BY Invariance, PTL DEF IInv

(* owner_, depth_ and timed_out_ always agree with what the callers hold. *)
THEOREM BalancedAlways == Spec => []Balanced
BY Invariance, PTL DEF IInv

(* Each blocked thread is queued once, and nobody else is. *)
THEOREM QueueCorrect == Spec => []QueueIsWaiters
BY Invariance, PTL DEF IInv

(* The oldest waiter of a free mutex is awake or about to be woken. *)
THEOREM WakeupsAreKept == Spec => []NoLostWakeup
BY Invariance, PTL DEF IInv

(* Two threads never both hold the mutex. *)
THEOREM Exclusion == Spec => []MutualExclusion
<1>1. IInv => MutualExclusion
  <2> SUFFICES ASSUME IInv, NEW t \in Threads, owner # t  PROVE Got(t) = {}
    BY DEF MutualExclusion
  <2>1. Nesting(nest[t], timed_out[t], 0) /\ timed_out[t] \in Nat
    BY DEF IInv, TypeOK, Balanced, Levels
  <2> QED  BY <2>1 DEF Nesting, Got
<1> QED  BY <1>1, Invariance, PTL

(* First come, first served: nobody gets the mutex over an older waiter. *)
THEOREM Fifo == Spec => NoBarging
<1> DEFINE Served(t) == owner # t /\ owner' = t => waiters = <<>> \/ Head(waiters) = t
<1>1. ASSUME IInv, [Next]_vars, NEW t \in Threads  PROVE Served(t)
  <2> SUFFICES ASSUME owner # t, owner' = t, Next  PROVE waiters = <<>> \/ Head(waiters) = t
    BY <1>1 DEF vars
  <2>1. PICK u \in Threads : Step(u)
    BY DEF Next
  <2>2. owner' \in {owner, None, u}
    BY <2>1 DEF Step, Lock, TryLock, TryLockFor, Wake, SpuriousWake, Timeout, Unlock,
           ForeignUnlock, ReleaseAll, Notify, TakeNow, Enqueue, TakeTurn, DropLevel, vars
  <2>3. u = t
    BY <2>2
  <2>4. TakeNow(t) \/ TakeTurn(t)
    BY <2>1, <2>3 DEF Step, Lock, TryLock, TryLockFor, Wake, SpuriousWake, Timeout, Unlock,
           ForeignUnlock, ReleaseAll, Notify, Enqueue, DropLevel, vars
  <2> QED  BY <2>4 DEF TakeNow, TakeTurn, Uncontended, Ready
<1>2. IInv /\ [Next]_vars => [\A t \in Threads : Served(t)]_vars
  BY <1>1
<1> QED  BY <1>2, Invariance, PTL DEF Spec, NoBarging

-----------------------------------------------------------------------------
(* The class implements RecursiveLock.                                     *)

Held == [t \in Threads |-> Cardinality(Got(t))]

(* A caller's held acquires are counted by depth_. *)
DepthCounts == Held = [t \in Threads |-> Levels(t)]

(* The acquires a thread really holds are as many as its levels. *)
LEMMA HeldIsDepth == IInv => DepthCounts
<1> SUFFICES ASSUME IInv, NEW t \in Threads  PROVE Cardinality(Got(t)) = Levels(t)
  BY DEF DepthCounts, Held
<1>1. /\ Nesting(nest[t], timed_out[t], Levels(t))
      /\ timed_out[t] \in Nat /\ Levels(t) \in Nat /\ Len(nest[t]) \in Nat
  BY DEF IInv, TypeOK, Balanced, Levels
<1>2. Got(t) = (timed_out[t] + 1)..Len(nest[t])
  BY <1>1 DEF Nesting, Got
<1>3. timed_out[t] + 1 \in Int /\ Len(nest[t]) \in Int
  BY <1>1
<1>4. Cardinality(Got(t)) = IF timed_out[t] + 1 > Len(nest[t])
                            THEN 0 ELSE Len(nest[t]) - (timed_out[t] + 1) + 1
  BY <1>2, <1>3, FS_Interval
<1> QED  BY <1>1, <1>4 DEF Nesting

(* Every step acquires a level that excludes others, drops some, or none. *)
LEMMA StepLevels ==
  ASSUME IInv, NEW t \in Threads, Step(t)
  PROVE  \/ \E u \in Threads :
              /\ \A v \in Threads \ {u} : Levels(v) = 0 /\ Levels(v)' = 0
              /\ \/ Levels(u)' = Levels(u) + 1
                 \/ Levels(u) > 0 /\ Levels(u)' = Levels(u) - 1
                 \/ Levels(u) > 0 /\ Levels(u)' = 0
         \/ \A v \in Threads : Levels(v)' = Levels(v)
<1> USE DEF IInv, TypeOK
<1>1. CASE TakeNow(t)
  BY <1>1 DEF TakeNow, Uncontended, Levels
<1>2. CASE TakeTurn(t)
  BY <1>2 DEF TakeTurn, Ready, Levels
<1>3. CASE owner \in Threads /\ DropLevel(t)
  <2>1. depth \in Nat \ {0}
    BY <1>3 DEF Balanced
  <2> QED  BY <1>3, <2>1 DEF DropLevel, Levels
<1>4. CASE ReleaseAll(t)
  <2>1. depth \in Nat \ {0}
    BY <1>4 DEF Balanced, ReleaseAll
  <2> QED  BY <1>4, <2>1 DEF ReleaseAll, Levels
<1>5. CASE UNCHANGED <<owner, depth>>
  BY <1>5 DEF Levels
<1> QED
  BY <1>1, <1>2, <1>3, <1>4, <1>5
     DEF Step, Lock, TryLock, TryLockFor, Wake, SpuriousWake, Timeout, Unlock,
         ForeignUnlock, Notify, Enqueue, vars

(* What a guest sees of the mutex is the abstract recursive lock. *)
THEOREM Refinement == Spec => ImplementsLock
<1>1. Init => Promise!LockInit
  <2> SUFFICES ASSUME Init  PROVE Held = [t \in Threads |-> 0]
    BY DEF Promise!LockInit, Held
  <2> QED  BY InitIInv, HeldIsDepth DEF Init, Levels, DepthCounts
<1>2. ASSUME IInv, DepthCounts, DepthCounts', [Next]_vars
      PROVE  [Promise!LockNext]_Held
  <2>1. CASE \A v \in Threads : Levels(v)' = Levels(v)
    BY <1>2, <2>1 DEF DepthCounts
  <2>2. CASE UNCHANGED vars
    BY <2>2 DEF vars, Held, Got
  <2>3. ASSUME NEW u \in Threads,
               \A v \in Threads \ {u} : Levels(v) = 0 /\ Levels(v)' = 0,
               \/ Levels(u)' = Levels(u) + 1
               \/ Levels(u) > 0 /\ Levels(u)' = Levels(u) - 1
               \/ Levels(u) > 0 /\ Levels(u)' = 0
        PROVE  Promise!LockNext
    <3>1. /\ Held[u] = Levels(u)
          /\ \A v \in Threads \ {u} : Held[v] = 0
          /\ Held' = [Held EXCEPT ![u] = Levels(u)']
      BY <1>2, <2>3 DEF DepthCounts
    <3>2. CASE Levels(u)' = Levels(u) + 1
      <4>1. Promise!Acquire(u)
        BY <3>1, <3>2 DEF Promise!Acquire, Promise!Excludes, Held
      <4> QED  BY <4>1 DEF Promise!LockNext
    <3>3. CASE Levels(u) > 0 /\ Levels(u)' = Levels(u) - 1
      <4>1. Promise!Release(u)
        BY <3>1, <3>3 DEF Promise!Release, Held
      <4> QED  BY <4>1 DEF Promise!LockNext
    <3>4. CASE Levels(u) > 0 /\ Levels(u)' = 0
      <4>1. Promise!ReleaseAll(u)
        BY <3>1, <3>4 DEF Promise!ReleaseAll, Held
      <4> QED  BY <4>1 DEF Promise!LockNext
    <3> QED  BY <2>3, <3>2, <3>3, <3>4
  <2> QED  BY <1>2, <2>1, <2>2, <2>3, StepLevels DEF Next
<1>3. Init /\ [][Next]_vars => [][Promise!LockNext]_Held
  BY <1>2, HeldIsDepth, InitIInv, NextIInv, PTL
<1> QED  BY <1>1, <1>3, PTL DEF Spec, ImplementsLock, Promise!LockSpec, Held
-----------------------------------------------------------------------------
(* The lwmutex layer: what it does to the host mutex are steps of FairMutex. *)
LEMMA HostSteps ==
  ASSUME NEW t \in Threads, LwStep(t)
  PROVE  Step(t) \/ UNCHANGED vars
BY DEF LwStep, SysLock, SysTryLock, Call, SysUnlock, Signal, CondWait, Continue, GoOpen,
  HostLock, HostTryLock, HostProgress, Stamp, Count, Uncount, Release, HostUnlock, NotifyOne, NotifyAll,
  CondSleep, CondWake, CondExpire, Outwaited, Relock, CondReturn, Step

(* So the invariant of the host mutex holds in the lwmutex layer, too. *)
LEMMA LwHostInv == IInv /\ [LwNext]_lwVars => IInv'
<1>1. [LwNext]_lwVars => [Next]_vars
  BY HostSteps DEF LwNext, lwVars, Next
<1> QED BY <1>1, NextIInv

(* The parts of the state the theorems are about. *)
LwTypes ==
  /\ setup \in LwSetups
  /\ policy \in Policies
  /\ pol \in [Threads -> Policies]
  /\ at \in [Threads -> Stations]
  /\ inside \in [Threads -> Seq(Outcomes \cup {"open"})]
  /\ sequence \in Nat
  /\ before \in [Threads -> Nat]
  /\ result \in [Threads -> {"ok", "timedout"}]
  /\ signalled \in [Threads -> BOOLEAN]
  /\ left \in [Threads -> Nat]

(* A waiter that was signalled sees it by the sequence, as long as it waits. *)
SignalsShow == \A t \in Threads :
  at[t] \in {"cond", "asleep"} =>
    /\ before[t] <= sequence
    /\ signalled[t] => before[t] < sequence

(* What a thread waits for in the host mutex, it waits for in a call. *)
WaitsInCalls == \A t \in Threads : Waiting(t) => at[t] \in {"stamp", "relock"}

(* Nobody touches the host mutex before the policy is published. *)
Published == ~LwmAll /\ policy = "none" =>
  \A t \in Threads : nest[t] = <<>> /\ pol[t] = "none" /\ ~Waiting(t) /\ left[t] = 0

Unlocking(t) == at[t] \in {"uncount", "unlock"}

(* No acquire of the host mutex outlives those of the guest. *)
Counted == ~LwmAll => \A t \in Threads :
  \/ Len(nest[t]) <= Len(inside[t])
  \/ Unlocking(t) /\ Len(nest[t]) <= Len(inside[t]) + 1

(* Where every site is guarded, the guest has what the host mutex gave. *)
Mirrored == Guarded => \A t \in Threads :
  /\ at[t] \in {"lock", "try"} => pol[t] # "none"
  /\ IF Unlocking(t) THEN nest[t] # <<>> /\ inside[t] = Front(nest[t])
     ELSE inside[t] = nest[t]

(* A guest's locks are some that it took open, and on them those the host    *)
(* mutex knows of.                                                          *)
OpenThen(ins, known) ==
  /\ Len(known) <= Len(ins)
  /\ \A i \in 1 .. Len(ins) :
       ins[i] = IF i <= Len(ins) - Len(known) THEN "open"
                ELSE known[i - (Len(ins) - Len(known))]

(* While no level was released by another, that is so of every thread; one  *)
(* that is unlocking has still to tell the host mutex of its last lock.     *)
Layered == ~LwmAll /\ ~astray => \A t \in Threads :
  \/ OpenThen(inside[t], nest[t]) /\ (Unlocking(t) => nest[t] = <<>>)
  \/ Unlocking(t) /\ nest[t] # <<>> /\ OpenThen(inside[t], Front(nest[t]))

(* Who is about to lock without the host mutex does not hold it.            *)
OpenCalls == ~LwmAll => \A t \in Threads :
  at[t] \in {"lock", "try"} /\ pol[t] = "none" => nest[t] = <<>>

(* Where no holder outlasts the deadline, nobody is late. *)
NobodyLate == ~setup.locksExpire => \A t \in Threads : timed_out[t] = 0

LwInv ==
  /\ IInv /\ LwTypes /\ SignalsShow /\ TimeoutMeansNoSignal /\ WaitsInCalls /\ Published
  /\ Counted /\ Mirrored /\ OpenCalls /\ Layered /\ NothingStrays /\ NobodyLate

(* The invariant of the layer holds before the first call. *)
LEMMA InitLw == LwInit => LwInv
<1> SUFFICES ASSUME LwInit PROVE LwInv
  OBVIOUS
<1>1. IInv
  BY InitIInv DEF LwInit
<1>2. LwTypes
  BY DEF LwInit, LwTypes, Policies, Stations
<1> QED BY <1>1, <1>2 DEF LwInv, LwInit, Init, SignalsShow, TimeoutMeansNoSignal, WaitsInCalls, Waiting, Published,
  Counted, Unlocking, Mirrored, OpenCalls, Layered, OpenThen, NothingStrays, NobodyLate

(* What a thread's acquire adds to the host's nesting, it adds to the guest's. *)
LEMMA EnteredPairs ==
  ASSUME LwInv, NEW t \in Threads, Entered(t),
         Lock(t) \/ TryLock(t) \/ TryLockFor(t) \/ Wake(t) \/ SpuriousWake(t) \/ Timeout(t) \/ Notify(t)
  PROVE  \/ UNCHANGED <<nest, inside>>
         \/ \E o \in Outcomes : /\ nest' = [nest EXCEPT ![t] = Append(nest[t], o)]
                                /\ inside' = [inside EXCEPT ![t] = Append(inside[t], o)]
<1>1. nest \in [Threads -> Seq(Outcomes)]
  BY DEF LwInv, IInv, TypeOK
<1>2. UNCHANGED nest \/ \E o \in Outcomes : nest' = [nest EXCEPT ![t] = Append(nest[t], o)]
  BY DEF Lock, TryLock, TryLockFor, Wake, SpuriousWake, Timeout, Notify, TakeNow, Enqueue, TakeTurn, Push, vars, Outcomes
<1>3. CASE UNCHANGED nest
  BY <1>1, <1>3 DEF Entered
<1>4. ASSUME NEW o \in Outcomes, nest' = [nest EXCEPT ![t] = Append(nest[t], o)]
      PROVE  inside' = [inside EXCEPT ![t] = Append(inside[t], o)]
  <2>1. nest'[t] = Append(nest[t], o) /\ nest[t] \in Seq(Outcomes)
    BY <1>1, <1>4
  <2>2. Len(nest'[t]) > Len(nest[t]) /\ Last(nest'[t]) = o
    BY <2>1 DEF Last
  <2> QED BY <2>2 DEF Entered
<1> QED BY <1>2, <1>3, <1>4

(* A sequence and its front. *)
LEMMA FrontOf ==
  ASSUME NEW S, NEW s, s \in Seq(S), s # <<>>
  PROVE  Front(s) \in Seq(S) /\ Len(Front(s)) = Len(s) - 1 /\ Len(s) \in Nat \ {0}
<1>1. Len(s) \in Nat /\ Len(s) # 0
  BY EmptySeq
<1>2. PICK n \in Nat : n = Len(s) - 1
  BY <1>1
<1>3. Front(s) = SubSeq(s, 1, n)
  BY <1>2 DEF Front
<1>4. \A i \in 1 .. n : s[i] \in S
  BY <1>1, <1>2, ElementOfSeq
<1>5. SubSeq(s, 1, n) = [i \in 1 .. n |-> s[i]]
  BY <1>1, <1>2
<1>6. SubSeq(s, 1, n) \in Seq(S) /\ Len(SubSeq(s, 1, n)) = n
  BY <1>2, <1>4, <1>5
<1> QED BY <1>1, <1>2, <1>3, <1>6

(* Every step of the layer keeps its variables in their sets. *)
LEMMA LwTypesNext ==
  ASSUME LwInv, NEW t \in Threads, LwStep(t), setup' = setup
  PROVE  LwTypes'
<1> USE DEF LwInv, LwTypes, Policies, Stations, Move
<1>1. CASE SysLock(t) \/ SysTryLock(t)
  BY <1>1 DEF SysLock, SysTryLock, Call, Resolved, condVars
<1>2. CASE GoOpen(t)
  BY <1>2 DEF GoOpen, condVars
<1>3. ASSUME Entered(t), Lock(t) \/ TryLock(t) \/ TryLockFor(t) \/ Wake(t) \/ SpuriousWake(t) \/ Timeout(t) \/ Notify(t)
      PROVE  inside' \in [Threads -> Seq(Outcomes \cup {"open"})]
  <2>1. CASE UNCHANGED inside
    BY <2>1
  <2>2. ASSUME NEW o \in Outcomes, inside' = [inside EXCEPT ![t] = Append(inside[t], o)]
        PROVE  inside' \in [Threads -> Seq(Outcomes \cup {"open"})]
    BY <2>2
  <2>3. UNCHANGED inside \/ \E o \in Outcomes : inside' = [inside EXCEPT ![t] = Append(inside[t], o)]
    BY <1>3, EnteredPairs
  <2> QED BY <2>1, <2>2, <2>3
<1>4. CASE HostLock(t) \/ HostTryLock(t) \/ HostProgress(t)
  BY <1>3, <1>4 DEF HostLock, HostTryLock, HostProgress, condVars
<1>12. CASE Relock(t)
  <2>1. left' \in [Threads -> Nat]
    BY <1>12 DEF Relock
  <2> QED BY <1>3, <1>12, <2>1 DEF Relock
<1>5. CASE Stamp(t) \/ Count(t) \/ Uncount(t) \/ Release(t) \/ NotifyOne(t) \/ NotifyAll(t)
  BY <1>5 DEF Stamp, Count, Uncount, Release, NotifyOne, NotifyAll, condVars
<1>6. CASE SysUnlock(t)
  <2>1. CASE inside[t] = <<>> /\ UNCHANGED inside
    BY <1>6, <2>1 DEF SysUnlock, condVars
  <2>2. CASE inside[t] # <<>> /\ inside' = [inside EXCEPT ![t] = Front(inside[t])]
    <3>1. Front(inside[t]) \in Seq(Outcomes \cup {"open"})
      BY <2>2, FrontOf
    <3> QED BY <1>6, <2>2, <3>1 DEF SysUnlock, condVars
  <2> QED BY <1>6, <2>1, <2>2 DEF SysUnlock
<1>7. CASE Signal(t)
  <2>1. signalled' \in [Threads -> BOOLEAN]
    BY <1>7, Zenon DEF Signal
  <2>2. UNCHANGED <<policy, pol, inside, before, result, left>> /\ sequence' \in Nat
    BY <1>7 DEF Signal
  <2>3. at' \in [Threads -> Stations]
    BY <1>7 DEF Signal
  <2> QED BY <2>1, <2>2, <2>3
<1>8. CASE CondWait(t)
  <2>1. Levels(t) \in Nat
    BY DEF IInv, TypeOK, Levels
  <2>2. SubSeq(inside[t], 1, Len(inside[t]) - Levels(t)) \in Seq(Outcomes \cup {"open"})
    BY <2>1
  <2> QED BY <1>8, <2>1, <2>2 DEF CondWait
<1>9. CASE CondSleep(t) \/ CondWake(t)
  BY <1>9 DEF CondSleep, CondWake
<1>10. CASE CondExpire(t)
  BY <1>10 DEF CondExpire, Outwaited
<1>11. CASE CondReturn(t)
  <2>1. signalled' \in [Threads -> BOOLEAN]
    BY <1>11, Zenon DEF CondReturn
  <2> QED BY <1>11, <2>1 DEF CondReturn
<1> QED BY <1>1, <1>2, <1>4, <1>5, <1>6, <1>7, <1>8, <1>9, <1>10, <1>11, <1>12 DEF LwStep, Continue

(* A signal moves the sequence on; a timeout looks at it again. *)
LEMMA SignalsNext ==
  ASSUME LwInv, NEW t \in Threads, LwStep(t)
  PROVE  SignalsShow' /\ TimeoutMeansNoSignal'
<1> USE DEF LwInv, LwTypes, SignalsShow, TimeoutMeansNoSignal, Move
<1>1. CASE Signal(t)
  <2>1. /\ sequence' = sequence + 1 /\ UNCHANGED <<before, result>>
        /\ \A u \in Threads : at'[u] \in {"cond", "asleep", "relock"} => at'[u] = at[u]
    BY <1>1 DEF Signal
  <2>2. \A u \in Threads : signalled'[u] <=> signalled[u] \/ at[u] \in {"cond", "asleep"}
    BY <1>1, Zenon DEF Signal
  <2>3. SignalsShow'
    <3> SUFFICES ASSUME NEW u \in Threads, at'[u] \in {"cond", "asleep"}
                 PROVE  before'[u] <= sequence' /\ (signalled'[u] => before'[u] < sequence')
      OBVIOUS
    <3>1. before[u] \in Nat /\ sequence \in Nat /\ before[u] <= sequence
      BY <2>1
    <3> QED BY <2>1, <3>1
  <2>4. TimeoutMeansNoSignal'
    <3> SUFFICES ASSUME NEW u \in Threads, at'[u] = "relock", result'[u] = "timedout"
                 PROVE  ~signalled'[u]
      OBVIOUS
    <3>1. at[u] = "relock" /\ result[u] = "timedout"
      BY <2>1
    <3>2. ~signalled[u]
      BY <3>1
    <3> QED BY <2>2, <3>1, <3>2
  <2> QED BY <2>3, <2>4
<1>2. CASE CondWait(t)
  BY <1>2 DEF CondWait
<1>3. CASE CondSleep(t) \/ CondWake(t)
  BY <1>3 DEF CondSleep, CondWake
<1>7. CASE CondExpire(t)
  BY <1>7 DEF CondExpire, Outwaited
<1>8. CASE CondReturn(t)
  <2>1. \A u \in Threads : at'[u] \in {"cond", "asleep", "relock"} => u # t /\ at'[u] = at[u]
    BY <1>8 DEF CondReturn
  <2>2. \A u \in Threads \ {t} : signalled'[u] = signalled[u] /\ before'[u] = before[u] /\ result'[u] = result[u]
    BY <1>8 DEF CondReturn
  <2> QED BY <1>8, <2>1, <2>2 DEF CondReturn
<1>4. CASE Relock(t)
  BY <1>4 DEF Relock
<1>5. CASE SysLock(t) \/ SysTryLock(t) \/ GoOpen(t) \/ HostLock(t) \/ HostTryLock(t) \/ HostProgress(t) \/ SysUnlock(t)
  BY <1>5 DEF SysLock, SysTryLock, Call, GoOpen, HostLock, HostTryLock, HostProgress, SysUnlock, condVars
<1>6. CASE Stamp(t) \/ Count(t) \/ Uncount(t) \/ Release(t) \/ NotifyOne(t) \/ NotifyAll(t)
  BY <1>6 DEF Stamp, Count, Uncount, Release, NotifyOne, NotifyAll, condVars
<1> QED BY <1>1, <1>2, <1>3, <1>4, <1>5, <1>6, <1>7, <1>8 DEF LwStep, Continue

(* Who waits has called the host mutex. *)
LEMMA WaitsNext ==
  ASSUME LwInv, NEW t \in Threads, LwStep(t)
  PROVE  WaitsInCalls'
<1> USE DEF LwInv, LwTypes, IInv, TypeOK, WaitsInCalls, Waiting, Move
<1>1. CASE UNCHANGED pc /\ (at[t] \in {"stamp", "relock"} => pc[t] = "run" \/ at'[t] = at[t])
           /\ \A u \in Threads \ {t} : at'[u] = at[u]
  BY <1>1
<1>2. CASE HostLock(t)
  BY <1>2 DEF HostLock, Lock, TryLockFor, TakeNow, Enqueue, Goto
<1>3. CASE HostTryLock(t)
  BY <1>1, <1>3 DEF HostTryLock, TryLock, TakeNow, vars
<1>4. CASE HostProgress(t)
  BY <1>4 DEF HostProgress, Wake, SpuriousWake, Timeout, TakeTurn, Notify, Goto
<1>5. CASE Relock(t)
  BY <1>5 DEF Relock, TryLockFor, TakeNow, Enqueue, Goto
<1>6. CASE Release(t)
  BY <1>6 DEF Release, HostUnlock, Unlock, ForeignUnlock, DropLevel, Goto, vars
<1>7. CASE CondWait(t)
  BY <1>7 DEF CondWait, ReleaseAll, InGuest, Goto, vars
<1>8. CASE SysLock(t) \/ SysTryLock(t) \/ GoOpen(t) \/ Stamp(t) \/ Count(t) \/ SysUnlock(t) \/ Uncount(t)
           \/ Signal(t) \/ NotifyOne(t) \/ NotifyAll(t) \/ CondSleep(t) \/ CondWake(t) \/ CondExpire(t)
           \/ CondReturn(t)
  BY <1>1, <1>8 DEF SysLock, SysTryLock, Call, GoOpen, Stamp, Count, SysUnlock, Uncount, Signal, NotifyOne, NotifyAll,
     CondSleep, CondWake, CondExpire, Outwaited, CondReturn, InGuest, vars
<1> QED BY <1>2, <1>3, <1>4, <1>5, <1>6, <1>7, <1>8 DEF LwStep, Continue

(* A policy is published before it is acted on, and stays. *)
LEMMA PublishedNext ==
  ASSUME LwInv, NEW t \in Threads, LwStep(t)
  PROVE  Published'
<1> USE DEF LwInv, LwTypes, IInv, TypeOK, Published, Waiting
<1>1. CASE SysLock(t) \/ SysTryLock(t)
  BY <1>1 DEF SysLock, SysTryLock, Call, Resolved, vars, condVars
<1>2. SUFFICES ASSUME ~LwmAll, policy' = "none", ~(SysLock(t) \/ SysTryLock(t))
               PROVE  \A u \in Threads : nest'[u] = <<>> /\ pol'[u] = "none" /\ ~Waiting(u)' /\ left'[u] = 0
  BY <1>1
<1>3. policy = "none"
  BY <1>2 DEF LwStep, Continue, SysUnlock, Signal, CondWait, GoOpen, HostLock, HostTryLock, HostProgress,
     Stamp, Count, Uncount, Release, NotifyOne, NotifyAll, CondSleep, CondWake, CondExpire, Outwaited, Relock, CondReturn
<1>4. \A u \in Threads : nest[u] = <<>> /\ pol[u] = "none" /\ ~Waiting(u) /\ left[u] = 0
  BY <1>2, <1>3
<1>5. ~HostLock(t) /\ ~HostTryLock(t) /\ ~Relock(t)
  BY <1>4 DEF HostLock, HostTryLock, Relock
<1>6. CASE HostProgress(t)
  <2>1. ~Wake(t) /\ ~Timeout(t)
    BY <1>4 DEF Wake, Timeout
  <2> QED BY <1>4, <1>6, <2>1 DEF HostProgress, SpuriousWake, Notify, Goto, condVars
<1>7. CASE CondWait(t)
  <2>1. Levels(t) = 0
    BY <1>4 DEF Balanced, Nesting, Levels
  <2>2. owner # t
    BY <2>1 DEF Balanced, Levels
  <2> QED BY <1>4, <1>7, <2>1, <2>2 DEF CondWait, vars
<1>8. CASE Release(t)
  BY <1>3, <1>4, <1>8 DEF Release, vars, condVars
<1>9. CASE GoOpen(t) \/ Stamp(t) \/ Count(t) \/ SysUnlock(t) \/ Uncount(t)
           \/ Signal(t) \/ NotifyOne(t) \/ NotifyAll(t) \/ CondSleep(t) \/ CondWake(t) \/ CondExpire(t)
           \/ CondReturn(t)
  BY <1>4, <1>9 DEF GoOpen, Stamp, Count, SysUnlock, Uncount, Signal, NotifyOne, NotifyAll,
     CondSleep, CondWake, CondExpire, Outwaited, CondReturn, vars, condVars
<1> QED BY <1>2, <1>5, <1>6, <1>7, <1>8, <1>9 DEF LwStep, Continue

(* Only a deadline makes a thread late. *)
LEMMA NobodyLateNext ==
  ASSUME LwInv, NEW t \in Threads, LwStep(t), setup' = setup
  PROVE  NobodyLate'
<1>1. timed_out \in [Threads -> Nat]
  BY DEF LwInv, IInv, TypeOK
<1>2. CASE ~(HostProgress(t) /\ setup.locksExpire)
  <2>1. UNCHANGED timed_out \/ timed_out[t] > 0
    BY <1>2 DEF LwStep, Continue, SysLock, SysTryLock, Call, SysUnlock, Signal, CondWait, GoOpen, HostLock,
     HostTryLock, HostProgress, Stamp, Count, Uncount, Release, HostUnlock, NotifyOne, NotifyAll, CondSleep, CondWake,
     CondExpire, Outwaited, Relock, CondReturn, Lock, TryLock, TryLockFor, TakeNow, Enqueue, Wake, SpuriousWake,
     TakeTurn, Unlock, ForeignUnlock, DropLevel, ReleaseAll, Notify, vars
  <2> QED BY <1>1, <2>1 DEF NobodyLate, LwInv
<1>3. CASE HostProgress(t) /\ setup.locksExpire
  BY <1>3 DEF NobodyLate
<1> QED BY <1>2, <1>3

(* The guest and the host mutex count the same acquires. *)
LEMMA CountedNext ==
  ASSUME LwInv, NEW t \in Threads, LwStep(t)
  PROVE  Counted'
<1> SUFFICES ASSUME ~LwmAll PROVE \A u \in Threads :
               \/ Len(nest'[u]) <= Len(inside'[u])
               \/ Unlocking(u)' /\ Len(nest'[u]) <= Len(inside'[u]) + 1
  BY DEF Counted
<1>0. \A u \in Threads : /\ nest[u] \in Seq(Outcomes) /\ inside[u] \in Seq(Outcomes \cup {"open"})
                         /\ Len(nest[u]) \in Nat /\ Len(inside[u]) \in Nat
                         /\ \/ Len(nest[u]) <= Len(inside[u])
                            \/ Unlocking(u) /\ Len(nest[u]) <= Len(inside[u]) + 1
  BY DEF LwInv, IInv, TypeOK, LwTypes, Counted
<1>1. at \in [Threads -> Stations] /\ nest \in [Threads -> Seq(Outcomes)]
      /\ inside \in [Threads -> Seq(Outcomes \cup {"open"})] /\ owner \in Threads \cup {None}
  BY DEF LwInv, IInv, TypeOK, LwTypes
<1>2. CASE UNCHANGED <<nest, inside>> /\ \A u \in Threads : Unlocking(u) => Unlocking(u)'
  BY <1>0, <1>2
<1>3. CASE SysLock(t) \/ SysTryLock(t) \/ Stamp(t) \/ Count(t) \/ Uncount(t) \/ Signal(t) \/ NotifyOne(t) \/ NotifyAll(t)
           \/ CondSleep(t) \/ CondWake(t) \/ CondExpire(t) \/ CondReturn(t)
  BY <1>1, <1>2, <1>3 DEF SysLock, SysTryLock, Call, Stamp, Count, Uncount, Signal, NotifyOne, NotifyAll, CondSleep,
     CondWake, CondExpire, Outwaited, CondReturn, Move, InGuest, Unlocking, vars
<1>4. CASE GoOpen(t)
  <2>1. UNCHANGED nest /\ inside' = [inside EXCEPT ![t] = Append(inside[t], "open")] /\ ~Unlocking(t)
        /\ \A u \in Threads \ {t} : at'[u] = at[u]
    BY <1>1, <1>4 DEF GoOpen, Move, Unlocking, vars
  <2>2. Len(inside'[t]) = Len(inside[t]) + 1
    BY <1>0, <1>1, <2>1
  <2> QED BY <1>0, <1>1, <2>1, <2>2 DEF Unlocking
<1>5. ASSUME \A u \in Threads : Unlocking(u) => Unlocking(u)', Entered(t),
             Lock(t) \/ TryLock(t) \/ TryLockFor(t) \/ Wake(t) \/ SpuriousWake(t) \/ Timeout(t) \/ Notify(t)
      PROVE  \A u \in Threads :
               \/ Len(nest'[u]) <= Len(inside'[u])
               \/ Unlocking(u)' /\ Len(nest'[u]) <= Len(inside'[u]) + 1
  <2>1. CASE UNCHANGED <<nest, inside>>
    BY <1>2, <1>5, <2>1
  <2>2. ASSUME NEW o \in Outcomes, nest' = [nest EXCEPT ![t] = Append(nest[t], o)],
               inside' = [inside EXCEPT ![t] = Append(inside[t], o)]
        PROVE  \A u \in Threads :
                 \/ Len(nest'[u]) <= Len(inside'[u])
                 \/ Unlocking(u)' /\ Len(nest'[u]) <= Len(inside'[u]) + 1
    <3>1. Len(nest'[t]) = Len(nest[t]) + 1 /\ Len(inside'[t]) = Len(inside[t]) + 1
      BY <1>0, <1>1, <2>2
    <3> QED BY <1>0, <1>1, <1>5, <2>2, <3>1
  <2> QED BY <1>5, <2>1, <2>2, EnteredPairs
<1>6. CASE HostLock(t) \/ HostTryLock(t) \/ HostProgress(t) \/ Relock(t)
  <2>1. \A u \in Threads : Unlocking(u) => Unlocking(u)'
    BY <1>1, <1>6 DEF HostLock, HostTryLock, HostProgress, Relock, Move, Unlocking
  <2> QED BY <1>5, <1>6, <2>1 DEF HostLock, HostTryLock, HostProgress, Relock
<1>7. CASE SysUnlock(t)
  <2>1. UNCHANGED nest /\ ~Unlocking(t) /\ Unlocking(t)' /\ \A u \in Threads \ {t} : at'[u] = at[u]
    BY <1>1, <1>7 DEF SysUnlock, Move, InGuest, Unlocking, vars
  <2>2. CASE inside[t] = <<>> /\ UNCHANGED inside
    BY <1>2, <2>1, <2>2 DEF Unlocking
  <2>3. CASE inside[t] # <<>> /\ inside' = [inside EXCEPT ![t] = Front(inside[t])]
    <3>1. Len(inside'[t]) = Len(inside[t]) - 1
      BY <1>0, <1>1, <2>3, FrontOf
    <3> QED BY <1>0, <1>1, <2>1, <2>3, <3>1 DEF Unlocking
  <2> QED BY <1>7, <2>2, <2>3 DEF SysUnlock
<1>8. CASE Release(t)
  <2>1. UNCHANGED inside /\ Unlocking(t) /\ ~Unlocking(t)' /\ \A u \in Threads \ {t} : at'[u] = at[u]
    BY <1>1, <1>8 DEF Release, Move, Unlocking
  <2>2. CASE nest[t] = <<>>
    <3>1. UNCHANGED nest \/ (nest' = [nest EXCEPT ![owner] = Front(nest[owner])] /\ owner \in Threads /\ owner # t)
      BY <1>1, <1>8, <2>2 DEF Release, HostUnlock, ForeignUnlock, vars
    <3>2. \A u \in Threads : Len(nest'[u]) <= Len(nest[u])
      <4>1. CASE UNCHANGED nest
        BY <1>0, <4>1
      <4>2. CASE nest' = [nest EXCEPT ![owner] = Front(nest[owner])] /\ owner \in Threads
        <5>1. Len(Front(nest[owner])) <= Len(nest[owner])
          BY <1>0, <4>2 DEF Front
        <5> QED BY <1>0, <1>1, <4>2, <5>1
      <4> QED BY <3>1, <4>1, <4>2
    <3>3. Len(nest'[t]) = 0
      BY <1>1, <2>2, <3>1
    <3>4. \A u \in Threads : Len(nest'[u]) \in Nat
      <4>1. CASE UNCHANGED nest
        BY <1>0, <4>1
      <4>2. CASE nest' = [nest EXCEPT ![owner] = Front(nest[owner])] /\ owner \in Threads
        <5>1. Front(nest[owner]) \in Seq(Outcomes)
          BY <1>0, <4>2 DEF Front
        <5> QED BY <1>0, <1>1, <4>2, <5>1
      <4> QED BY <3>1, <4>1, <4>2
    <3> QED BY <1>0, <2>1, <3>2, <3>3, <3>4 DEF Unlocking
  <2>3. CASE nest[t] # <<>>
    <3>1. policy # "none"
      BY <2>3 DEF LwInv, Published
    <3>2. nest' = [nest EXCEPT ![t] = Front(nest[t])]
      BY <1>8, <2>3, <3>1 DEF Release, HostUnlock, Unlock
    <3>3. Len(nest'[t]) = Len(nest[t]) - 1
      BY <1>0, <1>1, <2>3, <3>2, FrontOf
    <3> QED BY <1>0, <1>1, <2>1, <3>2, <3>3 DEF Unlocking
  <2> QED BY <2>2, <2>3
<1>9. CASE CondWait(t)
  <2>1. inside' = [inside EXCEPT ![t] = SubSeq(inside[t], 1, Len(inside[t]) - Levels(t))]
        /\ ~Unlocking(t) /\ ~Unlocking(t)' /\ \A u \in Threads \ {t} : at'[u] = at[u]
    BY <1>1, <1>9 DEF CondWait, InGuest, Move, Unlocking
  <2>2. nest' = [nest EXCEPT ![t] = SubSeq(nest[t], 1, Len(nest[t]) - Levels(t))]
    <3>1. CASE owner = t
      BY <1>9, <3>1 DEF CondWait, ReleaseAll, Levels
    <3>2. CASE owner # t
      <4>1. SubSeq(nest[t], 1, Len(nest[t])) = nest[t]
        BY <1>0
      <4> QED BY <1>0, <1>1, <1>9, <3>2, <4>1 DEF CondWait, Levels, vars
    <3> QED BY <3>1, <3>2
  <2>3. Levels(t) \in Nat /\ Levels(t) <= Len(nest[t])
    BY <1>0 DEF LwInv, IInv, TypeOK, Balanced, Nesting, Levels
  <2>4. Len(nest'[t]) = Len(nest[t]) - Levels(t) /\ Len(inside'[t]) = Len(inside[t]) - Levels(t)
    <3>1. Len(nest[t]) <= Len(inside[t])
      BY <1>0, <2>1
    <3>2. Len(inside[t]) - Levels(t) \in Nat /\ Len(nest[t]) - Levels(t) \in Nat
      BY <1>0, <2>3, <3>1
    <3> QED BY <1>0, <1>1, <2>1, <2>2, <2>3, <3>2
  <2>5. Len(nest[t]) <= Len(inside[t])
    BY <1>0, <2>1
  <2>6. Len(nest'[t]) <= Len(inside'[t])
    BY <1>0, <2>3, <2>4, <2>5
  <2>7. ASSUME NEW u \in Threads, u # t
        PROVE  nest'[u] = nest[u] /\ inside'[u] = inside[u] /\ (Unlocking(u) <=> Unlocking(u)')
    BY <1>1, <2>1, <2>2, <2>7 DEF Unlocking
  <2>8. ASSUME NEW u \in Threads
        PROVE  \/ Len(nest'[u]) <= Len(inside'[u])
               \/ Unlocking(u)' /\ Len(nest'[u]) <= Len(inside'[u]) + 1
    <3>1. CASE u = t
      BY <2>6, <3>1
    <3>2. CASE u # t
      BY <1>0, <2>7, <3>2
    <3> QED BY <3>1, <3>2
  <2> QED BY <2>8
<1> QED BY <1>3, <1>4, <1>6, <1>7, <1>8, <1>9 DEF LwStep, Continue

(* Where every site is guarded, so is every call. *)
LEMMA GuardedCalls ==
  ASSUME LwInv, Guarded, NEW s \in setup.sites
  PROVE  Resolved(s) # "none"
<1>1. setup.sites \in SUBSET {"plain", "alloc", "strict"}
  BY LwSetupsAssumption DEF LwInv, LwTypes
<1> QED BY <1>1 DEF Guarded, Resolved

(* Where every site is guarded, guest and host nest alike, step by step. *)
LEMMA MirroredNext ==
  ASSUME LwInv, NEW t \in Threads, LwStep(t), setup' = setup
  PROVE  Mirrored'
<1> DEFINE Mirror(u) == /\ at[u] \in {"lock", "try"} => pol[u] # "none"
                        /\ IF Unlocking(u) THEN nest[u] # <<>> /\ inside[u] = Front(nest[u])
                           ELSE inside[u] = nest[u]
<1> SUFFICES ASSUME Guarded PROVE \A u \in Threads : Mirror(u)'
  BY DEF Mirrored, Guarded
<1>0. \A u \in Threads : Mirror(u)
  BY DEF LwInv, Mirrored
<1>1. at \in [Threads -> Stations] /\ pol \in [Threads -> Policies] /\ nest \in [Threads -> Seq(Outcomes)]
      /\ inside \in [Threads -> Seq(Outcomes \cup {"open"})] /\ owner \in Threads \cup {None}
  BY DEF LwInv, IInv, TypeOK, LwTypes
<1>2. ASSUME UNCHANGED <<nest, inside>>, NEW u \in Threads,
             at'[u] = at[u] \/ {at[u], at'[u]} \cap {"lock", "try", "uncount", "unlock"} = {}
                            \/ (at[u] \in {"lock", "try"} /\ at'[u] \in {"guest", "stamp"})
                            \/ (at[u] = "uncount" /\ at'[u] = "unlock"),
             pol'[u] = pol[u] \/ at'[u] \notin {"lock", "try"}
      PROVE  Mirror(u)'
  BY <1>0, <1>2 DEF Unlocking
<1>3. CASE Stamp(t) \/ Count(t) \/ Uncount(t) \/ Signal(t) \/ NotifyOne(t) \/ NotifyAll(t)
           \/ CondSleep(t) \/ CondWake(t) \/ CondExpire(t) \/ CondReturn(t)
  <2>1. UNCHANGED <<nest, inside>>
    BY <1>3 DEF Stamp, Count, Uncount, Signal, NotifyOne, NotifyAll, CondSleep, CondWake, CondExpire, Outwaited,
       CondReturn, vars
  <2>2. \A u \in Threads : at'[u] = at[u] \/ {at[u], at'[u]} \cap {"lock", "try", "uncount", "unlock"} = {}
                           \/ (at[u] = "uncount" /\ at'[u] = "unlock")
    BY <1>1, <1>3 DEF Stamp, Count, Uncount, Signal, NotifyOne, NotifyAll, CondSleep, CondWake, CondExpire, Outwaited,
       CondReturn, Move, InGuest
  <2>3. \A u \in Threads : pol'[u] = pol[u] \/ at'[u] \notin {"lock", "try"}
    BY <1>1, <1>3 DEF Stamp, Count, Uncount, Signal, NotifyOne, NotifyAll, CondSleep, CondWake, CondExpire, Outwaited,
       CondReturn, Move
  <2> HIDE DEF Mirror
  <2> QED BY <1>2, <2>1, <2>2, <2>3
<1>4. CASE SysLock(t) \/ SysTryLock(t)
  <2>1. UNCHANGED <<nest, inside>> /\ ~Unlocking(t) /\ ~Unlocking(t)' /\ pol'[t] # "none"
        /\ \A u \in Threads \ {t} : at'[u] = at[u] /\ pol'[u] = pol[u]
    BY <1>1, <1>4, GuardedCalls DEF SysLock, SysTryLock, Call, InGuest, Move, Unlocking, vars
  <2> QED BY <1>0, <2>1 DEF Unlocking
<1>5. CASE GoOpen(t)
  BY <1>0, <1>5 DEF GoOpen
<1>6. ASSUME ~Unlocking(t)', \A u \in Threads \ {t} : at'[u] = at[u] /\ pol'[u] = pol[u],
             at'[t] \notin {"lock", "try"}, ~Unlocking(t), Entered(t),
             Lock(t) \/ TryLock(t) \/ TryLockFor(t) \/ Wake(t) \/ SpuriousWake(t) \/ Timeout(t) \/ Notify(t)
      PROVE  \A u \in Threads : Mirror(u)'
  <2>1. inside[t] = nest[t]
    BY <1>0, <1>6
  <2>2. CASE UNCHANGED <<nest, inside>>
    BY <1>0, <1>6, <2>2 DEF Unlocking
  <2>3. ASSUME NEW o \in Outcomes, nest' = [nest EXCEPT ![t] = Append(nest[t], o)],
               inside' = [inside EXCEPT ![t] = Append(inside[t], o)]
        PROVE  \A u \in Threads : Mirror(u)'
    <3>1. inside'[t] = nest'[t] /\ \A u \in Threads \ {t} : inside'[u] = inside[u] /\ nest'[u] = nest[u]
      BY <1>1, <2>1, <2>3
    <3> QED BY <1>0, <1>6, <3>1 DEF Unlocking
  <2> HIDE DEF Mirror
  <2> QED BY <1>6, <2>2, <2>3, EnteredPairs
<1>7. CASE HostLock(t) \/ HostTryLock(t) \/ Relock(t)
  <2>1. ~Unlocking(t) /\ ~Unlocking(t)' /\ at'[t] \notin {"lock", "try"}
        /\ \A u \in Threads \ {t} : at'[u] = at[u] /\ pol'[u] = pol[u]
    BY <1>1, <1>7 DEF HostLock, HostTryLock, Relock, Move, Unlocking
  <2> HIDE DEF Mirror
  <2> QED BY <1>6, <1>7, <2>1 DEF HostLock, HostTryLock, Relock
<1>8. CASE HostProgress(t)
  <2>1. CASE Wake(t) \/ Timeout(t)
    <3>1. at[t] \in {"stamp", "relock"}
      BY <2>1 DEF LwInv, WaitsInCalls, Waiting, Wake, Timeout
    <3>2. UNCHANGED <<at, pol>>
      BY <1>8 DEF HostProgress
    <3> HIDE DEF Mirror
    <3> QED BY <1>6, <1>8, <2>1, <3>1, <3>2 DEF HostProgress, Unlocking
  <2>2. CASE SpuriousWake(t) \/ Notify(t)
    <3>1. UNCHANGED <<nest, at, pol>>
      BY <1>8, <2>2 DEF HostProgress, SpuriousWake, Notify
    <3>2. UNCHANGED inside
      BY <1>1, <1>8, <3>1 DEF HostProgress, Entered
    <3> QED BY <1>0, <3>1, <3>2 DEF Unlocking
  <2> QED BY <1>8, <2>1, <2>2 DEF HostProgress
<1>9. CASE SysUnlock(t)
  <2>1. UNCHANGED <<nest, pol>> /\ inside' = [inside EXCEPT ![t] = Front(inside[t])] /\ inside[t] # <<>>
        /\ ~Unlocking(t) /\ at' = [at EXCEPT ![t] = "uncount"]
    BY <1>1, <1>9 DEF SysUnlock, Move, InGuest, Unlocking, Guarded, vars
  <2> QED BY <1>0, <1>1, <2>1 DEF Unlocking
<1>10. CASE Release(t)
  <2>1. UNCHANGED <<inside, pol>> /\ Unlocking(t) /\ at' = [at EXCEPT ![t] = "guest"]
    BY <1>1, <1>10 DEF Release, Move, Unlocking
  <2>2. nest[t] # <<>> /\ inside[t] = Front(nest[t])
    BY <1>0, <2>1
  <2>3. policy # "none"
    BY <2>2 DEF LwInv, Published, Guarded
  <2>4. nest' = [nest EXCEPT ![t] = Front(nest[t])]
    BY <1>10, <2>2, <2>3 DEF Release, HostUnlock, Unlock
  <2> QED BY <1>0, <1>1, <2>1, <2>2, <2>4 DEF Unlocking
<1>11. CASE CondWait(t)
  <2>1. inside' = [inside EXCEPT ![t] = SubSeq(inside[t], 1, Len(inside[t]) - Levels(t))]
        /\ at[t] = "guest" /\ at' = [at EXCEPT ![t] = "cond"] /\ UNCHANGED pol
    BY <1>1, <1>11 DEF CondWait, InGuest, Move
  <2>2. nest' = [nest EXCEPT ![t] = SubSeq(nest[t], 1, Len(nest[t]) - Levels(t))]
    <3>1. CASE owner = t
      BY <1>11, <3>1 DEF CondWait, ReleaseAll, Levels
    <3>2. CASE owner # t
      <4>1. SubSeq(nest[t], 1, Len(nest[t])) = nest[t]
        BY <1>1
      <4> QED BY <1>1, <1>11, <3>2, <4>1 DEF CondWait, Levels, vars
    <3> QED BY <3>1, <3>2
  <2> QED BY <1>0, <1>1, <2>1, <2>2 DEF Unlocking
<1> QED BY <1>3, <1>4, <1>5, <1>7, <1>8, <1>9, <1>10, <1>11 DEF LwStep, Continue

(* Guest's locks and the host's shrink alike. *)
LEMMA LayersShrink ==
  ASSUME NEW ins \in Seq(Outcomes \cup {"open"}), NEW known \in Seq(Outcomes),
         OpenThen(ins, known), NEW k \in Nat, k <= Len(known)
  PROVE  OpenThen(SubSeq(ins, 1, Len(ins) - k), SubSeq(known, 1, Len(known) - k))
<1>1. PICK m \in Nat, n \in Nat : m = Len(ins) /\ n = Len(known) /\ n <= m /\ k <= n
  BY DEF OpenThen
<1>2. /\ Len(SubSeq(ins, 1, m - k)) = m - k
      /\ \A i \in 1 .. m - k : SubSeq(ins, 1, m - k)[i] = ins[i]
  BY <1>1
<1>3. /\ Len(SubSeq(known, 1, n - k)) = n - k
      /\ \A i \in 1 .. n - k : SubSeq(known, 1, n - k)[i] = known[i]
  BY <1>1
<1>4. ASSUME NEW i \in 1 .. m - k
      PROVE  SubSeq(ins, 1, m - k)[i] =
               IF i <= m - n THEN "open" ELSE SubSeq(known, 1, n - k)[i - (m - n)]
  <2>1. SubSeq(ins, 1, m - k)[i] = ins[i] /\ i \in 1 .. m
    BY <1>1, <1>2, <1>4
  <2>2. ins[i] = IF i <= m - n THEN "open" ELSE known[i - (m - n)]
    BY <1>1, <2>1 DEF OpenThen
  <2>3. CASE i > m - n
    <3>1. i - (m - n) \in 1 .. n - k
      BY <1>1, <1>4, <2>3
    <3> QED BY <1>1, <1>3, <2>1, <2>2, <2>3, <3>1
  <2> QED BY <1>1, <2>1, <2>2, <2>3
<1>5. (m - k) - (n - k) = m - n /\ n - k <= m - k
  BY <1>1
<1> QED BY <1>1, <1>2, <1>3, <1>4, <1>5 DEF OpenThen

(* One level of the host is one lock of the guest. *)
LEMMA LayersPop ==
  ASSUME NEW ins \in Seq(Outcomes \cup {"open"}), NEW known \in Seq(Outcomes),
         OpenThen(ins, known), known # <<>>
  PROVE  OpenThen(Front(ins), Front(known)) /\ ins # <<>>
<1>1. Len(known) \in Nat \ {0}
  BY FrontOf
<1>2. 1 <= Len(known)
  BY <1>1
<1>3. OpenThen(SubSeq(ins, 1, Len(ins) - 1), SubSeq(known, 1, Len(known) - 1))
  BY <1>2, LayersShrink
<1>4. Len(ins) # 0
  BY <1>2 DEF OpenThen
<1> QED BY <1>3, <1>4 DEF Front

(* A lock that was taken open is not the host's. *)
LEMMA OpenPops ==
  ASSUME NEW ins \in Seq(Outcomes \cup {"open"}), OpenThen(ins, <<>>), ins # <<>>
  PROVE  OpenThen(Front(ins), <<>>)
<1>1. PICK m \in Nat \ {0} : m = Len(ins)
  BY FrontOf
<1>2. /\ Len(SubSeq(ins, 1, m - 1)) = m - 1
      /\ \A i \in 1 .. m - 1 : SubSeq(ins, 1, m - 1)[i] = ins[i]
  BY <1>1
<1>3. \A i \in 1 .. m : ins[i] = "open"
  BY <1>1 DEF OpenThen
<1> QED BY <1>1, <1>2, <1>3 DEF OpenThen, Front

(* A lock the host gives is the last of both. *)
LEMMA LayersGrow ==
  ASSUME NEW ins \in Seq(Outcomes \cup {"open"}), NEW known \in Seq(Outcomes),
         OpenThen(ins, known), NEW o \in Outcomes
  PROVE  OpenThen(Append(ins, o), Append(known, o))
<1>1. PICK m \in Nat, n \in Nat : m = Len(ins) /\ n = Len(known) /\ n <= m
  BY DEF OpenThen
<1>2. Len(Append(ins, o)) = m + 1 /\ Append(ins, o)[m + 1] = o
      /\ \A i \in 1 .. m : Append(ins, o)[i] = ins[i]
  BY <1>1
<1>3. Len(Append(known, o)) = n + 1 /\ Append(known, o)[n + 1] = o
      /\ \A i \in 1 .. n : Append(known, o)[i] = known[i]
  BY <1>1
<1>4. ASSUME NEW i \in 1 .. m + 1
      PROVE  Append(ins, o)[i] = IF i <= m - n THEN "open" ELSE Append(known, o)[i - (m - n)]
  <2>1. CASE i = m + 1
    <3>1. i - (m - n) = n + 1 /\ ~(i <= m - n)
      BY <1>1, <2>1
    <3> QED BY <1>2, <1>3, <2>1, <3>1
  <2>2. CASE i # m + 1
    <3>1. i \in 1 .. m
      BY <1>1, <1>4, <2>2
    <3>2. ins[i] = IF i <= m - n THEN "open" ELSE known[i - (m - n)]
      BY <1>1, <3>1 DEF OpenThen
    <3>3. i > m - n => i - (m - n) \in 1 .. n
      BY <1>1, <3>1
    <3> QED BY <1>1, <1>2, <1>3, <3>1, <3>2, <3>3
  <2> QED BY <2>1, <2>2
<1>5. (m + 1) - (n + 1) = m - n /\ n + 1 <= m + 1
  BY <1>1
<1> QED BY <1>2, <1>3, <1>4, <1>5 DEF OpenThen

(* Nor is one that is taken open now. *)
LEMMA OpenGrows ==
  ASSUME NEW ins \in Seq(Outcomes \cup {"open"}), OpenThen(ins, <<>>)
  PROVE  OpenThen(Append(ins, "open"), <<>>)
<1>1. PICK m \in Nat : m = Len(ins)
  OBVIOUS
<1>2. Len(Append(ins, "open")) = m + 1 /\ Append(ins, "open")[m + 1] = "open"
      /\ \A i \in 1 .. m : Append(ins, "open")[i] = ins[i]
  BY <1>1
<1>3. \A i \in 1 .. m : ins[i] = "open"
  BY <1>1 DEF OpenThen
<1>4. \A i \in 1 .. m + 1 : Append(ins, "open")[i] = "open"
  BY <1>2, <1>3
<1> QED BY <1>2, <1>4 DEF OpenThen

(* Only an unlock of what a thread did not take takes a level of another's. *)
LEMMA StraysAreForeign ==
  ASSUME LwInv, NEW t \in Threads, LwStep(t), owner \notin {None, t}, depth' # depth
  PROVE  Release(t) /\ nest[t] = <<>>
BY DEF LwStep, Continue, SysLock, SysTryLock, Call, SysUnlock, Signal, CondWait, GoOpen, HostLock,
  HostTryLock, HostProgress, Stamp, Count, Uncount, Release, HostUnlock, NotifyOne, NotifyAll, CondSleep, CondWake,
  CondExpire, Outwaited, Relock, CondReturn, Lock, TryLock, TryLockFor, TakeNow, Uncontended, Enqueue, Wake,
  SpuriousWake, Timeout, TakeTurn, Ready, Unlock, ForeignUnlock, DropLevel, ReleaseAll, Notify, vars

(* So a thread's nesting in the host mutex is its own doing otherwise. *)
LEMMA NestOfOthers ==
  ASSUME LwInv, NEW t \in Threads, LwStep(t), NEW u \in Threads, u # t
  PROVE  nest'[u] = nest[u] \/ (owner = u /\ depth' # depth)
<1>1. nest \in [Threads -> Seq(Outcomes)] /\ owner \in Threads \cup {None} /\ depth \in Nat
  BY DEF LwInv, IInv, TypeOK
<1>2. CASE Release(t) /\ ForeignUnlock(t)
  <2>1. nest' = [nest EXCEPT ![owner] = Front(nest[owner])] /\ depth' = depth - 1
    BY <1>2 DEF ForeignUnlock, DropLevel
  <2> QED BY <1>1, <2>1
<1>3. CASE ~(Release(t) /\ ForeignUnlock(t))
  BY <1>1, <1>3 DEF LwStep, Continue, SysLock, SysTryLock, Call, SysUnlock, Signal, CondWait, GoOpen, HostLock,
    HostTryLock, HostProgress, Stamp, Count, Uncount, Release, HostUnlock, NotifyOne, NotifyAll, CondSleep, CondWake,
    CondExpire, Outwaited, Relock, CondReturn, Lock, TryLock, TryLockFor, TakeNow, Enqueue, Wake, SpuriousWake, Timeout,
    TakeTurn, Push, Unlock, ReleaseAll, Notify, vars
<1> QED BY <1>2, <1>3

(* What astray remembers. *)
LEMMA StraysTell ==
  ASSUME NEW t \in Threads, Strays(t)
  PROVE  /\ ~astray' => ~astray /\ (owner \in {None, t} \/ depth' = depth)
         /\ astray' => astray \/ (owner \notin {None, t} /\ depth' # depth)
BY Zenon DEF Strays

(* Where every site is guarded, every unlock is of what the host gave. *)
LEMMA NothingStraysNext ==
  ASSUME LwInv, NEW t \in Threads, LwStep(t), Strays(t), setup' = setup
  PROVE  NothingStrays'
<1> SUFFICES ASSUME Guarded, astray' PROVE FALSE
  BY DEF NothingStrays, Guarded
<1>1. ~astray
  BY DEF LwInv, NothingStrays
<1>2. Release(t) /\ nest[t] = <<>>
  BY <1>1, StraysTell, StraysAreForeign
<1>3. nest[t] # <<>>
  BY <1>2 DEF LwInv, Mirrored, Release, Unlocking
<1> QED BY <1>2, <1>3

(* Who holds the host mutex was given a policy, and so are all after it. *)
LEMMA OpenCallsNext ==
  ASSUME LwInv, NEW t \in Threads, LwStep(t), setup' = setup
  PROVE  OpenCalls'
<1> SUFFICES ASSUME ~LwmAll, NEW u \in Threads, at'[u] \in {"lock", "try"}, pol'[u] = "none"
             PROVE  nest'[u] = <<>>
  BY DEF OpenCalls
<1>1. at \in [Threads -> Stations] /\ pol \in [Threads -> Policies] /\ nest \in [Threads -> Seq(Outcomes)]
      /\ owner \in Threads \cup {None}
  BY DEF LwInv, IInv, TypeOK, LwTypes
<1>2. CASE SysLock(t) \/ SysTryLock(t)
  <2>1. UNCHANGED nest /\ \A v \in Threads \ {t} : at'[v] = at[v] /\ pol'[v] = pol[v]
    BY <1>1, <1>2 DEF SysLock, SysTryLock, Call, Move, vars
  <2>2. CASE u = t
    <3>1. policy = "none"
      BY <1>1, <1>2, <2>2 DEF SysLock, SysTryLock, Call, Resolved
    <3> QED BY <2>1, <3>1 DEF LwInv, Published
  <2>3. CASE u # t
    BY <2>1, <2>3 DEF LwInv, OpenCalls
  <2> QED BY <2>2, <2>3
<1>3. CASE ~(SysLock(t) \/ SysTryLock(t))
  <2>1. at[u] = at'[u] /\ pol[u] = pol'[u]
    BY <1>1, <1>3 DEF LwStep, Continue, SysUnlock, Signal, CondWait, GoOpen, HostLock, HostTryLock, HostProgress,
       Stamp, Count, Uncount, Release, NotifyOne, NotifyAll, CondSleep, CondWake, CondExpire, Outwaited, Relock,
       CondReturn, Move
  <2>2. nest[u] = <<>>
    BY <2>1 DEF LwInv, OpenCalls
  <2>3. CASE u # t
    <3>1. Nesting(nest[u], timed_out[u], Levels(u)) /\ timed_out[u] \in Nat /\ (owner = None <=> depth = 0)
          /\ Levels(u) \in Nat
      BY DEF LwInv, IInv, TypeOK, Balanced, Levels
    <3>2. Levels(u) = 0
      BY <2>2, <3>1 DEF Nesting
    <3>3. owner # u
      BY <3>1, <3>2, NoneAssumption DEF Levels
    <3> QED BY <2>2, <2>3, <3>3, NestOfOthers
  <2>4. CASE u = t
    <3>1. at[t] \in {"lock", "try"} /\ at'[t] = at[t] /\ pol[t] = "none"
      BY <2>1, <2>4
    <3>2. HostProgress(t)
      BY <1>1, <1>3, <3>1 DEF LwStep, Continue, SysUnlock, Signal, CondWait, GoOpen, HostLock, HostTryLock, Stamp,
         Count, Uncount, Release, NotifyOne, NotifyAll, CondSleep, CondWake, CondExpire, Outwaited, Relock,
         CondReturn, Move, InGuest
    <3>3. ~Waiting(t)
      BY <3>1 DEF LwInv, WaitsInCalls
    <3> QED BY <2>2, <2>4, <3>2, <3>3 DEF HostProgress, Wake, Timeout, Waiting, SpuriousWake, Notify
  <2> QED BY <2>3, <2>4
<1> QED BY <1>2, <1>3

(* While nothing strays, a guest's locks are open ones and those of the host *)
(* on them.                                                                  *)
LEMMA LayeredNext ==
  ASSUME LwInv, NEW t \in Threads, LwStep(t), Strays(t)
  PROVE  Layered'
<1> DEFINE Layer(u) == \/ OpenThen(inside[u], nest[u]) /\ (Unlocking(u) => nest[u] = <<>>)
                       \/ Unlocking(u) /\ nest[u] # <<>> /\ OpenThen(inside[u], Front(nest[u]))
<1> SUFFICES ASSUME ~LwmAll, ~astray' PROVE \A u \in Threads : Layer(u)'
  BY DEF Layered
<1>0. ~astray /\ (owner \in {None, t} \/ depth' = depth)
  BY StraysTell
<1>1. \A u \in Threads : Layer(u)
  BY <1>0 DEF LwInv, Layered
<1>2. at \in [Threads -> Stations] /\ nest \in [Threads -> Seq(Outcomes)]
      /\ inside \in [Threads -> Seq(Outcomes \cup {"open"})]
  BY DEF LwInv, IInv, TypeOK, LwTypes
<1>3. inside[t] \in Seq(Outcomes \cup {"open"}) /\ nest[t] \in Seq(Outcomes)
  BY <1>2
<1>4. ASSUME NEW u \in Threads, u # t
      PROVE  Layer(u)'
  <2>1. nest'[u] = nest[u]
    BY <1>0, <1>4, NestOfOthers, NoneAssumption
  <2>2. at'[u] = at[u] /\ inside'[u] = inside[u]
    BY <1>2, <1>4 DEF LwStep, Continue, SysLock, SysTryLock, Call, SysUnlock, Signal, CondWait, GoOpen, HostLock,
       HostTryLock, HostProgress, Entered, Stamp, Count, Uncount, Release, NotifyOne, NotifyAll, CondSleep, CondWake,
       CondExpire, Outwaited, Relock, CondReturn, Move
  <2> QED BY <1>1, <2>1, <2>2 DEF Unlocking
<1>5. ASSUME UNCHANGED <<nest, inside>> /\ (Unlocking(t) <=> Unlocking(t)')
      PROVE  Layer(t)'
  BY <1>1, <1>5
<1>6. ASSUME Stamp(t) \/ Count(t) \/ Uncount(t) \/ Signal(t) \/ NotifyOne(t) \/ NotifyAll(t)
           \/ CondSleep(t) \/ CondWake(t) \/ CondExpire(t) \/ CondReturn(t) \/ SysLock(t) \/ SysTryLock(t)
      PROVE  Layer(t)'
  <2>1. UNCHANGED <<nest, inside>> /\ (Unlocking(t) <=> Unlocking(t)')
    BY <1>2, <1>6 DEF Stamp, Count, Uncount, Signal, NotifyOne, NotifyAll, CondSleep, CondWake, CondExpire, Outwaited,
       CondReturn, SysLock, SysTryLock, Call, Move, InGuest, Unlocking, vars
  <2> HIDE DEF Layer
  <2> QED BY <1>5, <2>1
<1>7. ASSUME GoOpen(t)
      PROVE  Layer(t)'
  <2>1. nest[t] = <<>> /\ ~Unlocking(t) /\ UNCHANGED nest /\ inside'[t] = Append(inside[t], "open")
    BY <1>2, <1>7 DEF GoOpen, LwInv, OpenCalls, Unlocking, vars
  <2>2. OpenThen(inside[t], <<>>)
    BY <1>1, <2>1
  <2> QED BY <1>3, <2>1, <2>2, OpenGrows
<1>8. ASSUME HostLock(t) \/ HostTryLock(t) \/ HostProgress(t) \/ Relock(t)
      PROVE  Layer(t)'
  <2>1. Entered(t) /\ (\/ Lock(t) \/ TryLock(t) \/ TryLockFor(t) \/ Wake(t) \/ SpuriousWake(t) \/ Timeout(t)
                       \/ Notify(t))
    BY <1>8 DEF HostLock, HostTryLock, HostProgress, Relock
  <2>2. Unlocking(t) <=> Unlocking(t)'
    BY <1>2, <1>8 DEF HostLock, HostTryLock, HostProgress, Relock, Move, Unlocking
  <2>3. CASE UNCHANGED <<nest, inside>>
    <3> HIDE DEF Layer
    <3> QED BY <1>5, <2>2, <2>3
  <2>4. ASSUME NEW o \in Outcomes, nest' = [nest EXCEPT ![t] = Append(nest[t], o)],
               inside' = [inside EXCEPT ![t] = Append(inside[t], o)]
        PROVE  Layer(t)'
    <3>1. nest' # nest
      <4>1. Len(nest'[t]) = Len(nest[t]) + 1 /\ Len(nest[t]) \in Nat
        BY <1>2, <1>3, <2>4
      <4> QED BY <4>1
    <3>2. ~Unlocking(t)
      <4>1. CASE HostProgress(t)
        <5>1. Wake(t) \/ Timeout(t)
          BY <3>1, <4>1 DEF HostProgress, SpuriousWake, Notify
        <5> QED BY <5>1 DEF LwInv, WaitsInCalls, Waiting, Wake, Timeout, Unlocking
      <4>2. CASE ~HostProgress(t)
        BY <1>8, <4>2 DEF HostLock, HostTryLock, Relock, Unlocking
      <4> QED BY <4>1, <4>2
    <3>3. OpenThen(inside[t], nest[t])
      BY <1>1, <3>2
    <3>4. OpenThen(Append(inside[t], o), Append(nest[t], o))
      BY <1>3, <3>3, LayersGrow
    <3>5. nest'[t] = Append(nest[t], o) /\ inside'[t] = Append(inside[t], o)
      BY <1>2, <2>4
    <3> QED BY <2>2, <3>2, <3>4, <3>5
  <2> HIDE DEF Layer
  <2> QED BY <2>1, <2>3, <2>4, EnteredPairs
<1>9. ASSUME SysUnlock(t)
      PROVE  Layer(t)'
  <2>1. UNCHANGED nest /\ ~Unlocking(t) /\ Unlocking(t)'
    BY <1>2, <1>9 DEF SysUnlock, InGuest, Move, Unlocking, vars
  <2>2. OpenThen(inside[t], nest[t])
    BY <1>1, <2>1
  <2>3. CASE inside[t] = <<>> /\ UNCHANGED inside
    <3>1. Len(nest[t]) <= 0 /\ Len(nest[t]) \in Nat
      BY <1>3, <2>2, <2>3 DEF OpenThen
    <3>2. nest[t] = <<>>
      BY <1>3, <3>1, EmptySeq
    <3> QED BY <2>1, <2>2, <2>3, <3>2
  <2>4. CASE inside[t] # <<>> /\ inside' = [inside EXCEPT ![t] = Front(inside[t])]
    <3>1. inside'[t] = Front(inside[t])
      BY <1>2, <2>4
    <3>2. CASE nest[t] = <<>>
      <4>1. OpenThen(Front(inside[t]), <<>>)
        BY <1>3, <2>2, <2>4, <3>2, OpenPops
      <4> QED BY <2>1, <3>1, <3>2, <4>1
    <3>3. CASE nest[t] # <<>>
      <4>1. OpenThen(Front(inside[t]), Front(nest[t]))
        BY <1>3, <2>2, <3>3, LayersPop
      <4> QED BY <2>1, <3>1, <3>3, <4>1
    <3> QED BY <3>2, <3>3
  <2> QED BY <1>9, <2>3, <2>4 DEF SysUnlock
<1>10. ASSUME Release(t)
      PROVE  Layer(t)'
  <2>1. UNCHANGED inside /\ Unlocking(t) /\ ~Unlocking(t)'
    BY <1>2, <1>10 DEF Release, Move, Unlocking
  <2>2. CASE nest[t] = <<>>
    <3>1. ~ForeignUnlock(t)
      <4>1. depth \in Nat /\ (owner \in {None, t} \/ depth' = depth)
        BY <1>0 DEF LwInv, IInv, TypeOK
      <4> QED BY <4>1 DEF ForeignUnlock, DropLevel
    <3>2. UNCHANGED nest
      BY <1>10, <2>2, <3>1 DEF Release, HostUnlock, vars
    <3> QED BY <1>1, <2>1, <2>2, <3>2
  <2>3. CASE nest[t] # <<>>
    <3>1. policy # "none"
      BY <2>3 DEF LwInv, Published
    <3>2. nest' = [nest EXCEPT ![t] = Front(nest[t])]
      BY <1>10, <2>3, <3>1 DEF Release, HostUnlock, Unlock
    <3>3. OpenThen(inside[t], Front(nest[t]))
      BY <1>1, <2>1, <2>3
    <3>4. nest'[t] = Front(nest[t])
      BY <1>2, <3>2
    <3> QED BY <2>1, <3>3, <3>4
  <2> QED BY <2>2, <2>3
<1>11. ASSUME CondWait(t)
      PROVE  Layer(t)'
  <2>1. inside' = [inside EXCEPT ![t] = SubSeq(inside[t], 1, Len(inside[t]) - Levels(t))]
        /\ ~Unlocking(t) /\ ~Unlocking(t)'
    BY <1>2, <1>11 DEF CondWait, InGuest, Move, Unlocking
  <2>2. nest' = [nest EXCEPT ![t] = SubSeq(nest[t], 1, Len(nest[t]) - Levels(t))]
    <3>1. CASE owner = t
      BY <1>11, <3>1 DEF CondWait, ReleaseAll, Levels
    <3>2. CASE owner # t
      <4>1. SubSeq(nest[t], 1, Len(nest[t])) = nest[t]
        BY <1>3
      <4> QED BY <1>2, <1>3, <1>11, <3>2, <4>1 DEF CondWait, Levels, vars
    <3> QED BY <3>1, <3>2
  <2>3. Levels(t) \in Nat /\ Levels(t) <= Len(nest[t])
    BY <1>3 DEF LwInv, IInv, TypeOK, Balanced, Nesting, Levels
  <2>4. OpenThen(inside[t], nest[t])
    BY <1>1, <2>1
  <2>5. OpenThen(SubSeq(inside[t], 1, Len(inside[t]) - Levels(t)), SubSeq(nest[t], 1, Len(nest[t]) - Levels(t)))
    BY <1>3, <2>3, <2>4, LayersShrink
  <2>6. inside'[t] = SubSeq(inside[t], 1, Len(inside[t]) - Levels(t))
        /\ nest'[t] = SubSeq(nest[t], 1, Len(nest[t]) - Levels(t))
    BY <1>2, <2>1, <2>2
  <2> QED BY <2>1, <2>5, <2>6
<1>12. Layer(t)'
  <2> HIDE DEF Layer
  <2> QED BY <1>6, <1>7, <1>8, <1>9, <1>10, <1>11 DEF LwStep, Continue
<1> QED BY <1>4, <1>12

(* No step of the layer breaks its invariant. *)
LEMMA LwInductive == LwInv /\ [LwNext]_lwVars => LwInv'
<1>1. ASSUME LwInv, NEW t \in Threads, LwStep(t), Strays(t), setup' = setup
      PROVE  LwInv'
  <2>1. Step(t) \/ UNCHANGED vars
    BY <1>1, HostSteps
  <2>2. IInv'
    BY <1>1, <2>1, NextIInv DEF LwInv, Next
  <2>3. LwTypes' /\ SignalsShow' /\ TimeoutMeansNoSignal' /\ WaitsInCalls' /\ Published'
    BY <1>1, LwTypesNext, SignalsNext, WaitsNext, PublishedNext
  <2>4. Counted' /\ Mirrored' /\ OpenCalls' /\ Layered' /\ NothingStrays' /\ NobodyLate'
    BY <1>1, NobodyLateNext, CountedNext, MirroredNext, OpenCallsNext, LayeredNext, NothingStraysNext
  <2> QED BY <2>2, <2>3, <2>4 DEF LwInv
<1>2. ASSUME LwInv, UNCHANGED lwVars
      PROVE  LwInv'
  <2>1. UNCHANGED vars
    BY <1>2 DEF lwVars
  <2>2. IInv'
    BY <1>2, <2>1, NextIInv DEF LwInv
  <2> QED BY <1>2, <2>2 DEF lwVars, vars, condVars, LwInv, LwTypes, SignalsShow, TimeoutMeansNoSignal, WaitsInCalls,
       Waiting, Published, Counted, Unlocking, Mirrored, OpenCalls, Layered, NothingStrays, NobodyLate, Guarded
<1> QED BY <1>1, <1>2 DEF LwNext

(* The invariant makes the lwmutex a mutex. *)
LEMMA LwInvExcludes == LwInv => LwMutexExcludes
<1> SUFFICES ASSUME LwInv PROVE LwMutexExcludes
  OBVIOUS
<1>1. \A t \in Threads : /\ nest[t] \in Seq(Outcomes) /\ inside[t] \in Seq(Outcomes \cup {"open"})
                         /\ Nesting(nest[t], timed_out[t], Levels(t)) /\ timed_out[t] \in Nat /\ Levels(t) \in Nat
  BY DEF LwInv, IInv, TypeOK, LwTypes, Balanced, Levels
<1>2. ASSUME ~LwmAll, ~astray, NEW t \in Threads, Holds(t, "got")
      PROVE  owner = t
  <2>1. PICK i \in DOMAIN inside[t] : inside[t][i] = "got"
    BY <1>2 DEF Holds, Range
  <2>2. i \in 1 .. Len(inside[t]) /\ Len(inside[t]) \in Nat /\ Len(nest[t]) \in Nat
    BY <1>1, <2>1
  <2>3. \E k \in 1 .. Len(nest[t]) : nest[t][k] = "got"
    <3>1. CASE OpenThen(inside[t], nest[t])
      <4>1. ~(i <= Len(inside[t]) - Len(nest[t])) /\ nest[t][i - (Len(inside[t]) - Len(nest[t]))] = "got"
        BY <2>1, <2>2, <3>1 DEF OpenThen
      <4>2. PICK l \in Nat, n \in Nat : l = Len(inside[t]) /\ n = Len(nest[t])
        BY <2>2
      <4>3. i \in 1 .. l /\ ~(i <= l - n)
        BY <2>2, <4>1, <4>2
      <4>4. i - (l - n) \in 1 .. n
        BY <4>3
      <4> QED BY <4>1, <4>2, <4>4
    <3>2. CASE nest[t] # <<>> /\ OpenThen(inside[t], Front(nest[t]))
      <4>1. PICK n \in Nat : n = Len(nest[t]) - 1
        BY <1>1, <3>2, FrontOf
      <4>2. Len(Front(nest[t])) = n /\ \A k \in 1 .. n : Front(nest[t])[k] = nest[t][k]
        BY <1>1, <3>2, <4>1 DEF Front
      <4>3. ~(i <= Len(inside[t]) - n) /\ Front(nest[t])[i - (Len(inside[t]) - n)] = "got"
        BY <2>1, <2>2, <3>2, <4>2 DEF OpenThen
      <4>4. PICK l \in Nat : l = Len(inside[t])
        BY <2>2
      <4>5. i \in 1 .. l /\ ~(i <= l - n)
        BY <2>2, <4>3, <4>4
      <4>6. i - (l - n) \in 1 .. n
        BY <4>5
      <4>7. i - (l - n) \in 1 .. Len(nest[t])
        <5>1. PICK m \in Nat : m = Len(nest[t]) /\ n = m - 1
          BY <2>2, <4>1
        <5>2. PICK x \in 1 .. n : x = i - (l - n)
          BY <4>6
        <5>3. m \in Nat /\ n \in Nat /\ n <= m
          BY <4>1, <5>1
        <5>4. x \in 1 .. m
          BY <5>2, <5>3
        <5> QED BY <5>1, <5>2, <5>4
      <4> QED BY <4>2, <4>3, <4>4, <4>6, <4>7
    <3> QED BY <1>2, <3>1, <3>2 DEF LwInv, Layered
  <2>4. Levels(t) > 0
    BY <1>1, <2>3 DEF Nesting
  <2> QED BY <2>4 DEF Levels
<1>3. ASSUME Guarded, ~setup.locksExpire, NEW t \in Threads, inside[t] # <<>>
      PROVE  owner = t
  <2>1. inside[t] = nest[t] \/ (nest[t] # <<>> /\ inside[t] = Front(nest[t]))
    BY <1>3 DEF LwInv, Mirrored
  <2>2. nest[t] # <<>> /\ timed_out[t] = 0
    BY <1>3, <2>1 DEF LwInv, NobodyLate
  <2>3. Len(nest[t]) > 0
    BY <1>1, <2>2, EmptySeq
  <2>4. Levels(t) > 0
    BY <1>1, <2>2, <2>3 DEF Nesting
  <2> QED BY <2>4 DEF Levels
<1>4. SerializedCallersExclude
  BY <1>2 DEF SerializedCallersExclude
<1>5. GuestExclusion
  BY <1>3 DEF GuestExclusion
<1> QED BY <1>4, <1>5 DEF LwMutexExcludes, LwInv

(* The invariant and the safety properties of the runs. *)
THEOREM LwInvAlways == LwSpec => []LwInv
BY InitLw, LwInductive, PTL DEF LwSpec

(* For every set of call sites: those that hold the host mutex of an lwmutex *)
(* exclude each other until a level is released by a thread that has not     *)
(* taken it; with guarded sites no level ever is, and everybody is excluded  *)
(* while deadlines are kept.                                                 *)
THEOREM LwMutexIsAMutex == LwSpec => []LwMutexExcludes
BY LwInvAlways, LwInvExcludes, PTL

(* A wait on the lwcond times out only if nobody signalled meanwhile. *)
THEOREM TimeoutsAreHonest == LwSpec => []TimeoutMeansNoSignal
<1>1. LwInv => TimeoutMeansNoSignal
  BY DEF LwInv
<1> QED BY <1>1, LwInvAlways, PTL

(* Whoever unlocks all it locked has given the host mutex back. *)
THEOREM LastUnlockFrees == LwSpec => [](~LwmAll => LastUnlockFreesHost)
<1>1. ASSUME LwInv, ~LwmAll, NEW t \in Threads, InGuest(t), inside[t] = <<>>
      PROVE  owner # t
  <2>1. nest[t] \in Seq(Outcomes) /\ at[t] = "guest" /\ Len(inside[t]) = 0
    BY <1>1 DEF LwInv, InGuest, IInv, TypeOK
  <2>2. Len(nest[t]) = 0
    BY <1>1, <2>1 DEF LwInv, Counted, Unlocking
  <2>3. Nesting(nest[t], timed_out[t], Levels(t)) /\ timed_out[t] \in Nat /\ Levels(t) \in Nat
        /\ (owner = None <=> depth = 0) /\ depth \in Nat
    BY <1>1 DEF LwInv, IInv, TypeOK, Balanced, Levels
  <2>4. Levels(t) = 0
    BY <2>2, <2>3 DEF Nesting
  <2> QED BY <2>3, <2>4, NoneAssumption DEF Levels
<1>2. LwInv => (~LwmAll => LastUnlockFreesHost)
  BY <1>1 DEF LastUnlockFreesHost
<1> QED BY <1>2, LwInvAlways, PTL
====

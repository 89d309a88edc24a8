-------------------------- MODULE RateLimiterProofs --------------------------
(***************************************************************************)
(* Theorems about RateLimiter for every finite set of callers and every    *)
(* limit and window.                                                       *)
(***************************************************************************)
EXTENDS RateLimiter, FiniteSetTheorems, TLAPS

\* No instant is ahead of the clock, and no grant precedes its own instant.
InstantsOrdered ==
  /\ \A c \in Callers : now[c] <= clock
  /\ \A g \in granted : g.stamp <= g.at /\ g.at <= clock

\* The bound of LimitPerWindow, for every window.
WindowsBounded ==
  \A x \in Nat :
    IsFiniteSet(WithinWindow(x)) /\ Cardinality(WithinWindow(x)) <= Limit

\* The strengthening of TypeOK, AtMostLimitHeld and KeepsRecent.
IInv ==
  /\ TypeOK
  /\ IsFiniteSet(granted)
  /\ InstantsOrdered
  /\ AtMostLimitHeld
  /\ KeepsRecent
  /\ WindowsBounded

\* What a caller's critical section keeps of the list: a finite part of it,
\* with every grant that is less than a window old.
LEMMA RetainKeepsRecent ==
  ASSUME IInv, NEW c \in Callers
  PROVE  /\ Retain(now[c]) \subseteq timestamps
         /\ IsFiniteSet(Retain(now[c]))
         /\ Cardinality(Retain(now[c])) \in Nat
         /\ Cardinality(Retain(now[c])) <= Limit
         /\ \A g \in granted : clock - g.stamp < Window => g \in Retain(now[c])
<1>1. Retain(now[c]) \subseteq timestamps
  BY DEF Retain
<1>2. /\ IsFiniteSet(Retain(now[c]))
      /\ Cardinality(Retain(now[c])) <= Cardinality(timestamps)
  BY <1>1, FS_Subset DEF IInv, AtMostLimitHeld
<1>3. Cardinality(Retain(now[c])) \in Nat /\ Cardinality(timestamps) \in Nat
  BY <1>2, FS_CardinalityType DEF IInv, AtMostLimitHeld
<1>4. ASSUME NEW g \in granted, clock - g.stamp < Window
      PROVE  g \in Retain(now[c])
  <2>1. g \in timestamps
    BY <1>4 DEF IInv, KeepsRecent
  <2>2. g.stamp \in Nat /\ now[c] \in Nat /\ now[c] <= clock /\ clock \in Nat
        /\ g.stamp <= clock /\ Window \in Nat
    BY RateLimiterAssumption
       DEF IInv, TypeOK, InstantsOrdered, Grant, RateLimiterAssumption
  <2>3. DurationSince(now[c], g.stamp) < Window
    BY <1>4, <2>2 DEF DurationSince
  <2> QED
    BY <2>1, <2>3 DEF Retain
<1> QED
  BY <1>1, <1>2, <1>3, <1>4, RateLimiterAssumption
     DEF IInv, AtMostLimitHeld, RateLimiterAssumption

\* Windows stay bounded: a window the clock is still in has all its grants in
\* the list, a window it has left gets no more.
LEMMA WindowsStayBounded ==
  ASSUME IInv, TypeOK', AtMostLimitHeld', KeepsRecent',
         clock' \in Nat, clock <= clock',
         \A g \in granted' : g \in granted \/ (g.at = clock /\ clock' = clock),
         granted \subseteq granted'
  PROVE  WindowsBounded'
<1> SUFFICES ASSUME NEW x \in Nat
             PROVE  /\ IsFiniteSet(WithinWindow(x)')
                    /\ Cardinality(WithinWindow(x)') <= Limit
  BY DEF WindowsBounded
<1>0. Window \in Nat /\ Limit \in Nat /\ clock \in Nat
  BY RateLimiterAssumption DEF RateLimiterAssumption, IInv, TypeOK
<1>1. CASE clock' < x + Window
  <2>1. WithinWindow(x)' \subseteq timestamps'
    <3> SUFFICES ASSUME NEW g \in granted', x <= g.stamp
                 PROVE  g \in timestamps'
      BY DEF WithinWindow
    <3>1. g.stamp \in Nat
      BY DEF TypeOK, Grant
    <3> QED
      BY <1>0, <1>1, <3>1 DEF KeepsRecent
  <2>2. IsFiniteSet(timestamps') /\ Cardinality(timestamps') <= Limit
    BY DEF AtMostLimitHeld
  <2>3. /\ IsFiniteSet(WithinWindow(x)')
        /\ Cardinality(WithinWindow(x)') <= Cardinality(timestamps')
    BY <2>1, <2>2, FS_Subset
  <2>4. Cardinality(WithinWindow(x)') \in Nat /\ Cardinality(timestamps') \in Nat
    BY <2>2, <2>3, FS_CardinalityType
  <2> QED
    BY <1>0, <2>2, <2>3, <2>4
<1>2. CASE ~(clock' < x + Window)
  <2>1. WithinWindow(x)' = WithinWindow(x)
    <3>1. ASSUME NEW g \in granted', g.at < x + Window PROVE g \in granted
      BY <1>0, <1>2, <3>1
    <3> QED
      BY <3>1 DEF WithinWindow
  <2> QED
    BY <2>1 DEF IInv, WindowsBounded
<1> QED
  BY <1>1, <1>2

\* Every reachable state satisfies the strengthening.
LEMMA Inductive == Spec => []IInv
<1>0. Limit \in Nat /\ Window \in Nat /\ MaxClock \in Nat
  BY RateLimiterAssumption DEF RateLimiterAssumption
<1>1. Init => IInv
  <2> SUFFICES ASSUME Init PROVE IInv
    OBVIOUS
  <2>1. \A x \in Nat : WithinWindow(x) = {}
    BY DEF Init, WithinWindow
  <2> QED
    BY <1>0, <2>1, FS_EmptySet DEF Init, IInv, TypeOK, InstantsOrdered,
       AtMostLimitHeld, KeepsRecent, WindowsBounded
<1>2. IInv /\ [Next]_vars => IInv'
  <2> SUFFICES ASSUME IInv, [Next]_vars PROVE IInv'
    OBVIOUS
  <2>1. CASE Tick
    <3>1. TypeOK' /\ IsFiniteSet(granted') /\ AtMostLimitHeld'
      BY <2>1 DEF Tick, IInv, TypeOK, AtMostLimitHeld
    <3>2. InstantsOrdered'
      BY <2>1 DEF Tick, IInv, TypeOK, InstantsOrdered, Grant
    <3>3. KeepsRecent'
      BY <1>0, <2>1 DEF Tick, IInv, TypeOK, KeepsRecent, Grant
    <3>4. WindowsBounded'
      BY <2>1, <3>1, <3>3, WindowsStayBounded DEF Tick, IInv, TypeOK
    <3> QED
      BY <3>1, <3>2, <3>3, <3>4 DEF IInv
  <2>2. ASSUME NEW c \in Callers, ReadClock(c) PROVE IInv'
    <3>1. TypeOK' /\ IsFiniteSet(granted') /\ AtMostLimitHeld'
      BY <2>2 DEF ReadClock, IInv, TypeOK, AtMostLimitHeld
    <3>2. InstantsOrdered' /\ KeepsRecent'
      BY <2>2 DEF ReadClock, IInv, TypeOK, InstantsOrdered, KeepsRecent
    <3>3. WindowsBounded'
      BY <2>2 DEF ReadClock, IInv, WindowsBounded, WithinWindow
    <3> QED
      BY <3>1, <3>2, <3>3 DEF IInv
  <2>3. ASSUME NEW c \in Callers, GrantCall(c) PROVE IInv'
    <3> DEFINE kept == Retain(now[c])
               new  == [serial |-> Cardinality(granted), stamp |-> now[c],
                        at |-> clock]
    <3>1. /\ timestamps' = kept \cup {new} /\ granted' = granted \cup {new}
          /\ Cardinality(kept) < Limit /\ clock' = clock /\ now' = now
          /\ pc' = [pc EXCEPT ![c] = "idle"]
      BY <2>3 DEF GrantCall
    <3>2. /\ new \in Grant /\ new.stamp = now[c] /\ new.at = clock
          /\ now[c] \in Nat /\ now[c] <= clock
      <4>1. Cardinality(granted) \in Nat
        BY FS_CardinalityType DEF IInv
      <4> QED
        BY <4>1 DEF IInv, TypeOK, Grant, InstantsOrdered
    <3>3. /\ kept \subseteq timestamps
          /\ IsFiniteSet(kept)
          /\ Cardinality(kept) \in Nat
          /\ \A g \in granted : clock - g.stamp < Window => g \in kept
      BY RetainKeepsRecent
    <3> HIDE DEF kept, new
    <3>4. TypeOK'
      BY <3>1, <3>2, <3>3 DEF IInv, TypeOK
    <3>5. IsFiniteSet(granted')
      BY <3>1, FS_AddElement DEF IInv
    <3>6. InstantsOrdered'
      BY <3>1, <3>2 DEF IInv, InstantsOrdered, TypeOK
    <3>7. AtMostLimitHeld'
      <4>1. /\ IsFiniteSet(kept \cup {new})
            /\ \/ Cardinality(kept \cup {new}) = Cardinality(kept)
               \/ Cardinality(kept \cup {new}) = Cardinality(kept) + 1
        BY <3>3, FS_AddElement
      <4> QED
        BY <1>0, <3>1, <3>3, <4>1 DEF AtMostLimitHeld
    <3>8. KeepsRecent'
      BY <3>1, <3>3 DEF KeepsRecent
    <3>9. WindowsBounded'
      BY <3>1, <3>2, <3>4, <3>7, <3>8, WindowsStayBounded DEF IInv, TypeOK
    <3> QED
      BY <3>4, <3>5, <3>6, <3>7, <3>8, <3>9 DEF IInv
  <2>4. ASSUME NEW c \in Callers, RefuseCall(c) PROVE IInv'
    <3>1. /\ timestamps' = Retain(now[c]) /\ UNCHANGED <<clock, now, granted>>
          /\ pc' = [pc EXCEPT ![c] = "idle"]
      BY <2>4 DEF RefuseCall
    <3>2. TypeOK' /\ IsFiniteSet(granted') /\ InstantsOrdered'
      BY <3>1, RetainKeepsRecent DEF IInv, TypeOK, InstantsOrdered
    <3>3. AtMostLimitHeld' /\ KeepsRecent'
      BY <3>1, RetainKeepsRecent DEF AtMostLimitHeld, KeepsRecent
    <3>4. WindowsBounded'
      BY <3>1 DEF IInv, WindowsBounded, WithinWindow
    <3> QED
      BY <3>2, <3>3, <3>4 DEF IInv
  <2>5. CASE UNCHANGED vars
    BY <2>5 DEF vars, IInv, TypeOK, InstantsOrdered, AtMostLimitHeld,
                KeepsRecent, WindowsBounded, WithinWindow
  <2> QED
    BY <2>1, <2>2, <2>3, <2>4, <2>5 DEF Next
<1> QED
  BY <1>1, <1>2, PTL DEF Spec

\* The variables keep their types.
THEOREM TypeCorrect == Spec => []TypeOK
BY Inductive, PTL DEF IInv

\* The list stays within the limit.
THEOREM ListBounded == Spec => []AtMostLimitHeld
BY Inductive, PTL DEF IInv

\* No interleaving of stale readers drops a grant that is less than a window
\* old.
THEOREM RecentKept == Spec => []KeepsRecent
BY Inductive, PTL DEF IInv

\* Calls that run acquire within one window keep its limit.
THEOREM LimitHolds == Spec => []LimitPerWindow
<1>1. IInv => LimitPerWindow
  BY RateLimiterAssumption
     DEF IInv, WindowsBounded, LimitPerWindow, RateLimiterAssumption
<1> QED
  BY <1>1, Inductive, PTL
-----------------------------------------------------------------------------
(* The overshoot.                                                          *)

\* The grants made at x or later by calls that read the clock before x, and
\* the callers that still may make one.
Late(x) == {g \in granted : g.stamp < x /\ x <= g.at}
Waiting(x) == {c \in Callers : pc[c] = "locking" /\ now[c] < x}

\* At most one late grant for every caller that was waiting at x.
LateBounded ==
  \A x \in Nat :
    x <= clock =>
      /\ IsFiniteSet(Late(x))
      /\ Cardinality(Late(x)) + Cardinality(Waiting(x)) <= Cardinality(Callers)

\* The callers that wait are some of the callers.
LEMMA WaitingFinite ==
  ASSUME NEW x
  PROVE  /\ IsFiniteSet(Waiting(x)) /\ Cardinality(Waiting(x)) \in Nat
         /\ Cardinality(Callers) \in Nat
         /\ Cardinality(Waiting(x)) <= Cardinality(Callers)
<1>1. IsFiniteSet(Callers) /\ Waiting(x) \subseteq Callers
  BY RateLimiterAssumption DEF RateLimiterAssumption, Waiting
<1>2. /\ IsFiniteSet(Waiting(x))
      /\ Cardinality(Waiting(x)) <= Cardinality(Callers)
  BY <1>1, FS_Subset
<1> QED
  BY <1>1, <1>2, FS_CardinalityType

\* A step on which no late grant is made and nobody starts to wait.
LEMMA LateUnchanged ==
  ASSUME NEW x \in Nat, x <= clock, LateBounded,
         Late(x)' = Late(x), Waiting(x)' \subseteq Waiting(x)
  PROVE  /\ IsFiniteSet(Late(x)')
         /\ Cardinality(Late(x)') + Cardinality(Waiting(x)')
              <= Cardinality(Callers)
<1>1. /\ IsFiniteSet(Late(x))
      /\ Cardinality(Late(x)) + Cardinality(Waiting(x)) <= Cardinality(Callers)
  BY DEF LateBounded
<1>2. /\ IsFiniteSet(Waiting(x)')
      /\ Cardinality(Waiting(x)') <= Cardinality(Waiting(x))
  BY WaitingFinite, FS_Subset
<1>3. /\ Cardinality(Late(x)) \in Nat /\ Cardinality(Waiting(x)') \in Nat
      /\ Cardinality(Waiting(x)) \in Nat /\ Cardinality(Callers) \in Nat
  BY <1>1, <1>2, WaitingFinite, FS_CardinalityType
<1> QED
  BY <1>1, <1>2, <1>3

\* Every reachable state bounds the late grants.
LEMMA LateInductive == Spec => []LateBounded
<1>1. Init => LateBounded
  <2> SUFFICES ASSUME Init, NEW x \in Nat
               PROVE  /\ IsFiniteSet(Late(x))
                      /\ Cardinality(Late(x)) + Cardinality(Waiting(x))
                           <= Cardinality(Callers)
    BY DEF LateBounded
  <2>1. Late(x) = {}
    BY DEF Init, Late
  <2> QED
    BY <2>1, WaitingFinite, FS_EmptySet
<1>2. IInv /\ LateBounded /\ [Next]_vars => LateBounded'
  <2> SUFFICES ASSUME IInv, LateBounded, [Next]_vars, NEW x \in Nat, x <= clock'
               PROVE  /\ IsFiniteSet(Late(x)')
                      /\ Cardinality(Late(x)') + Cardinality(Waiting(x)')
                           <= Cardinality(Callers)
    BY DEF LateBounded
  <2>0. clock \in Nat /\ pc \in [Callers -> {"idle", "locking"}]
        /\ now \in [Callers -> Nat]
    BY DEF IInv, TypeOK
  <2>1. CASE Tick
    <3>1. Late(x)' = Late(x) /\ Waiting(x)' = Waiting(x)
      BY <2>1 DEF Tick, Late, Waiting
    <3>2. CASE x <= clock
      BY <3>1, <3>2, LateUnchanged
    <3>3. CASE ~(x <= clock)
      <4>1. Late(x)' = {}
        BY <2>0, <3>1, <3>3 DEF Late, IInv, InstantsOrdered, TypeOK, Grant
      <4> QED
        BY <3>1, <4>1, WaitingFinite, FS_EmptySet
    <3> QED
      BY <3>2, <3>3
  <2>2. ASSUME NEW c \in Callers, ReadClock(c) PROVE
          x <= clock /\ Late(x)' = Late(x) /\ Waiting(x)' \subseteq Waiting(x)
    BY <2>0, <2>2 DEF ReadClock, Late, Waiting
  <2>3. ASSUME NEW c \in Callers, GrantCall(c), ~(now[c] < x) PROVE
          x <= clock /\ Late(x)' = Late(x) /\ Waiting(x)' \subseteq Waiting(x)
    BY <2>0, <2>3 DEF GrantCall, Late, Waiting
  <2>4. ASSUME NEW c \in Callers, GrantCall(c), now[c] < x
        PROVE  /\ IsFiniteSet(Late(x)')
               /\ Cardinality(Late(x)') + Cardinality(Waiting(x)')
                    <= Cardinality(Callers)
    <3> DEFINE new == [serial |-> Cardinality(granted), stamp |-> now[c],
                       at |-> clock]
    <3>1. x <= clock /\ c \in Waiting(x)
      BY <2>4 DEF GrantCall, Waiting
    <3>2. Late(x)' = Late(x) \cup {new}
      BY <2>4, <3>1 DEF GrantCall, Late
    <3>3. Waiting(x)' = Waiting(x) \ {c}
      BY <2>0, <2>4 DEF GrantCall, Waiting
    <3> HIDE DEF new
    <3>4. /\ IsFiniteSet(Late(x))
          /\ Cardinality(Late(x)) + Cardinality(Waiting(x))
               <= Cardinality(Callers)
      BY <3>1 DEF LateBounded
    <3>5. /\ IsFiniteSet(Late(x) \cup {new})
          /\ \/ Cardinality(Late(x) \cup {new}) = Cardinality(Late(x))
             \/ Cardinality(Late(x) \cup {new}) = Cardinality(Late(x)) + 1
      BY <3>4, FS_AddElement
    <3>6. Cardinality(Waiting(x) \ {c}) = Cardinality(Waiting(x)) - 1
      BY <3>1, WaitingFinite, FS_RemoveElement
    <3>7. /\ Cardinality(Late(x)) \in Nat /\ Cardinality(Waiting(x)) \in Nat
          /\ Cardinality(Callers) \in Nat
      BY <3>4, WaitingFinite, FS_CardinalityType
    <3> QED
      BY <3>2, <3>3, <3>4, <3>5, <3>6, <3>7
  <2>5. ASSUME NEW c \in Callers, RefuseCall(c) PROVE
          x <= clock /\ Late(x)' = Late(x) /\ Waiting(x)' \subseteq Waiting(x)
    BY <2>0, <2>5 DEF RefuseCall, Late, Waiting
  <2>6. CASE UNCHANGED vars
    <3>1. x <= clock /\ Late(x)' = Late(x) /\ Waiting(x)' \subseteq Waiting(x)
      BY <2>6 DEF vars, Late, Waiting
    <3> QED
      BY <3>1, LateUnchanged
  <2> QED
    BY <2>1, <2>2, <2>3, <2>4, <2>5, <2>6, LateUnchanged DEF Next
<1> QED
  BY <1>1, <1>2, Inductive, PTL DEF Spec

\* A window holds at most limit grants and one more for every caller.
THEOREM OvershootBounded == Spec => []BoundedOvershoot
<1>1. IInv /\ LateBounded => BoundedOvershoot
  <2> SUFFICES ASSUME IInv, LateBounded, NEW x \in 0..MaxClock
               PROVE  Cardinality(MadeWithin(x)) <= Limit + Cardinality(Callers)
    BY DEF BoundedOvershoot
  <2>0. x \in Nat /\ Limit \in Nat /\ clock \in Nat
    BY RateLimiterAssumption DEF RateLimiterAssumption, IInv, TypeOK
  <2>1. /\ IsFiniteSet(WithinWindow(x)) /\ Cardinality(WithinWindow(x)) <= Limit
        /\ Cardinality(WithinWindow(x)) \in Nat
    BY <2>0, FS_CardinalityType DEF IInv, WindowsBounded
  <2>2. /\ IsFiniteSet(Late(x)) /\ Cardinality(Late(x)) <= Cardinality(Callers)
        /\ Cardinality(Late(x)) \in Nat /\ Cardinality(Callers) \in Nat
    <3>1. CASE x <= clock
      <4>1. /\ IsFiniteSet(Late(x))
            /\ Cardinality(Late(x)) + Cardinality(Waiting(x))
                 <= Cardinality(Callers)
        BY <2>0, <3>1 DEF LateBounded
      <4>2. Cardinality(Late(x)) \in Nat
        BY <4>1, FS_CardinalityType
      <4> QED
        BY <4>1, <4>2, WaitingFinite
    <3>2. CASE ~(x <= clock)
      <4>1. Late(x) = {}
        BY <2>0, <3>2 DEF Late, IInv, InstantsOrdered, TypeOK, Grant
      <4> QED
        BY <4>1, WaitingFinite, FS_EmptySet
    <3> QED
      BY <3>1, <3>2
  <2>3. MadeWithin(x) \subseteq WithinWindow(x) \cup Late(x)
    BY <2>0 DEF MadeWithin, WithinWindow, Late, IInv, TypeOK, Grant
  <2>4. /\ IsFiniteSet(WithinWindow(x) \cup Late(x))
        /\ Cardinality(WithinWindow(x) \cup Late(x))
             <= Cardinality(WithinWindow(x)) + Cardinality(Late(x))
    <3>1. WithinWindow(x) \cap Late(x) \in SUBSET Late(x)
      OBVIOUS
    <3>2. IsFiniteSet(WithinWindow(x) \cap Late(x))
      BY <2>2, <3>1, FS_Subset
    <3>3. Cardinality(WithinWindow(x) \cap Late(x)) \in Nat
      BY <3>2, FS_CardinalityType
    <3>4. /\ IsFiniteSet(WithinWindow(x) \cup Late(x))
          /\ Cardinality(WithinWindow(x) \cup Late(x))
               = Cardinality(WithinWindow(x)) + Cardinality(Late(x))
                   - Cardinality(WithinWindow(x) \cap Late(x))
      BY <2>1, <2>2, FS_Union
    <3> QED
      BY <2>1, <2>2, <3>3, <3>4
  <2>5. /\ IsFiniteSet(MadeWithin(x))
        /\ Cardinality(MadeWithin(x)) <= Cardinality(WithinWindow(x) \cup Late(x))
    BY <2>3, <2>4, FS_Subset
  <2>6. /\ Cardinality(MadeWithin(x)) \in Nat
        /\ Cardinality(WithinWindow(x) \cup Late(x)) \in Nat
    BY <2>4, <2>5, FS_CardinalityType
  <2> QED
    BY <2>0, <2>1, <2>2, <2>4, <2>5, <2>6
<1> QED
  BY <1>1, Inductive, LateInductive, PTL
=============================================================================

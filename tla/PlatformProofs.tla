-------------------------- MODULE PlatformProofs ----------------------------
(***************************************************************************)
(* Theorems about the two parts of the server that know nothing of what it *)
(* serves: RateLimit, for every set of clients, every limit, every window  *)
(* and any number of outages; and EventBus, for every number of handlers   *)
(* and publishers.  They share no state.                                   *)
(***************************************************************************)
EXTENDS RateLimit, EventBus, FiniteSetTheorems, SequenceTheorems, TLAPS

-----------------------------------------------------------------------------
\* The inductive invariant

\* The window of a key that has one began so many ticks ago; what was let through since
\* then, and before.
Age(k) == Window - left[k]
InWindow(k) == {p \in Passes(k) : p[1] <= Age(k)}
BeforeWindow(k) == {p \in Passes(k) : p[1] > Age(k)}

Smaller(a, b) == IF a < b THEN a ELSE b

\* The count is what was let through in the window, up to the limit; what is still recent
\* of the time before is of one window at most.
KeyOK(k) ==
    /\ IsFiniteSet(Passes(k))
    /\ count[k] > 0 => /\ Cardinality(InWindow(k)) = Smaller(count[k], Limit)
                       /\ Cardinality(BeforeWindow(k)) <= Limit
    /\ count[k] = 0 => passed[k][0] = 0 /\ Cardinality(Passes(k)) <= Limit

WindowsOK == AlwaysUp => redisUp /\ \A k \in Key : KeyOK(k)

-----------------------------------------------------------------------------
\* What was let through, as a set

LEMMA PassesAre ==
    ASSUME TypeOK, NEW k \in Key
    PROVE  /\ Passes(k) \subseteq Recent \X (Nat \ {0})
           /\ \A i \in Recent, n \in Nat \ {0} : <<i, n>> \in Passes(k) <=> n <= passed[k][i]
<1>1. \A i \in Recent : passed[k][i] \in Nat
  BY DEF TypeOK
<1> QED BY <1>1 DEF Passes

LEMMA PassesAreNext ==
    ASSUME TypeOK', NEW k \in Key
    PROVE  /\ Passes(k)' \subseteq Recent \X (Nat \ {0})
           /\ \A i \in Recent, n \in Nat \ {0} : <<i, n>> \in Passes(k)' <=> n <= passed'[k][i]
<1>1. \A i \in Recent : passed'[k][i] \in Nat
  BY DEF TypeOK
<1> QED BY <1>1 DEF Passes

LEMMA RecentIs == Recent \subseteq Nat /\ 0 \in Recent /\ \A i \in Recent : i < Window
BY RateLimitBounds DEF Recent

LEMMA PassParts ==
    ASSUME NEW p \in Recent \X (Nat \ {0})
    PROVE  /\ p[1] \in Recent /\ p[1] \in Nat /\ p[1] < Window
           /\ p[2] \in Nat \ {0} /\ p = <<p[1], p[2]>>
<1>1. p[1] \in Recent /\ p[2] \in Nat \ {0} /\ p = <<p[1], p[2]>>
  OBVIOUS
<1> QED BY <1>1, RecentIs

\* A tick makes everything one tick older.
Older(S) == {<<p[1] + 1, p[2]>> : p \in S}

LEMMA OlderIsAsMany ==
    ASSUME NEW S, IsFiniteSet(S), S \subseteq Recent \X (Nat \ {0})
    PROVE  IsFiniteSet(Older(S)) /\ Cardinality(Older(S)) = Cardinality(S)
<1> DEFINE f == [p \in S |-> <<p[1] + 1, p[2]>>]
<1>1. f \in [S -> Older(S)]
  BY DEF Older
<1>2. ASSUME NEW p \in S, NEW q \in S, f[p] = f[q]
      PROVE  p = q
  <2>1. p[1] \in Nat /\ q[1] \in Nat /\ p = <<p[1], p[2]>> /\ q = <<q[1], q[2]>>
    <3>1. p \in Recent \X (Nat \ {0}) /\ q \in Recent \X (Nat \ {0})
      OBVIOUS
    <3> QED BY <3>1, PassParts
  <2>2. p[1] + 1 = q[1] + 1 /\ p[2] = q[2]
    BY <1>2
  <2> QED BY <2>1, <2>2
<1>3. \A t \in Older(S) : \E p \in S : f[p] = t
  BY DEF Older
<1>4. f \in Bijection(S, Older(S))
  BY <1>1, <1>2, <1>3 DEF Bijection, Injection, IsInjective, Surjection
<1> QED BY <1>4, FS_Bijection DEF ExistsBijection

LEMMA PassesOfTick ==
    ASSUME NEW n \in Nat
    PROVE  Cardinality({0} \X (1..n)) = n
<1>1. IsFiniteSet({0}) /\ Cardinality({0}) = 1
  BY FS_Singleton
<1>2. IsFiniteSet(1..n) /\ Cardinality(1..n) = n
  BY FS_Interval
<1>3. Cardinality({0} \X (1..n)) = Cardinality({0}) * Cardinality(1..n)
  BY <1>1, <1>2, FS_Product
<1> QED BY <1>1, <1>2, <1>3

LEMMA SmallerPart ==
    ASSUME NEW S, NEW T, IsFiniteSet(S), T \subseteq S
    PROVE  /\ IsFiniteSet(T) /\ Cardinality(T) <= Cardinality(S)
           /\ Cardinality(T) \in Nat /\ Cardinality(S) \in Nat
BY FS_Subset, FS_CardinalityType

\* Both parts together are everything.
LEMMA PartsOfPasses ==
    ASSUME TypeOK, NEW k \in Key, IsFiniteSet(Passes(k))
    PROVE  /\ IsFiniteSet(InWindow(k)) /\ IsFiniteSet(BeforeWindow(k))
           /\ Cardinality(InWindow(k)) \in Nat /\ Cardinality(BeforeWindow(k)) \in Nat
           /\ Cardinality(Passes(k)) = Cardinality(InWindow(k)) + Cardinality(BeforeWindow(k))
<1>1. InWindow(k) \subseteq Passes(k) /\ BeforeWindow(k) \subseteq Passes(k)
  BY DEF InWindow, BeforeWindow
<1>2. /\ IsFiniteSet(InWindow(k)) /\ IsFiniteSet(BeforeWindow(k))
      /\ Cardinality(InWindow(k)) \in Nat /\ Cardinality(BeforeWindow(k)) \in Nat
  BY <1>1, SmallerPart
<1>3. Passes(k) = InWindow(k) \cup BeforeWindow(k) /\ InWindow(k) \cap BeforeWindow(k) = {}
  <2>1. left[k] \in Int /\ Age(k) \in Int
    BY RateLimitBounds DEF TypeOK, Age
  <2>2. \A p \in Passes(k) : p[1] \in Int
    <3>1. \A p \in Recent \X (Nat \ {0}) : p[1] \in Nat
      BY PassParts
    <3> QED BY <3>1, PassesAre
  <2> QED BY <2>1, <2>2 DEF InWindow, BeforeWindow
<1>4. Cardinality(InWindow(k) \cap BeforeWindow(k)) = 0
  BY <1>3, FS_EmptySet
<1>5. Cardinality(InWindow(k) \cup BeforeWindow(k))
        = Cardinality(InWindow(k)) + Cardinality(BeforeWindow(k))
            - Cardinality(InWindow(k) \cap BeforeWindow(k))
  BY <1>2, FS_Union
<1> QED BY <1>2, <1>3, <1>4, <1>5

-----------------------------------------------------------------------------
\* Types

LEMMA InitTyped == Init => TypeOK
BY RateLimitBounds DEF Init, TypeOK, Over

LEMMA KeyIsKey ==
    ASSUME NEW c \in Client, NEW body \in Bodies
    PROVE  KeyOf(c, body) \in Key
BY DEF KeyOf, Key

LEMMA RunScriptTyped ==
    ASSUME TypeOK, NEW k \in Key, RunScript(k)
    PROVE  /\ count' \in [Key -> 0..Over] /\ left' \in [Key -> 0..Window]
           /\ \A j \in Key : count'[j] = 0 <=> left'[j] = 0
           /\ count'[k] = IF count[k] = Over THEN Over ELSE count[k] + 1
           /\ left'[k] = IF count[k] = 0 THEN Window ELSE left[k]
           /\ \A j \in Key : j # k => count'[j] = count[j] /\ left'[j] = left[j]
<1>1. /\ count[k] \in 0..Over /\ left[k] \in 0..Window /\ Over \in Nat /\ Over > 0
      /\ count[k] = 0 <=> left[k] = 0
  BY RateLimitBounds DEF TypeOK, Over
<1>2. /\ count'[k] = IF count[k] = Over THEN Over ELSE count[k] + 1
      /\ left'[k] = IF count[k] = 0 THEN Window ELSE left[k]
      /\ \A j \in Key : j # k => count'[j] = count[j] /\ left'[j] = left[j]
  BY DEF RunScript, TypeOK
<1>3. count'[k] \in 0..Over /\ count'[k] # 0 /\ left'[k] \in 0..Window /\ left'[k] # 0
  BY <1>1, <1>2, RateLimitBounds
<1>4. count' \in [Key -> 0..Over] /\ left' \in [Key -> 0..Window]
  BY <1>1, <1>3, RateLimitBounds DEF RunScript, TypeOK
<1>5. \A j \in Key : count'[j] = 0 <=> left'[j] = 0
  BY <1>2, <1>3 DEF TypeOK
<1> QED BY <1>2, <1>4, <1>5

LEMMA LetThroughTyped ==
    ASSUME TypeOK, NEW k \in Key, LetThrough(k)
    PROVE  /\ passed' \in [Key -> [Recent -> Nat]]
           /\ passed'[k][0] = passed[k][0] + 1
           /\ \A i \in Recent : i # 0 => passed'[k][i] = passed[k][i]
           /\ \A j \in Key : j # k => passed'[j] = passed[j]
<1>1. passed[k] \in [Recent -> Nat] /\ 0 \in Recent /\ passed \in [Key -> [Recent -> Nat]]
  BY RecentIs DEF TypeOK
<1> DEFINE row == [passed[k] EXCEPT ![0] = passed[k][0] + 1]
<1>2. passed' = [passed EXCEPT ![k] = row]
  BY DEF LetThrough
<1>3. row \in [Recent -> Nat] /\ row[0] = passed[k][0] + 1
      /\ \A i \in Recent : i # 0 => row[i] = passed[k][i]
  BY <1>1
<1> HIDE DEF row
<1> QED BY <1>1, <1>2, <1>3

LEMMA ServeTyped ==
    ASSUME TypeOK, NEW c \in Client, NEW body \in Bodies, Serve(c, body)
    PROVE  TypeOK'
<1> DEFINE k == KeyOf(c, body)
<1>1. k \in Key
  BY KeyIsKey
<1>2. /\ UNCHANGED <<client, redisUp>>
      /\ faults' = faults \/ faults' = faults + 1
      /\ RunScript(k) \/ UNCHANGED <<count, left>>
      /\ LetThrough(k) \/ UNCHANGED passed
  BY DEF Serve, Reject
<1> HIDE DEF k
<1>3. /\ count' \in [Key -> 0..Over] /\ left' \in [Key -> 0..Window]
      /\ \A j \in Key : count'[j] = 0 <=> left'[j] = 0
  BY <1>1, <1>2, RunScriptTyped DEF TypeOK
<1>4. passed' \in [Key -> [Recent -> Nat]]
  BY <1>1, <1>2, LetThroughTyped DEF TypeOK
<1> QED BY <1>2, <1>3, <1>4 DEF TypeOK

LEMMA TickTyped ==
    ASSUME TypeOK, Tick
    PROVE  TypeOK'
<1>1. \A k \in Key : /\ count[k] \in 0..Over /\ left[k] \in 0..Window
                     /\ count[k] = 0 <=> left[k] = 0
  BY DEF TypeOK
<1>2. Over \in Nat /\ Window \in Nat
  BY RateLimitBounds DEF Over
<1>3. \A k \in Key : /\ count'[k] = IF left[k] <= 1 THEN 0 ELSE count[k]
                     /\ left'[k] = IF left[k] = 0 THEN 0 ELSE left[k] - 1
  BY DEF Tick
<1>4. \A k \in Key : /\ count'[k] \in 0..Over /\ left'[k] \in 0..Window
                     /\ count'[k] = 0 <=> left'[k] = 0
  BY <1>1, <1>2, <1>3
<1>5. count' \in [Key -> 0..Over] /\ left' \in [Key -> 0..Window]
  BY <1>3, <1>4 DEF Tick
<1>6. passed' \in [Key -> [Recent -> Nat]]
  <2>1. \A k \in Key, i \in Recent : i # 0 => i - 1 \in Recent
    BY RateLimitBounds DEF Recent
  <2> QED BY <2>1 DEF Tick, TypeOK
<1> QED BY <1>4, <1>5, <1>6 DEF Tick, TypeOK

LEMMA StepTyped ==
    ASSUME TypeOK, [Next]_vars
    PROVE  TypeOK'
<1>1. CASE RedisDown
  <2>1. faults' \in Nat
    BY <1>1 DEF RedisDown, TypeOK
  <2>2. redisUp' \in BOOLEAN
    BY <1>1 DEF RedisDown
  <2>3. UNCHANGED <<count, left, client, passed>>
    BY <1>1 DEF RedisDown
  <2> QED BY <2>1, <2>2, <2>3 DEF TypeOK
<1>2. CASE RedisUp
  <2>1. 0 \in 0..Over /\ 0 \in 0..Window
    BY RateLimitBounds DEF Over
  <2>2. CASE UNCHANGED <<count, left>>
    BY <1>2, <2>2 DEF RedisUp, TypeOK
  <2>3. CASE count' = [k \in Key |-> 0] /\ left' = [k \in Key |-> 0]
    BY <1>2, <2>1, <2>3 DEF RedisUp, TypeOK
  <2> QED BY <1>2, <2>2, <2>3 DEF RedisUp
<1>3. CASE UNCHANGED vars
  BY <1>3 DEF vars, TypeOK
<1>4. ASSUME NEW c \in Client, NEW body \in Bodies, Serve(c, body)
      PROVE  TypeOK'
  BY <1>4, ServeTyped
<1>5. CASE Tick
  BY <1>5, TickTyped
<1> QED BY <1>1, <1>2, <1>3, <1>4, <1>5 DEF Next

-----------------------------------------------------------------------------
\* The windows

LEMMA InitWindows == Init => WindowsOK
<1> SUFFICES ASSUME Init, NEW k \in Key
             PROVE  KeyOK(k)
  BY DEF Init, WindowsOK, AlwaysUp
<1>1. count[k] = 0 /\ passed[k][0] = 0
  BY RecentIs DEF Init
<1>2. Passes(k) = {}
  BY InitTyped, PassesAre DEF Init
<1> QED BY <1>1, <1>2, FS_EmptySet, RateLimitBounds DEF KeyOK

\* A key that a step does not touch.
LEMMA SameKey ==
    ASSUME NEW k, KeyOK(k), count'[k] = count[k], left'[k] = left[k], passed'[k] = passed[k]
    PROVE  KeyOK(k)'
BY DEF KeyOK, Passes, InWindow, BeforeWindow, Age

\* One more was let through, now.
LEMMA OneMore ==
    ASSUME TypeOK, TypeOK', NEW k \in Key, IsFiniteSet(Passes(k)), LetThrough(k)
    PROVE  /\ Passes(k)' = Passes(k) \cup {<<0, passed[k][0] + 1>>}
           /\ <<0, passed[k][0] + 1>> \notin Passes(k)
           /\ IsFiniteSet(Passes(k)')
<1> DEFINE x == <<0, passed[k][0] + 1>>
<1>1. /\ passed'[k][0] = passed[k][0] + 1 /\ passed[k][0] \in Nat /\ 0 \in Recent
      /\ \A i \in Recent : i # 0 => passed'[k][i] = passed[k][i]
  BY LetThroughTyped, RecentIs DEF TypeOK
<1>2. x \in Recent \X (Nat \ {0}) /\ x \notin Passes(k)
  BY <1>1, PassesAre
<1>3. ASSUME NEW i \in Recent, NEW n \in Nat \ {0}
      PROVE  <<i, n>> \in Passes(k)' <=> <<i, n>> \in Passes(k) \/ <<i, n>> = x
  BY <1>1, <1>3, PassesAre, PassesAreNext
<1>4. Passes(k)' = Passes(k) \cup {x}
  <2>1. \A p \in Recent \X (Nat \ {0}) : p \in Passes(k)' <=> p \in Passes(k) \/ p = x
    BY <1>3
  <2> QED BY <1>2, <2>1, PassesAre, PassesAreNext
<1>5. IsFiniteSet(Passes(k) \cup {x})
  BY FS_AddElement
<1> QED BY <1>2, <1>4, <1>5

\* A request that is counted and let through opens a window, or is one more in it.
LEMMA AllowedStep ==
    ASSUME TypeOK, TypeOK', NEW k \in Key, KeyOK(k), RunScript(k), count'[k] <= Limit,
           LetThrough(k)
    PROVE  KeyOK(k)'
<1> DEFINE x == <<0, passed[k][0] + 1>>
<1>1. /\ count[k] \in 0..Over /\ left[k] \in 0..Window /\ Limit \in Nat \ {0}
      /\ Window \in Nat \ {0} /\ Over = Limit + 1
      /\ count[k] = 0 <=> left[k] = 0
      /\ passed[k][0] \in Nat
  BY RateLimitBounds, RecentIs DEF TypeOK, Over
<1>2. /\ count'[k] = count[k] + 1 /\ left'[k] = IF count[k] = 0 THEN Window ELSE left[k]
      /\ count[k] < Limit
  BY <1>1, RunScriptTyped
<1>3. IsFiniteSet(Passes(k))
  BY DEF KeyOK
<1>4. /\ Passes(k)' = Passes(k) \cup {x} /\ x \notin Passes(k) /\ IsFiniteSet(Passes(k)')
      /\ x[1] = 0
  BY <1>3, OneMore
<1>5. \A p \in Passes(k) : p[1] \in Nat
  BY PassesAre, PassParts
<1> HIDE DEF x
<1>6. CASE count[k] = 0
  <2>1. Age(k)' = 0 /\ passed[k][0] = 0 /\ Cardinality(Passes(k)) <= Limit
    BY <1>1, <1>2, <1>6 DEF Age, KeyOK
  <2>2. \A p \in Passes(k) : p[1] > 0
    <3>1. ASSUME NEW p \in Passes(k)
          PROVE  p[1] # 0
      <4>1. p \in Recent \X (Nat \ {0})
        BY PassesAre
      <4>2. p = <<p[1], p[2]>> /\ p[1] \in Recent /\ p[2] \in Nat \ {0}
        BY <4>1, PassParts
      <4>3. p[2] <= passed[k][p[1]]
        BY <4>2, PassesAre
      <4> QED BY <2>1, <4>2, <4>3
    <3> QED BY <3>1, <1>5
  <2>3. InWindow(k)' = {x} /\ BeforeWindow(k)' = Passes(k)
    BY <1>4, <1>5, <2>1, <2>2 DEF InWindow, BeforeWindow
  <2>4. Cardinality({x}) = 1
    BY FS_Singleton
  <2> QED BY <1>1, <1>2, <1>4, <1>6, <2>1, <2>3, <2>4 DEF KeyOK, Smaller
<1>7. CASE count[k] > 0
  <2>1. Age(k)' = Age(k) /\ Age(k) \in Nat
    BY <1>1, <1>2, <1>7 DEF Age
  <2>2. /\ InWindow(k)' = InWindow(k) \cup {x} /\ x \notin InWindow(k)
        /\ BeforeWindow(k)' = BeforeWindow(k)
    BY <1>4, <1>5, <2>1 DEF InWindow, BeforeWindow
  <2>3. IsFiniteSet(InWindow(k)) /\ Cardinality(InWindow(k)) = count[k]
    BY <1>1, <1>2, <1>3, <1>7, PartsOfPasses DEF KeyOK, Smaller
  <2>4. Cardinality(InWindow(k) \cup {x}) = count[k] + 1
    BY <2>2, <2>3, FS_AddElement
  <2> QED BY <1>1, <1>2, <1>4, <1>7, <2>2, <2>4 DEF KeyOK, Smaller
<1> QED BY <1>1, <1>6, <1>7

\* A request over the limit is counted and changes no window.
LEMMA RejectedStep ==
    ASSUME TypeOK, NEW k \in Key, KeyOK(k), RunScript(k), ~(count'[k] <= Limit), Reject
    PROVE  KeyOK(k)'
<1>1. /\ count[k] \in 0..Over /\ left[k] \in 0..Window /\ Limit \in Nat \ {0}
      /\ Over = Limit + 1
  BY RateLimitBounds DEF TypeOK, Over
<1>2. count[k] >= Limit /\ count'[k] = Over /\ left'[k] = left[k]
  BY <1>1, RunScriptTyped
<1>3. /\ Passes(k)' = Passes(k) /\ InWindow(k)' = InWindow(k) /\ BeforeWindow(k)' = BeforeWindow(k)
  BY <1>2 DEF Reject, Passes, InWindow, BeforeWindow, Age
<1> QED BY <1>1, <1>2, <1>3 DEF KeyOK, Smaller

LEMMA ServeWindows ==
    ASSUME TypeOK, TypeOK', WindowsOK, NEW c \in Client, NEW body \in Bodies, Serve(c, body)
    PROVE  WindowsOK'
<1> SUFFICES ASSUME AlwaysUp' PROVE redisUp' /\ \A j \in Key : KeyOK(j)'
  BY DEF WindowsOK
<1> DEFINE k == KeyOf(c, body)
<1>1. k \in Key
  BY KeyIsKey
<1>2. UNCHANGED <<client, redisUp, faults>> /\ AlwaysUp
  <2>1. faults \in Nat /\ faults' = 0
    BY DEF TypeOK, AlwaysUp
  <2> QED BY <2>1 DEF Serve, AlwaysUp
<1>3. client /\ redisUp /\ \A j \in Key : KeyOK(j)
  BY <1>2 DEF WindowsOK, AlwaysUp
<1>4. RunScript(k) /\ (IF count'[k] <= Limit THEN LetThrough(k) ELSE Reject)
  <2>1. faults \in Nat /\ faults' = faults
    BY <1>2 DEF TypeOK
  <2> QED BY <1>3, <2>1 DEF Serve, Allows
<1> HIDE DEF k
<1>5. KeyOK(k)'
  BY <1>1, <1>3, <1>4, AllowedStep, RejectedStep
<1>6. ASSUME NEW j \in Key, j # k
      PROVE  KeyOK(j)'
  <2>1. count'[j] = count[j] /\ left'[j] = left[j]
    BY <1>1, <1>4, <1>6, RunScriptTyped
  <2>2. passed'[j] = passed[j]
    BY <1>1, <1>4, <1>6, LetThroughTyped DEF Reject
  <2> QED BY <1>3, <2>1, <2>2, SameKey
<1> QED BY <1>2, <1>3, <1>5, <1>6

\* What was let through grows older, and is forgotten when it is no longer recent.
LEMMA TickOlder ==
    ASSUME TypeOK, TypeOK', Tick, NEW k \in Key
    PROVE  /\ Passes(k)' \subseteq Older(Passes(k))
           /\ \A p \in Passes(k) : p[1] + 1 < Window => <<p[1] + 1, p[2]>> \in Passes(k)'
           /\ \A p \in Passes(k)' : p[1] > 0 /\ <<p[1] - 1, p[2]>> \in Passes(k)
<1>1. \A i \in Recent : passed'[k][i] = IF i = 0 THEN 0 ELSE passed[k][i - 1]
  BY DEF Tick
<1>2. \A i \in Int : i \in Recent <=> 0 <= i /\ i < Window
  BY RateLimitBounds DEF Recent
<1>3. ASSUME NEW p \in Passes(k)'
      PROVE  p[1] > 0 /\ <<p[1] - 1, p[2]>> \in Passes(k) /\ p \in Older(Passes(k))
  <2>1. p \in Recent \X (Nat \ {0})
    BY PassesAreNext
  <2>2. p = <<p[1], p[2]>> /\ p[1] \in Recent /\ p[1] \in Nat /\ p[2] \in Nat \ {0}
    BY <2>1, PassParts
  <2>3. p[2] <= passed'[k][p[1]]
    BY <2>2, PassesAreNext
  <2>4. p[1] # 0 /\ p[2] <= passed[k][p[1] - 1] /\ p[1] - 1 \in Recent
    BY <1>1, <1>2, <2>2, <2>3, RateLimitBounds
  <2>5. <<p[1] - 1, p[2]>> \in Passes(k)
    BY <2>2, <2>4, PassesAre
  <2>6. p = <<(p[1] - 1) + 1, p[2]>>
    BY <2>2
  <2> DEFINE q == <<p[1] - 1, p[2]>>
  <2>7. q \in Passes(k) /\ p = <<q[1] + 1, q[2]>>
    BY <2>5, <2>6
  <2> HIDE DEF q
  <2>8. p \in Older(Passes(k))
    BY <2>7 DEF Older
  <2> QED BY <2>2, <2>4, <2>5, <2>8
<1>4. ASSUME NEW p \in Passes(k), p[1] + 1 < Window
      PROVE  <<p[1] + 1, p[2]>> \in Passes(k)'
  <2>1. p \in Recent \X (Nat \ {0})
    BY PassesAre
  <2>2. p = <<p[1], p[2]>> /\ p[1] \in Recent /\ p[1] \in Nat /\ p[2] \in Nat \ {0}
    BY <2>1, PassParts
  <2>3. p[2] <= passed[k][p[1]]
    BY <2>2, PassesAre
  <2>4. p[1] + 1 \in Recent /\ p[1] + 1 # 0 /\ (p[1] + 1) - 1 = p[1]
    BY <1>2, <1>4, <2>2
  <2>5. p[2] <= passed'[k][p[1] + 1]
    BY <1>1, <2>3, <2>4
  <2> QED BY <2>2, <2>4, <2>5, PassesAreNext
<1> QED BY <1>3, <1>4

LEMMA TickWindow ==
    ASSUME TypeOK, TypeOK', Tick, NEW k \in Key, KeyOK(k)
    PROVE  KeyOK(k)'
<1>1. /\ count[k] \in 0..Over /\ left[k] \in 0..Window /\ Limit \in Nat \ {0}
      /\ Window \in Nat \ {0} /\ Over = Limit + 1
      /\ count[k] = 0 <=> left[k] = 0
  BY RateLimitBounds DEF TypeOK, Over
<1>2. /\ count'[k] = (IF left[k] <= 1 THEN 0 ELSE count[k])
      /\ left'[k] = (IF left[k] = 0 THEN 0 ELSE left[k] - 1)
      /\ passed'[k][0] = 0
  BY RecentIs DEF Tick
<1>3. /\ IsFiniteSet(Passes(k)) /\ IsFiniteSet(InWindow(k)) /\ IsFiniteSet(BeforeWindow(k))
      /\ Passes(k) \subseteq Recent \X (Nat \ {0})
      /\ InWindow(k) \subseteq Passes(k) /\ BeforeWindow(k) \subseteq Passes(k)
  BY PartsOfPasses, PassesAre DEF KeyOK, InWindow, BeforeWindow
<1>4. /\ IsFiniteSet(Older(Passes(k))) /\ Cardinality(Older(Passes(k))) = Cardinality(Passes(k))
      /\ IsFiniteSet(Older(InWindow(k)))
      /\ Cardinality(Older(InWindow(k))) = Cardinality(InWindow(k))
      /\ IsFiniteSet(Older(BeforeWindow(k)))
      /\ Cardinality(Older(BeforeWindow(k))) = Cardinality(BeforeWindow(k))
  BY <1>3, OlderIsAsMany
<1>5. /\ Passes(k)' \subseteq Older(Passes(k))
      /\ \A p \in Passes(k) : p[1] + 1 < Window => <<p[1] + 1, p[2]>> \in Passes(k)'
  BY TickOlder
<1>6. IsFiniteSet(Passes(k)') /\ Cardinality(Passes(k)') <= Cardinality(Passes(k))
  BY <1>4, <1>5, SmallerPart
<1>7. \A p \in Passes(k) : p[1] \in Nat /\ p[1] < Window
  BY <1>3, PassParts
<1>8. CASE left[k] = 0
  BY <1>1, <1>2, <1>6, <1>8, <1>3, SmallerPart DEF KeyOK
<1>9. CASE left[k] = 1
  <2>1. InWindow(k) = Passes(k)
    BY <1>1, <1>7, <1>9 DEF InWindow, Age
  <2>2. Cardinality(Passes(k)) <= Limit
    BY <1>1, <1>9, <2>1 DEF KeyOK, Smaller
  <2>3. Cardinality(Passes(k)') <= Limit
    BY <1>1, <1>3, <1>4, <1>5, <1>6, <2>2, SmallerPart
  <2> QED BY <1>2, <1>6, <1>9, <2>3 DEF KeyOK
<1>10. CASE left[k] > 1
  <2>1. /\ Age(k)' = Age(k) + 1 /\ Age(k) + 1 < Window /\ Age(k) \in Nat
        /\ count'[k] = count[k] /\ count[k] > 0
    BY <1>1, <1>2, <1>10 DEF Age
  <2>2. InWindow(k)' = Older(InWindow(k))
    <3>1. ASSUME NEW p \in InWindow(k)'
          PROVE  p \in Older(InWindow(k))
      <4>1. p \in Passes(k)' /\ p[1] <= Age(k) + 1
        BY <2>1 DEF InWindow
      <4>2. PICK q \in Passes(k) : p = <<q[1] + 1, q[2]>>
        BY <1>5, <4>1 DEF Older
      <4>3. q[1] <= Age(k)
        BY <1>7, <2>1, <4>1, <4>2
      <4>4. q \in InWindow(k)
        BY <4>3 DEF InWindow
      <4> QED BY <4>2, <4>4 DEF Older
    <3>2. ASSUME NEW p \in Older(InWindow(k))
          PROVE  p \in InWindow(k)'
      <4>1. PICK q \in InWindow(k) : p = <<q[1] + 1, q[2]>>
        BY DEF Older
      <4>2. q \in Passes(k) /\ q[1] <= Age(k)
        BY DEF InWindow
      <4>3. p[1] <= Age(k) + 1 /\ q[1] + 1 < Window
        <5>1. p[1] = q[1] + 1 /\ q[1] \in Nat
          BY <1>7, <4>1, <4>2
        <5>2. q[1] <= Age(k) /\ Age(k) \in Nat /\ Age(k) + 1 < Window /\ Window \in Nat
          BY <1>1, <2>1, <4>2
        <5>3. q[1] + 1 <= Age(k) + 1 /\ q[1] + 1 < Window
          BY <5>1, <5>2
        <5> QED BY <5>1, <5>3
      <4>4. p \in Passes(k)'
        BY <1>5, <4>1, <4>2, <4>3
      <4> QED BY <2>1, <4>3, <4>4 DEF InWindow
    <3> QED BY <3>1, <3>2
  <2>3. BeforeWindow(k)' \subseteq Older(BeforeWindow(k))
    <3>1. ASSUME NEW p \in BeforeWindow(k)'
          PROVE  p \in Older(BeforeWindow(k))
      <4>1. p \in Passes(k)' /\ p[1] > Age(k) + 1
        BY <2>1 DEF BeforeWindow
      <4>2. PICK q \in Passes(k) : p = <<q[1] + 1, q[2]>>
        BY <1>5, <4>1 DEF Older
      <4>3. q[1] > Age(k)
        BY <1>7, <2>1, <4>1, <4>2
      <4>4. q \in BeforeWindow(k)
        BY <4>3 DEF BeforeWindow
      <4> QED BY <4>2, <4>4 DEF Older
    <3> QED BY <3>1
  <2>4. Cardinality(BeforeWindow(k)') <= Limit
    <3>1. /\ Cardinality(BeforeWindow(k)') <= Cardinality(BeforeWindow(k))
          /\ Cardinality(BeforeWindow(k)') \in Nat /\ Cardinality(BeforeWindow(k)) \in Nat
      BY <1>4, <2>3, SmallerPart
    <3>2. Cardinality(BeforeWindow(k)) <= Limit
      BY <2>1 DEF KeyOK
    <3> QED BY <1>1, <3>1, <3>2
  <2>5. Cardinality(InWindow(k)') = Smaller(count'[k], Limit)
    BY <1>4, <2>1, <2>2 DEF KeyOK
  <2> QED BY <1>6, <2>1, <2>4, <2>5 DEF KeyOK
<1> QED BY <1>1, <1>8, <1>9, <1>10

LEMMA StepWindows ==
    ASSUME TypeOK, WindowsOK, [Next]_vars
    PROVE  WindowsOK'
<1>0. TypeOK'
  BY StepTyped
<1>1. CASE RedisDown
  BY <1>1 DEF RedisDown, WindowsOK, AlwaysUp, TypeOK
<1>2. CASE RedisUp
  BY <1>2 DEF RedisUp, WindowsOK, AlwaysUp
<1>3. CASE UNCHANGED vars
  BY <1>3 DEF vars, WindowsOK, AlwaysUp, KeyOK, Passes, InWindow, BeforeWindow, Age
<1>4. ASSUME NEW c \in Client, NEW body \in Bodies, Serve(c, body)
      PROVE  WindowsOK'
  BY <1>0, <1>4, ServeWindows
<1>5. CASE Tick
  <2>1. UNCHANGED <<client, redisUp, faults>>
    BY <1>5 DEF Tick
  <2> QED BY <1>0, <1>5, <2>1, TickWindow DEF WindowsOK, AlwaysUp
<1> QED BY <1>1, <1>2, <1>3, <1>4, <1>5 DEF Next

LEMMA InvariantHolds == Spec => [](TypeOK /\ WindowsOK)
<1>1. Init => TypeOK /\ WindowsOK
  BY InitTyped, InitWindows
<1>2. TypeOK /\ WindowsOK /\ [Next]_vars => (TypeOK /\ WindowsOK)'
  BY StepTyped, StepWindows
<1> QED BY <1>1, <1>2, PTL DEF Spec

-----------------------------------------------------------------------------
\* The theorems

\* Types of the counters and their expiry: a key counts if and only if it has time left
\* (the script of rate_limit.go:21-40 sets both at once), so no counter stays for good.
THEOREM TypeCorrect == Spec => []TypeOK
BY InvariantHolds, PTL

\* As long as Redis works, a key is let through at most twice the limit in any stretch of
\* time as long as a window, and at most the limit in one tick (rate_limit.go:26-29).
THEOREM BurstBoundHolds == Spec => []BurstBound
<1>1. ASSUME TypeOK, WindowsOK, AlwaysUp, NEW k \in Key
      PROVE  PassedLately(k) <= 2 * Limit /\ passed[k][0] <= Limit
  <2>1. /\ count[k] \in 0..Over /\ left[k] \in 0..Window /\ Limit \in Nat
        /\ passed[k][0] \in Nat
        /\ count[k] = 0 <=> left[k] = 0
    BY <1>1, RateLimitBounds, RecentIs DEF TypeOK
  <2>2. KeyOK(k) /\ IsFiniteSet(Passes(k))
    BY <1>1 DEF WindowsOK, KeyOK
  <2>3. /\ Cardinality(Passes(k)) = Cardinality(InWindow(k)) + Cardinality(BeforeWindow(k))
        /\ Cardinality(InWindow(k)) \in Nat /\ Cardinality(BeforeWindow(k)) \in Nat
        /\ IsFiniteSet(InWindow(k))
    BY <1>1, <2>2, PartsOfPasses
  <2>4. CASE count[k] = 0
    BY <2>1, <2>2, <2>3, <2>4 DEF KeyOK, PassedLately
  <2>5. CASE count[k] > 0
    <3>1. Cardinality(InWindow(k)) <= Limit /\ Cardinality(BeforeWindow(k)) <= Limit
      BY <2>1, <2>2, <2>5 DEF KeyOK, Smaller
    <3>2. Age(k) >= 0
      BY <2>1, RateLimitBounds DEF Age
    <3>3. {0} \X (1..passed[k][0]) \subseteq InWindow(k)
      BY <3>2, RecentIs DEF InWindow, Passes
    <3>4. Cardinality({0} \X (1..passed[k][0])) = passed[k][0]
      <4>1. passed[k][0] \in Nat
        BY <2>1
      <4> QED BY <4>1, PassesOfTick, Zenon
    <3>5. Cardinality({0} \X (1..passed[k][0])) <= Cardinality(InWindow(k))
      BY <2>3, <3>3, SmallerPart
    <3> QED BY <2>1, <2>3, <3>1, <3>4, <3>5 DEF PassedLately
  <2> QED BY <2>1, <2>4, <2>5
<1>2. TypeOK /\ WindowsOK => BurstBound
  BY <1>1 DEF BurstBound
<1> QED BY <1>2, InvariantHolds, PTL

\* Whoever is rejected has been let through as often as the limit within the last window:
\* neither a rejected request nor a window that is over counts against anybody.
THEOREM RejectedOnlyOverLimitHolds == Spec => RejectedOnlyOverLimit
<1>1. ASSUME TypeOK, WindowsOK, NEW c \in Client, NEW body \in Bodies, AlwaysUp,
             Serve(c, body), passed' = passed
      PROVE  PassedLately(KeyOf(c, body)) >= Limit
  <2> DEFINE k == KeyOf(c, body)
  <2>1. k \in Key /\ client /\ redisUp /\ KeyOK(k)
    BY <1>1, KeyIsKey DEF WindowsOK, AlwaysUp
  <2>2. /\ count[k] \in 0..Over /\ Limit \in Nat \ {0} /\ Over = Limit + 1
        /\ passed[k][0] \in Nat
    BY <1>1, <2>1, RateLimitBounds, RecentIs DEF TypeOK, Over
  <2>3. ~LetThrough(k)
    <3> HIDE DEF k
    <3>1. LetThrough(k) => passed'[k][0] = passed[k][0] + 1
      BY <1>1, <2>1, LetThroughTyped
    <3> QED BY <1>1, <2>2, <3>1
  <2>4. RunScript(k) /\ (IF count'[k] <= Limit THEN LetThrough(k) ELSE Reject)
    BY <1>1, <2>1, <2>3 DEF Serve, Allows
  <2> HIDE DEF k
  <2>5. count[k] >= Limit
    BY <1>1, <2>1, <2>4, <2>2, <2>3, RunScriptTyped
  <2>6. /\ Cardinality(Passes(k)) = Cardinality(InWindow(k)) + Cardinality(BeforeWindow(k))
        /\ Cardinality(InWindow(k)) \in Nat /\ Cardinality(BeforeWindow(k)) \in Nat
    BY <1>1, <2>1, PartsOfPasses DEF KeyOK
  <2>7. Cardinality(InWindow(k)) = Limit
    BY <2>1, <2>2, <2>5 DEF KeyOK, Smaller
  <2>8. Cardinality(Passes(k)) >= Limit
    BY <2>2, <2>6, <2>7
  <2> QED BY <2>8 DEF k, PassedLately
<1>2. TypeOK /\ WindowsOK =>
        [\A c \in Client, body \in Bodies :
            AlwaysUp /\ Serve(c, body) /\ passed' = passed
               => PassedLately(KeyOf(c, body)) >= Limit]_vars
  BY <1>1
<1> QED BY <1>2, InvariantHolds, PTL DEF Spec, RejectedOnlyOverLimit

-----------------------------------------------------------------------------
(***************************************************************************)
(* EventBus: no subscription is lost, and Publish returns when all that it *)
(* started has returned.                                                   *)
(***************************************************************************)

\* The inductive invariant

\* Who is in the topic's slice: everyone who has been appended, once.
InSlice(h) == sub[h] \in {"unlock", "done"}
SliceOK ==
    /\ \A h \in Handler : InSlice(h) <=> h \in ToSet(handlers)
    /\ IsInjective(handlers)

Early == {"idle", "rlock", "read"}
Unfinished == {"running", "subscribing"}
Waited(p) == {i \in Place : run[p][i].state \in Unfinished}

\* What Publish has read: a slice that held, and so holds for ever, whoever was subscribed
\* when it was called.
ReadOK(p) ==
    /\ \A h \in before[p] : sub[h] = "done"
    /\ IsInjective(pub[p].hs)
    /\ IF pub[p].pc \in Early THEN pub[p].hs = <<>> ELSE before[p] \subseteq ToSet(pub[p].hs)

\* The goroutines that were started are those of the places before next.
StartedOK(p) ==
    /\ pub[p].next \in 1..(Len(pub[p].hs) + 1)
    /\ pub[p].pc \in {"wait", "done"} => pub[p].next = Len(pub[p].hs) + 1
    /\ \A i \in Place : run[p][i].state = "none" <=> i >= pub[p].next

\* The WaitGroup counts those that have not returned, and nobody is left when Publish has.
WaitGroupOK(p) == pub[p].wg = Cardinality(Waited(p))
ReturnOK(p) ==
    pub[p].pc = "done" => pub[p].wg = 0 /\ pub[p].result = Result(p)

PublisherOK(p) == ReadOK(p) /\ StartedOK(p) /\ WaitGroupOK(p) /\ ReturnOK(p)

IInv == BusTypeOK /\ SliceOK /\ \A p \in Publisher : PublisherOK(p)

-----------------------------------------------------------------------------
\* Sequences and counts

LEMMA PlaceIsNat == Cardinality(Handler) \in Nat
BY HandlerAssumption, FS_CardinalityType

\* A slice without repetition has a place for each of its handlers.
LEMMA SliceFits ==
    ASSUME NEW s \in Seq(Handler), IsInjective(s)
    PROVE  Len(s) \in Nat /\ Len(s) <= Cardinality(Handler) /\ DOMAIN s = 1..Len(s)
<1>1. Len(s) \in Nat /\ s \in [1..Len(s) -> Handler] /\ DOMAIN s = 1..Len(s)
  BY LenProperties
<1>2. s \in Injection(1..Len(s), Handler)
  BY <1>1 DEF Injection
<1>3. Cardinality(1..Len(s)) <= Cardinality(Handler)
  BY <1>2, HandlerAssumption, FS_Injection
<1>4. Cardinality(1..Len(s)) = Len(s)
  BY <1>1, FS_Interval
<1> QED BY <1>1, <1>3, <1>4

\* Appending a handler that is not there keeps a slice without repetition.
LEMMA AppendToSlice ==
    ASSUME NEW s \in Seq(Handler), IsInjective(s), NEW h \in Handler, h \notin ToSet(s)
    PROVE  /\ Append(s, h) \in Seq(Handler)
           /\ IsInjective(Append(s, h))
           /\ ToSet(Append(s, h)) = ToSet(s) \cup {h}
<1>1. Len(s) \in Nat /\ DOMAIN s = 1..Len(s)
  BY LenProperties
<1>2. /\ Append(s, h) \in Seq(Handler)
      /\ DOMAIN Append(s, h) = 1..(Len(s) + 1)
      /\ \A i \in 1..Len(s) : Append(s, h)[i] = s[i]
      /\ Append(s, h)[Len(s) + 1] = h
  BY <1>1
<1>3. \A i \in 1..(Len(s) + 1) : i \in 1..Len(s) \/ i = Len(s) + 1
  BY <1>1
<1>4. \A i \in 1..Len(s) : s[i] # h
  BY <1>1 DEF ToSet
<1>5. IsInjective(Append(s, h))
  BY <1>1, <1>2, <1>3, <1>4 DEF IsInjective
<1>6. ToSet(Append(s, h)) = ToSet(s) \cup {h}
  <2>1. ASSUME NEW x \in ToSet(Append(s, h))
        PROVE  x \in ToSet(s) \cup {h}
    BY <1>1, <1>2, <1>3, <2>1 DEF ToSet
  <2>2. ASSUME NEW x \in ToSet(s)
        PROVE  x \in ToSet(Append(s, h))
    <3>1. PICK i \in 1..Len(s) : x = s[i]
      BY <1>1 DEF ToSet
    <3>2. i \in 1..(Len(s) + 1) /\ Append(s, h)[i] = x
      BY <1>1, <1>2, <3>1
    <3> QED BY <1>2, <3>2 DEF ToSet
  <2>3. h \in ToSet(Append(s, h))
    BY <1>1, <1>2 DEF ToSet
  <2> QED BY <2>1, <2>2, <2>3
<1> QED BY <1>2, <1>5, <1>6

LEMMA NothingInEmpty == ToSet(<<>>) = {} /\ IsInjective(<<>>) /\ Len(<<>>) = 0
BY DEF ToSet, IsInjective

LEMMA WaitedFinite ==
    ASSUME NEW p \in Publisher
    PROVE  IsFiniteSet(Waited(p)) /\ Cardinality(Waited(p)) \in Nat
<1>1. IsFiniteSet(Place) /\ Waited(p) \in SUBSET Place
  BY PlaceIsNat, FS_Interval DEF Place, Waited
<1> QED BY <1>1, FS_Subset, FS_CardinalityType

-----------------------------------------------------------------------------
\* The initial state

LEMMA InitInvariant == BusInit => IInv
<1> SUFFICES ASSUME BusInit PROVE IInv
  OBVIOUS
<1>1. BusTypeOK
  BY PlaceIsNat DEF BusInit, BusTypeOK, SubState, Publication, Outcome, Goroutine, RunState, Thread
<1>2. SliceOK
  BY NothingInEmpty DEF BusInit, SliceOK, InSlice
<1>3. ASSUME NEW p \in Publisher
      PROVE  PublisherOK(p)
  <2>1. Waited(p) = {}
    BY DEF BusInit, Waited, Unfinished
  <2>2. ReadOK(p)
    BY NothingInEmpty DEF BusInit, ReadOK, Early
  <2>3. StartedOK(p)
    BY NothingInEmpty, PlaceIsNat DEF BusInit, StartedOK, Place
  <2>4. WaitGroupOK(p) /\ ReturnOK(p)
    BY <2>1, FS_EmptySet DEF BusInit, WaitGroupOK, ReturnOK
  <2> QED BY <2>2, <2>3, <2>4 DEF PublisherOK
<1> QED BY <1>1, <1>2, <1>3 DEF IInv

-----------------------------------------------------------------------------
\* What a step leaves alone

\* A subscription that has returned stays.
DoneStays == \A h \in Handler : sub[h] = "done" => sub'[h] = "done"

\* A publisher none of whose variables a step changes.
LEMMA PublisherStands ==
    ASSUME BusTypeOK, DoneStays, NEW p \in Publisher, PublisherOK(p),
           pub'[p] = pub[p], run'[p] = run[p], errs'[p] = errs[p], before'[p] = before[p]
    PROVE  PublisherOK(p)'
<1>1. ReadOK(p)'
  BY DEF PublisherOK, ReadOK, DoneStays, BusTypeOK
<1>2. StartedOK(p)'
  BY DEF PublisherOK, StartedOK
<1>3. WaitGroupOK(p)'
  <2>1. Waited(p)' = Waited(p)
    BY DEF Waited
  <2> QED BY <2>1 DEF PublisherOK, WaitGroupOK
<1>4. ReturnOK(p)'
  BY DEF PublisherOK, ReturnOK, Result
<1> QED BY <1>1, <1>2, <1>3, <1>4 DEF PublisherOK

\* A step of one publisher keeps the invariant if it keeps the types and what is said of
\* that publisher.
LEMMA PublisherStep ==
    ASSUME IInv, KeepLock \/ UNCHANGED <<handlers, sub, writer>>, BusTypeOK',
           NEW p \in Publisher, PublisherOK(p)',
           \A q \in Publisher \ {p} : pub'[q] = pub[q] /\ run'[q] = run[q]
                                      /\ errs'[q] = errs[q] /\ before'[q] = before[q]
    PROVE  IInv'
<1>1. UNCHANGED <<handlers, sub>>
  BY DEF KeepLock
<1>2. SliceOK'
  BY <1>1 DEF IInv, SliceOK, InSlice
<1>3. DoneStays
  BY <1>1 DEF DoneStays
<1>4. \A q \in Publisher \ {p} : PublisherOK(q)'
  BY <1>3, PublisherStands DEF IInv
<1> QED BY <1>2, <1>4 DEF IInv

\* A step that only moves a subscription.
LEMMA SubscribeStep ==
    ASSUME IInv, BusTypeOK', SliceOK', DoneStays, UNCHANGED <<pub, run, errs, before>>
    PROVE  IInv'
BY PublisherStands DEF IInv

-----------------------------------------------------------------------------
\* Subscribe

LEMMA SubscribeFromOutsideKeeps ==
    ASSUME IInv, NEW h \in Handler, SubscribeFromOutside(h)
    PROVE  IInv'
<1> USE DEF SubscribeFromOutside, SubscribeCall
<1>1. BusTypeOK'
  BY DEF IInv, BusTypeOK, SubState
<1>2. SliceOK' /\ DoneStays
  BY DEF IInv, BusTypeOK, SliceOK, InSlice, DoneStays
<1> QED BY <1>1, <1>2, SubscribeStep

LEMMA SubscribingKeeps ==
    ASSUME IInv, NEW h \in Handler, Subscribing(h)
    PROVE  IInv'
<1>1. CASE SubscribeLock(h)
  <2>1. BusTypeOK'
    BY <1>1 DEF SubscribeLock, IInv, BusTypeOK, SubState
  <2>2. SliceOK' /\ DoneStays
    BY <1>1 DEF SubscribeLock, IInv, BusTypeOK, SliceOK, InSlice, DoneStays
  <2> QED BY <1>1, <2>1, <2>2, SubscribeStep DEF SubscribeLock
<1>2. CASE SubscribeAppend(h)
  <2>1. handlers \in Seq(Handler) /\ IsInjective(handlers) /\ h \notin ToSet(handlers)
    BY <1>2 DEF SubscribeAppend, IInv, BusTypeOK, SliceOK, InSlice
  <2>2. /\ handlers' \in Seq(Handler)
        /\ IsInjective(handlers')
        /\ ToSet(handlers') = ToSet(handlers) \cup {h}
    BY <1>2, <2>1, AppendToSlice DEF SubscribeAppend
  <2>3. BusTypeOK'
    BY <1>2, <2>2 DEF SubscribeAppend, IInv, BusTypeOK, SubState
  <2>4. SliceOK' /\ DoneStays
    BY <1>2, <2>2 DEF SubscribeAppend, IInv, BusTypeOK, SliceOK, InSlice, DoneStays
  <2> QED BY <1>2, <2>3, <2>4, SubscribeStep DEF SubscribeAppend
<1>3. CASE SubscribeUnlock(h)
  <2>1. BusTypeOK'
    BY <1>3 DEF SubscribeUnlock, IInv, BusTypeOK, SubState
  <2>2. SliceOK' /\ DoneStays
    BY <1>3 DEF SubscribeUnlock, IInv, BusTypeOK, SliceOK, InSlice, DoneStays
  <2> QED BY <1>3, <2>1, <2>2, SubscribeStep DEF SubscribeUnlock
<1> QED BY <1>1, <1>2, <1>3 DEF Subscribing

-----------------------------------------------------------------------------
\* Publish

\* What a step of publisher p makes of its record.
Sets(p, q) == pub' = [pub EXCEPT ![p] = q]

LEMMA SetsPub ==
    ASSUME BusTypeOK, NEW p \in Publisher, NEW q \in Publication, Sets(p, q)
    PROVE  /\ pub' \in [Publisher -> Publication]
           /\ pub'[p] = q
           /\ \A x \in Publisher \ {p} : pub'[x] = pub[x]
BY DEF BusTypeOK, Sets

LEMMA PublishCallKeeps ==
    ASSUME IInv, NEW p \in Publisher, PublishCall(p)
    PROVE  IInv'
<1> DEFINE q == [pub[p] EXCEPT !.pc = "rlock"]
<1>1. q \in Publication /\ Sets(p, q) /\ pub[p].pc = "idle" /\ UNCHANGED <<run, errs>> /\ KeepLock
  BY DEF PublishCall, IInv, BusTypeOK, Publication, Sets
<1>2. /\ q.pc = "rlock" /\ q.hs = pub[p].hs /\ q.next = pub[p].next /\ q.wg = pub[p].wg
      /\ q.result = pub[p].result
  BY DEF IInv, BusTypeOK, Publication
<1> HIDE DEF q
<1>3. /\ pub' \in [Publisher -> Publication]
      /\ pub'[p] = q
      /\ \A x \in Publisher \ {p} : pub'[x] = pub[x]
  BY <1>1, SetsPub DEF IInv
<1>4. /\ before' \in [Publisher -> SUBSET Handler]
      /\ before'[p] = {h \in Handler : sub[h] = "done"}
      /\ \A x \in Publisher \ {p} : before'[x] = before[x]
  BY DEF PublishCall, IInv, BusTypeOK
<1>5. BusTypeOK'
  BY <1>1, <1>3, <1>4 DEF IInv, BusTypeOK, KeepLock
<1>6. ReadOK(p)'
  BY <1>1, <1>2, <1>3, <1>4 DEF IInv, PublisherOK, ReadOK, Early, KeepLock
<1>7. StartedOK(p)'
  BY <1>1, <1>2, <1>3 DEF IInv, PublisherOK, StartedOK
<1>8. WaitGroupOK(p)' /\ ReturnOK(p)'
  BY <1>1, <1>2, <1>3 DEF IInv, PublisherOK, WaitGroupOK, Waited, ReturnOK
<1> QED BY <1>1, <1>3, <1>4, <1>5, <1>6, <1>7, <1>8, PublisherStep DEF PublisherOK

LEMMA PublishRLockKeeps ==
    ASSUME IInv, NEW p \in Publisher, PublishRLock(p)
    PROVE  IInv'
<1> DEFINE q == [pub[p] EXCEPT !.pc = "read"]
<1>1. /\ q \in Publication /\ Sets(p, q) /\ pub[p].pc = "rlock"
      /\ UNCHANGED <<handlers, writer, sub, run, errs, before>>
  BY DEF PublishRLock, IInv, BusTypeOK, Publication, Sets
<1>2. /\ q.pc = "read" /\ q.hs = pub[p].hs /\ q.next = pub[p].next /\ q.wg = pub[p].wg
      /\ q.result = pub[p].result
  BY DEF IInv, BusTypeOK, Publication
<1> HIDE DEF q
<1>3. /\ pub' \in [Publisher -> Publication]
      /\ pub'[p] = q
      /\ \A x \in Publisher \ {p} : pub'[x] = pub[x]
  BY <1>1, SetsPub DEF IInv
<1>4. BusTypeOK'
  BY <1>1, <1>3 DEF IInv, BusTypeOK, PublishRLock
<1>5. ReadOK(p)' /\ StartedOK(p)'
  BY <1>1, <1>2, <1>3 DEF IInv, PublisherOK, ReadOK, Early, StartedOK
<1>6. WaitGroupOK(p)' /\ ReturnOK(p)'
  BY <1>1, <1>2, <1>3 DEF IInv, PublisherOK, WaitGroupOK, Waited, ReturnOK
<1> QED BY <1>1, <1>3, <1>4, <1>5, <1>6, PublisherStep DEF PublisherOK

\* The slice that is read holds whoever was subscribed before the call, for a
\* subscription that has returned is in the slice and stays there.
LEMMA PublishReadKeeps ==
    ASSUME IInv, NEW p \in Publisher, PublishRead(p)
    PROVE  IInv'
<1> DEFINE q == [pub[p] EXCEPT !.pc = "spawn", !.hs = handlers]
<1>1. /\ q \in Publication /\ Sets(p, q) /\ pub[p].pc = "read"
      /\ UNCHANGED <<handlers, writer, sub, run, errs, before>>
  BY DEF PublishRead, IInv, BusTypeOK, Publication, Sets
<1>2. /\ q.pc = "spawn" /\ q.hs = handlers /\ q.next = pub[p].next /\ q.wg = pub[p].wg
      /\ q.result = pub[p].result
  BY DEF IInv, BusTypeOK, Publication
<1> HIDE DEF q
<1>3. /\ pub' \in [Publisher -> Publication]
      /\ pub'[p] = q
      /\ \A x \in Publisher \ {p} : pub'[x] = pub[x]
  BY <1>1, SetsPub DEF IInv
<1>4. BusTypeOK'
  BY <1>1, <1>3 DEF IInv, BusTypeOK, PublishRead
<1>5. ReadOK(p)'
  <2>1. before[p] \subseteq ToSet(handlers) /\ IsInjective(handlers)
    BY DEF IInv, PublisherOK, ReadOK, SliceOK, InSlice, BusTypeOK
  <2> QED BY <1>1, <1>2, <1>3, <2>1 DEF IInv, PublisherOK, ReadOK, Early
<1>6. StartedOK(p)'
  <2>1. pub[p].next = 1
    BY <1>1, NothingInEmpty DEF IInv, PublisherOK, ReadOK, StartedOK, Early
  <2>2. Len(handlers) \in Nat
    BY LenProperties DEF IInv, BusTypeOK
  <2> QED BY <1>1, <1>2, <1>3, <2>1, <2>2 DEF IInv, PublisherOK, StartedOK
<1>7. WaitGroupOK(p)' /\ ReturnOK(p)'
  BY <1>1, <1>2, <1>3 DEF IInv, PublisherOK, WaitGroupOK, Waited, ReturnOK
<1> QED BY <1>1, <1>3, <1>4, <1>5, <1>6, <1>7, PublisherStep DEF PublisherOK

\* What a step of publisher p, or of one of its goroutines, makes of the goroutine at i.
SetsRun(p, i, g) == run' = [run EXCEPT ![p][i] = g]

LEMMA SetsOneRun ==
    ASSUME BusTypeOK, NEW p \in Publisher, NEW i \in Place, NEW g \in Goroutine, SetsRun(p, i, g)
    PROVE  /\ run' \in [Publisher -> [Place -> Goroutine]]
           /\ run'[p][i] = g
           /\ \A j \in Place \ {i} : run'[p][j] = run[p][j]
           /\ \A x \in Publisher \ {p} : run'[x] = run[x]
BY DEF BusTypeOK, SetsRun

\* Of a slice that was read, every place is one of Place.
LEMMA PlacesOfSlice ==
    ASSUME IInv, NEW p \in Publisher
    PROVE  /\ Len(pub[p].hs) \in Nat
           /\ 1..Len(pub[p].hs) \subseteq Place
<1>1. pub[p].hs \in Seq(Handler) /\ IsInjective(pub[p].hs)
  BY DEF IInv, BusTypeOK, Publication, PublisherOK, ReadOK
<1> QED BY <1>1, SliceFits, PlaceIsNat DEF Place

LEMMA PublishSpawnKeeps ==
    ASSUME IInv, NEW p \in Publisher, PublishSpawn(p)
    PROVE  IInv'
<1> DEFINE i == pub[p].next
           g == [run[p][i] EXCEPT !.state = "running"]
           q == [pub[p] EXCEPT !.next = i + 1, !.wg = @ + 1]
<1>1. /\ pub[p].pc = "spawn" /\ i \in 1..Len(pub[p].hs) /\ i \in Place
      /\ KeepLock /\ UNCHANGED <<errs, before>>
  BY PlacesOfSlice DEF PublishSpawn, IInv, PublisherOK, StartedOK
<1>2. g \in Goroutine /\ g.state = "running" /\ SetsRun(p, i, g)
  <2>1. run[p][i] \in Goroutine
    BY <1>1 DEF IInv, BusTypeOK
  <2>2. g \in Goroutine /\ g.state = "running"
    BY <2>1 DEF Goroutine, RunState
  <2>3. SetsRun(p, i, g)
    BY DEF PublishSpawn, SetsRun
  <2> QED BY <2>2, <2>3
<1>3. /\ q \in Publication /\ Sets(p, q) /\ q.pc = "spawn" /\ q.hs = pub[p].hs
      /\ q.next = i + 1 /\ q.wg = pub[p].wg + 1
  <2>1. pub[p] \in Publication /\ i + 1 \in Nat /\ pub[p].wg + 1 \in Nat
    BY <1>1 DEF IInv, BusTypeOK, Publication
  <2>2. /\ q \in Publication /\ q.pc = "spawn" /\ q.hs = pub[p].hs
        /\ q.next = i + 1 /\ q.wg = pub[p].wg + 1
    <3> DEFINE w == pub[p]
               n == i + 1
               k == w.wg + 1
    <3>1. w \in Publication /\ n \in Nat /\ k \in Nat /\ w.pc = "spawn"
      BY <1>1, <2>1
    <3>2. q = [w EXCEPT !.next = n, !.wg = k]
      OBVIOUS
    <3> HIDE DEF w, n, k, q, i
    <3>3. /\ q \in Publication /\ q.pc = "spawn" /\ q.hs = w.hs /\ q.next = n /\ q.wg = k
      BY <3>1, <3>2 DEF Publication
    <3> QED BY <3>3 DEF w, n, k
  <2>3. Sets(p, q)
    BY DEF PublishSpawn, Sets, IInv, BusTypeOK
  <2> QED BY <2>2, <2>3
<1>4. run[p][i].state = "none"
  BY <1>1 DEF IInv, PublisherOK, StartedOK
<1> HIDE DEF g, q
<1>5. /\ pub' \in [Publisher -> Publication]
      /\ pub'[p] = q
      /\ \A x \in Publisher \ {p} : pub'[x] = pub[x]
  BY <1>3, SetsPub DEF IInv
<1>6. /\ run' \in [Publisher -> [Place -> Goroutine]]
      /\ run'[p][i] = g
      /\ \A j \in Place \ {i} : run'[p][j] = run[p][j]
      /\ \A x \in Publisher \ {p} : run'[x] = run[x]
  BY <1>1, <1>2, SetsOneRun DEF IInv
<1> HIDE DEF i
<1>7. BusTypeOK'
  BY <1>1, <1>5, <1>6 DEF IInv, BusTypeOK, KeepLock
<1>8. ReadOK(p)'
  BY <1>1, <1>3, <1>5 DEF IInv, PublisherOK, ReadOK, Early, KeepLock
<1>9. StartedOK(p)'
  <2>1. \A j \in Place : run[p][j].state = "none" <=> j >= i
    BY DEF i, IInv, PublisherOK, StartedOK
  <2>2. Place \subseteq Nat /\ Len(pub[p].hs) \in Nat
    BY PlacesOfSlice, PlaceIsNat DEF Place
  <2>3. \A j \in Place : run'[p][j].state = "none" <=> j >= i + 1
    BY <1>1, <1>2, <1>6, <2>1, <2>2
  <2>4. i + 1 \in 1..(Len(pub[p].hs) + 1)
    BY <1>1, <2>2
  <2> QED BY <1>3, <1>5, <2>3, <2>4 DEF StartedOK
<1>10. WaitGroupOK(p)'
  <2>1. Waited(p)' = Waited(p) \cup {i} /\ i \notin Waited(p)
    BY <1>1, <1>2, <1>4, <1>6 DEF Waited, Unfinished
  <2>2. Cardinality(Waited(p)') = Cardinality(Waited(p)) + 1
    BY <2>1, WaitedFinite, FS_AddElement
  <2> QED BY <1>3, <1>5, <2>2 DEF IInv, PublisherOK, WaitGroupOK
<1>11. ReturnOK(p)'
  BY <1>3, <1>5 DEF ReturnOK
<1> QED BY <1>1, <1>5, <1>6, <1>7, <1>8, <1>9, <1>10, <1>11, PublisherStep DEF PublisherOK

LEMMA PublishSpawnedKeeps ==
    ASSUME IInv, NEW p \in Publisher, PublishSpawned(p)
    PROVE  IInv'
<1> DEFINE q == [pub[p] EXCEPT !.pc = "wait"]
<1>1. /\ q \in Publication /\ Sets(p, q) /\ pub[p].pc = "spawn" /\ pub[p].next > Len(pub[p].hs)
      /\ KeepLock /\ UNCHANGED <<run, errs, before>>
  BY DEF PublishSpawned, IInv, BusTypeOK, Publication, Sets
<1>2. q.pc = "wait" /\ q.hs = pub[p].hs /\ q.next = pub[p].next /\ q.wg = pub[p].wg
  BY DEF IInv, BusTypeOK, Publication
<1> HIDE DEF q
<1>3. /\ pub' \in [Publisher -> Publication]
      /\ pub'[p] = q
      /\ \A x \in Publisher \ {p} : pub'[x] = pub[x]
  BY <1>1, SetsPub DEF IInv
<1>4. BusTypeOK'
  BY <1>1, <1>3 DEF IInv, BusTypeOK, KeepLock
<1>5. ReadOK(p)'
  BY <1>1, <1>2, <1>3 DEF IInv, PublisherOK, ReadOK, Early, KeepLock
<1>6. StartedOK(p)'
  BY <1>1, <1>2, <1>3, PlacesOfSlice DEF IInv, PublisherOK, StartedOK
<1>7. WaitGroupOK(p)' /\ ReturnOK(p)'
  BY <1>1, <1>2, <1>3 DEF IInv, PublisherOK, WaitGroupOK, Waited, ReturnOK
<1> QED BY <1>1, <1>3, <1>4, <1>5, <1>6, <1>7, PublisherStep DEF PublisherOK

LEMMA PublishReturnKeeps ==
    ASSUME IInv, NEW p \in Publisher, PublishReturn(p)
    PROVE  IInv'
<1> DEFINE q == [pub[p] EXCEPT !.pc = "done", !.result = Result(p)]
<1>1. /\ q \in Publication /\ Sets(p, q) /\ pub[p].pc = "wait" /\ pub[p].wg = 0
      /\ KeepLock /\ UNCHANGED <<run, errs, before>>
  BY DEF PublishReturn, IInv, BusTypeOK, Publication, Sets, Result, Outcome
<1>2. /\ q.pc = "done" /\ q.hs = pub[p].hs /\ q.next = pub[p].next /\ q.wg = pub[p].wg
      /\ q.result = Result(p)
  BY DEF IInv, BusTypeOK, Publication
<1> HIDE DEF q
<1>3. /\ pub' \in [Publisher -> Publication]
      /\ pub'[p] = q
      /\ \A x \in Publisher \ {p} : pub'[x] = pub[x]
  BY <1>1, SetsPub DEF IInv
<1>4. BusTypeOK'
  BY <1>1, <1>3 DEF IInv, BusTypeOK, KeepLock
<1>5. ReadOK(p)' /\ StartedOK(p)'
  BY <1>1, <1>2, <1>3 DEF IInv, PublisherOK, ReadOK, Early, StartedOK, KeepLock
<1>6. WaitGroupOK(p)'
  BY <1>1, <1>2, <1>3 DEF IInv, PublisherOK, WaitGroupOK, Waited
<1>7. ReturnOK(p)'
  BY <1>1, <1>2, <1>3 DEF ReturnOK, Result
<1> QED BY <1>1, <1>3, <1>4, <1>5, <1>6, <1>7, PublisherStep DEF PublisherOK

-----------------------------------------------------------------------------
\* The goroutines of handlers

\* A goroutine that was started and goes on is one that Publish waits for.
LEMMA RunMoves ==
    ASSUME IInv, NEW p \in Publisher, NEW i \in Place, NEW g \in Goroutine, SetsRun(p, i, g),
           run[p][i].state \in Unfinished, g.state \in Unfinished,
           UNCHANGED <<handlers, readers, writer, pub, errs, before>>,
           sub' \in [Handler -> SubState],
           \A h \in Handler : /\ sub[h] = "done" <=> sub'[h] = "done"
                              /\ InSlice(h) <=> InSlice(h)'
    PROVE  IInv'
<1>1. /\ run' \in [Publisher -> [Place -> Goroutine]]
      /\ run'[p][i] = g
      /\ \A j \in Place \ {i} : run'[p][j] = run[p][j]
      /\ \A x \in Publisher \ {p} : run'[x] = run[x]
  BY SetsOneRun DEF IInv
<1>2. BusTypeOK' /\ SliceOK' /\ DoneStays
  BY <1>1 DEF IInv, BusTypeOK, SliceOK, DoneStays
<1>3. \A x \in Publisher \ {p} : PublisherOK(x)'
  BY <1>1, <1>2, PublisherStands DEF IInv
<1>4. ReadOK(p)'
  BY DEF IInv, BusTypeOK, PublisherOK, ReadOK
<1>5. StartedOK(p)'
  BY <1>1 DEF IInv, PublisherOK, StartedOK, Unfinished
<1>6. WaitGroupOK(p)' /\ ReturnOK(p)'
  <2>1. Waited(p)' = Waited(p)
    BY <1>1 DEF Waited
  <2> QED BY <2>1 DEF IInv, PublisherOK, WaitGroupOK, ReturnOK, Result
<1> QED BY <1>2, <1>3, <1>4, <1>5, <1>6 DEF IInv, PublisherOK

LEMMA RunSubscribesKeeps ==
    ASSUME IInv, NEW p \in Publisher, NEW i \in Place, NEW h \in Handler, RunSubscribes(p, i, h)
    PROVE  IInv'
<1> DEFINE g == [state |-> "subscribing", calls |-> h]
<1>1. g \in Goroutine /\ g.state \in Unfinished /\ SetsRun(p, i, g)
  BY DEF RunSubscribes, SetsRun, Goroutine, RunState, Unfinished
<1>2. /\ run[p][i].state \in Unfinished
      /\ UNCHANGED <<handlers, readers, writer, pub, errs, before>>
  BY DEF RunSubscribes, Unfinished
<1>3. /\ sub' \in [Handler -> SubState]
      /\ \A x \in Handler : /\ sub[x] = "done" <=> sub'[x] = "done"
                            /\ InSlice(x) <=> InSlice(x)'
  BY DEF RunSubscribes, SubscribeCall, IInv, BusTypeOK, SubState, InSlice
<1> QED BY <1>1, <1>2, <1>3, RunMoves

LEMMA RunSubscribedKeeps ==
    ASSUME IInv, NEW p \in Publisher, NEW i \in Place, RunSubscribed(p, i)
    PROVE  IInv'
<1> DEFINE g == [run[p][i] EXCEPT !.state = "running"]
<1>1. g \in Goroutine /\ g.state \in Unfinished
  <2>1. run[p][i] \in Goroutine
    BY DEF IInv, BusTypeOK
  <2> QED BY <2>1 DEF Goroutine, RunState, Unfinished
<1>2. SetsRun(p, i, g)
  BY DEF RunSubscribed, SetsRun
<1>3. /\ run[p][i].state \in Unfinished
      /\ UNCHANGED <<handlers, readers, writer, sub, pub, errs, before>>
  BY DEF RunSubscribed, Unfinished, KeepLock
<1>4. /\ sub' \in [Handler -> SubState]
      /\ \A x \in Handler : /\ sub[x] = "done" <=> sub'[x] = "done"
                            /\ InSlice(x) <=> InSlice(x)'
  BY <1>3 DEF IInv, BusTypeOK, InSlice
<1> QED BY <1>1, <1>2, <1>3, <1>4, RunMoves

\* A handler that returns has been waited for, so Publish has not returned and its result
\* is still to be made.
LEMMA RunReturnsKeeps ==
    ASSUME IInv, NEW p \in Publisher, NEW i \in Place, NEW outcome \in Outcome,
           RunReturns(p, i, outcome)
    PROVE  IInv'
<1> DEFINE g == [run[p][i] EXCEPT !.state = "done"]
           q == [pub[p] EXCEPT !.wg = @ - 1]
<1>1. /\ run[p][i].state = "running" /\ KeepLock /\ UNCHANGED before
      /\ errs' = [errs EXCEPT ![p][i] = outcome]
  BY DEF RunReturns
<1>2. i \in Waited(p) /\ Cardinality(Waited(p) \ {i}) = Cardinality(Waited(p)) - 1
  BY <1>1, WaitedFinite, FS_RemoveElement DEF Waited, Unfinished
<1>3. Cardinality(Waited(p) \ {i}) \in Nat
  BY WaitedFinite, FS_RemoveElement, FS_CardinalityType
<1>4. pub[p].wg = Cardinality(Waited(p)) /\ pub[p].wg # 0 /\ pub[p].wg - 1 \in Nat
  BY <1>2, <1>3, WaitedFinite DEF IInv, PublisherOK, WaitGroupOK
<1>5. g \in Goroutine /\ g.state = "done"
  <2>1. run[p][i] \in Goroutine
    BY DEF IInv, BusTypeOK
  <2> QED BY <2>1 DEF Goroutine, RunState
<1>6. SetsRun(p, i, g) /\ Sets(p, q)
  BY DEF RunReturns, SetsRun, Sets
<1>7. /\ q \in Publication /\ q.pc = pub[p].pc /\ q.hs = pub[p].hs /\ q.next = pub[p].next
      /\ q.wg = pub[p].wg - 1 /\ q.result = pub[p].result
  BY <1>4 DEF IInv, BusTypeOK, Publication
<1> HIDE DEF g, q
<1>8. /\ pub' \in [Publisher -> Publication]
      /\ pub'[p] = q
      /\ \A x \in Publisher \ {p} : pub'[x] = pub[x]
  BY <1>6, <1>7, SetsPub DEF IInv
<1>9. /\ run' \in [Publisher -> [Place -> Goroutine]]
      /\ run'[p][i] = g
      /\ \A j \in Place \ {i} : run'[p][j] = run[p][j]
      /\ \A x \in Publisher \ {p} : run'[x] = run[x]
  BY <1>5, <1>6, SetsOneRun DEF IInv
<1>10. /\ errs' \in [Publisher -> [Place -> Outcome]]
       /\ \A x \in Publisher \ {p} : errs'[x] = errs[x]
  BY <1>1 DEF IInv, BusTypeOK
<1>11. BusTypeOK'
  BY <1>1, <1>8, <1>9, <1>10 DEF IInv, BusTypeOK, KeepLock
<1>12. ReadOK(p)'
  BY <1>1, <1>7, <1>8 DEF IInv, PublisherOK, ReadOK, KeepLock
<1>13. StartedOK(p)'
  BY <1>1, <1>5, <1>7, <1>8, <1>9 DEF IInv, PublisherOK, StartedOK
<1>14. WaitGroupOK(p)'
  <2>1. Waited(p)' = Waited(p) \ {i}
    BY <1>5, <1>9 DEF Waited, Unfinished
  <2> QED BY <1>2, <1>4, <1>7, <1>8, <2>1 DEF WaitGroupOK
<1>15. ReturnOK(p)'
  BY <1>4, <1>7, <1>8 DEF IInv, PublisherOK, ReturnOK
<1> QED BY <1>1, <1>8, <1>9, <1>10, <1>11, <1>12, <1>13, <1>14, <1>15, PublisherStep DEF PublisherOK

-----------------------------------------------------------------------------
\* The theorems

LEMMA NextKeepsInvariant == IInv /\ [BusNext]_busVars => IInv'
<1> SUFFICES ASSUME IInv, [BusNext]_busVars PROVE IInv'
  OBVIOUS
<1>1. ASSUME NEW h \in Handler, SubscribeFromOutside(h) \/ Subscribing(h)
      PROVE  IInv'
  BY <1>1, SubscribeFromOutsideKeeps, SubscribingKeeps
<1>2. ASSUME NEW p \in Publisher, PublishCall(p) \/ Publishing(p)
      PROVE  IInv'
  BY <1>2, PublishCallKeeps, PublishRLockKeeps, PublishReadKeeps, PublishSpawnKeeps,
     PublishSpawnedKeeps, PublishReturnKeeps DEF Publishing
<1>3. ASSUME NEW p \in Publisher, NEW i \in Place,
             Running(p, i) \/ \E h \in Handler : RunSubscribes(p, i, h)
      PROVE  IInv'
  BY <1>3, RunSubscribesKeeps, RunSubscribedKeeps, RunReturnsKeeps DEF Running
<1>4. CASE UNCHANGED busVars
  <2>1. BusTypeOK' /\ SliceOK' /\ DoneStays
    BY <1>4 DEF busVars, IInv, BusTypeOK, SliceOK, InSlice, DoneStays
  <2> QED BY <1>4, <2>1, SubscribeStep DEF busVars
<1> QED BY <1>1, <1>2, <1>3, <1>4 DEF BusNext

\* The variables of bus.go have the types the model gives them, in particular no Publish
\* has more goroutines than there are places and no WaitGroup is ever negative, which
\* would panic.
THEOREM BusTypeCorrect == BusSpec => []BusTypeOK
<1>1. IInv => BusTypeOK
  BY DEF IInv
<1> QED BY <1>1, InitInvariant, NextKeepsInvariant, PTL DEF BusSpec

\* Whoever's Subscribe has returned is in the slice, once (bus.go:69-73), for any number
\* of goroutines that subscribe at the same time.
THEOREM NoSubscriptionLostHolds == BusSpec => []NoSubscriptionLost
<1>1. IInv => NoSubscriptionLost
  BY DEF IInv, SliceOK, InSlice, NoSubscriptionLost
<1> QED BY <1>1, InitInvariant, NextKeepsInvariant, PTL DEF BusSpec

\* Publish returns after every handler subscribed before it was called, and every other
\* that it started, has returned, and with an error if and only if one of them failed
\* (bus.go:36-67).
THEOREM PublishWaitsForAllHolds == BusSpec => []PublishWaitsForAll
<1>1. ASSUME IInv, NEW p \in Publisher, pub[p].pc = "done"
      PROVE  /\ before[p] \subseteq ToSet(pub[p].hs)
             /\ \A i \in 1..Len(pub[p].hs) : run[p][i].state = "done"
             /\ pub[p].result = "error" <=> \E i \in 1..Len(pub[p].hs) : errs[p][i] = "error"
  <2>1. before[p] \subseteq ToSet(pub[p].hs)
    BY <1>1 DEF IInv, PublisherOK, ReadOK, Early
  <2>2. Waited(p) = {}
    BY <1>1, WaitedFinite, FS_EmptySet DEF IInv, PublisherOK, WaitGroupOK, ReturnOK
  <2>3. ASSUME NEW i \in 1..Len(pub[p].hs)
        PROVE  run[p][i].state = "done"
    <3>1. i \in Place /\ ~(i >= Len(pub[p].hs) + 1)
      BY <1>1, PlacesOfSlice
    <3>2. run[p][i].state \in RunState /\ run[p][i].state # "none"
      BY <1>1, <3>1 DEF IInv, BusTypeOK, Goroutine, PublisherOK, StartedOK
    <3> QED BY <2>2, <3>1, <3>2 DEF Waited, Unfinished, RunState
  <2>4. pub[p].result = Result(p)
    BY <1>1 DEF IInv, PublisherOK, ReturnOK
  <2> QED BY <2>1, <2>3, <2>4 DEF Result
<1>2. IInv => PublishWaitsForAll
  BY <1>1 DEF PublishWaitsForAll
<1> QED BY <1>2, InitInvariant, NextKeepsInvariant, PTL DEF BusSpec

-----------------------------------------------------------------------------
\* The lock

\* The lock is held by who is between taking it and giving it back, and nobody else.
LockOK ==
    /\ \A h \in Handler : sub[h] \in {"append", "unlock"} <=> writer = h
    /\ \A p \in Publisher : pub[p].pc = "read" <=> p \in readers

LEMMA LockStep == IInv /\ LockOK /\ [BusNext]_busVars => LockOK'
<1> SUFFICES ASSUME IInv, LockOK, [BusNext]_busVars PROVE LockOK'
  OBVIOUS
<1>0. Nobody \notin Handler
  BY NobodyAssumption DEF Thread
<1>1. ASSUME NEW h \in Handler, SubscribeFromOutside(h) \/ Subscribing(h)
      PROVE  LockOK'
  <2> USE <1>0 DEF LockOK, IInv, BusTypeOK
  <2>1. CASE SubscribeFromOutside(h)
    BY <2>1 DEF SubscribeFromOutside, SubscribeCall
  <2>2. CASE SubscribeLock(h)
    BY <2>2 DEF SubscribeLock, CanLock
  <2>3. CASE SubscribeAppend(h)
    BY <2>3 DEF SubscribeAppend
  <2>4. CASE SubscribeUnlock(h)
    BY <2>4 DEF SubscribeUnlock
  <2> QED BY <1>1, <2>1, <2>2, <2>3, <2>4 DEF Subscribing
<1>2. ASSUME NEW p \in Publisher, PublishCall(p) \/ Publishing(p)
      PROVE  LockOK'
  <2> USE DEF LockOK, IInv, BusTypeOK, Publication
  <2>1. CASE PublishCall(p)
    BY <2>1 DEF PublishCall, KeepLock
  <2>2. CASE PublishRLock(p)
    BY <2>2 DEF PublishRLock
  <2>3. CASE PublishRead(p)
    BY <2>3 DEF PublishRead
  <2>4. CASE PublishSpawn(p)
    BY <2>4 DEF PublishSpawn, KeepLock
  <2>5. CASE PublishSpawned(p)
    BY <2>5 DEF PublishSpawned, KeepLock
  <2>6. CASE PublishReturn(p)
    BY <2>6 DEF PublishReturn, KeepLock
  <2> QED BY <1>2, <2>1, <2>2, <2>3, <2>4, <2>5, <2>6 DEF Publishing
<1>3. ASSUME NEW p \in Publisher, NEW i \in Place,
             Running(p, i) \/ \E h \in Handler : RunSubscribes(p, i, h)
      PROVE  LockOK'
  <2> USE DEF LockOK, IInv, BusTypeOK, Publication
  <2>1. ASSUME NEW h \in Handler, RunSubscribes(p, i, h)
        PROVE  LockOK'
    BY <2>1 DEF RunSubscribes, SubscribeCall
  <2>2. CASE RunSubscribed(p, i)
    BY <2>2 DEF RunSubscribed, KeepLock
  <2>3. ASSUME NEW outcome \in Outcome, RunReturns(p, i, outcome)
        PROVE  LockOK'
    BY <2>3 DEF RunReturns, KeepLock
  <2> QED BY <1>3, <2>1, <2>2, <2>3 DEF Running
<1>4. CASE UNCHANGED busVars
  BY <1>4 DEF busVars, LockOK
<1> QED BY <1>1, <1>2, <1>3, <1>4 DEF BusNext

\* Who holds the lock never waits for a handler, for the WaitGroup or for the lock: what it
\* does next is to give it back, at once or when the readers have, who all do.  This is why
\* a handler may call Subscribe from within Publish (bus.go:48-50 unlocks before it runs
\* them) and why PublishReturns holds.
LockHeldBriefly ==
    /\ writer # Nobody => sub[writer] \in {"append", "unlock"}
    /\ \A p \in readers : pub[p].pc = "read"

THEOREM LockHeldBrieflyHolds == BusSpec => []LockHeldBriefly
<1>1. BusInit => LockOK
  BY NobodyAssumption DEF BusInit, LockOK, Thread
<1>2. IInv /\ LockOK => LockHeldBriefly
  BY DEF IInv, BusTypeOK, LockOK, LockHeldBriefly
<1> QED BY <1>1, <1>2, LockStep, InitInvariant, NextKeepsInvariant, PTL DEF BusSpec
=============================================================================

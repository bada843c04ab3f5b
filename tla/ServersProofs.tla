--------------------------- MODULE ServersProofs ----------------------------
(***************************************************************************)
(* main and what it starts, for any numbers of sockets, packets, clients,  *)
(* jobs, pieces of work and log entries: the logger, the UDP and the TCP   *)
(* server, the rate limiter in front of them, the scheduler, and the order *)
(* in which main opens and closes the parts they use.                      *)
(***************************************************************************)
EXTENDS FileLogger, UDPServer, RateLimiter, ServerMain, Scheduler, TCPServer, TLAPS

-----------------------------------------------------------------------------
(* The logger.                                                             *)

\* What is written, in hand and waiting is in order; a sentinel stands in the channel
\* behind every entry its caller waits for, and is not there before it is sent.
LogInv ==
  LET drainSet == {drainHas} \ {LNothing}
  IN /\ logCh \in Seq(Nat \cup LCaller) /\ logFile \in Seq(Nat \cup LCaller)
     /\ drainHas \in Nat \cup {LNothing}
     /\ calls \in Nat /\ logged \subseteq 1 .. calls
     /\ DOMAIN fatal = LCaller /\ DOMAIN pending = LCaller
     /\ InOrder(logFile) /\ InOrder(logCh)
     /\ \A x \in Entries(logFile), y \in drainSet \cup Entries(logCh) : x < y
     /\ \A x \in drainSet, y \in Entries(logCh) : x < y
     /\ logged = Entries(logFile) \cup drainSet \cup Entries(logCh)
     /\ \A p \in LCaller :
          /\ pending[p] \subseteq logged
          /\ fatal[p] = "flushed" => pending[p] \subseteq Entries(logFile)
          /\ fatal[p] \in {"no", "flushing"} => \A i \in 1 .. Len(logCh) : logCh[i] # p
          /\ \A i, j \in 1 .. Len(logCh) : logCh[j] = p /\ logCh[i] \in pending[p] => i < j

\* An element is put at the end of a sequence.
LEMMA AppendOrder ==
  ASSUME NEW s \in Seq(Nat \cup LCaller), NEW x \in Nat \cup LCaller, InOrder(s),
         x \notin LCaller => \A y \in Entries(s) : y < x
  PROVE  /\ Append(s, x) \in Seq(Nat \cup LCaller) /\ InOrder(Append(s, x))
         /\ Entries(Append(s, x)) = Entries(s) \cup ({x} \ LCaller)
<1> DEFINE t == Append(s, x)
<1>1. /\ t \in Seq(Nat \cup LCaller) /\ Len(t) = Len(s) + 1 /\ Len(s) \in Nat
      /\ t[Len(s) + 1] = x /\ \A i \in 1 .. Len(s) : t[i] = s[i]
  OBVIOUS
<1> HIDE DEF t
<1>2. Entries(t) = Entries(s) \cup ({x} \ LCaller)
  BY <1>1 DEF Entries
<1>3. InOrder(t)
  <2> SUFFICES ASSUME NEW i \in 1 .. Len(t), NEW j \in 1 .. Len(t), i < j,
                      t[i] \notin LCaller, t[j] \notin LCaller
               PROVE  t[i] < t[j]
    BY Zenon DEF InOrder
  <2>1. CASE j \in 1 .. Len(s)
    BY <1>1, <2>1 DEF InOrder
  <2>2. CASE j = Len(s) + 1
    BY <1>1, <2>2 DEF Entries
  <2> QED
    BY <1>1, <2>1, <2>2
<1> QED
  BY <1>1, <1>2, <1>3, Zenon DEF t

\* The first element is taken from a sequence.
LEMMA TailOrder ==
  ASSUME NEW s \in Seq(Nat \cup LCaller), s # <<>>, InOrder(s)
  PROVE  /\ Tail(s) \in Seq(Nat \cup LCaller) /\ Head(s) \in Nat \cup LCaller
         /\ Len(s) \in Nat \ {0} /\ Head(s) = s[1] /\ Len(Tail(s)) = Len(s) - 1
         /\ \A i \in 1 .. Len(Tail(s)) : Tail(s)[i] = s[i + 1]
         /\ InOrder(Tail(s)) /\ Entries(s) = ({Head(s)} \ LCaller) \cup Entries(Tail(s))
         /\ Head(s) \notin LCaller => \A y \in Entries(Tail(s)) : Head(s) < y
<1> DEFINE t == Tail(s)
<1>1. /\ t \in Seq(Nat \cup LCaller) /\ Len(s) \in Nat \ {0} /\ Len(t) = Len(s) - 1
      /\ Head(s) = s[1] /\ \A i \in 1 .. Len(t) : t[i] = s[i + 1]
  OBVIOUS
<1> HIDE DEF t
<1>2. InOrder(t)
  <2> SUFFICES ASSUME NEW i \in 1 .. Len(t), NEW j \in 1 .. Len(t), i < j,
                      t[i] \notin LCaller, t[j] \notin LCaller
               PROVE  t[i] < t[j]
    BY Zenon DEF InOrder
  <2>1. /\ i + 1 \in 1 .. Len(s) /\ j + 1 \in 1 .. Len(s) /\ i + 1 < j + 1
        /\ t[i] = s[i + 1] /\ t[j] = s[j + 1]
    BY <1>1
  <2> QED
    BY <2>1, Zenon DEF InOrder
<1>3. Entries(s) = ({Head(s)} \ LCaller) \cup Entries(t)
  <2>1. \A i \in 1 .. Len(s) : i = 1 \/ (s[i] = t[i - 1] /\ i - 1 \in 1 .. Len(t))
    BY <1>1
  <2>2. \A i \in 1 .. Len(t) : t[i] = s[i + 1] /\ i + 1 \in 1 .. Len(s)
    BY <1>1
  <2>3. 1 \in 1 .. Len(s) /\ Head(s) = s[1]
    BY <1>1
  <2>4. ASSUME NEW y \in Entries(s) PROVE y \in ({Head(s)} \ LCaller) \cup Entries(t)
    <3>1. PICK i \in 1 .. Len(s) : y = s[i] /\ y \notin LCaller
      BY Zenon DEF Entries
    <3>2. CASE i = 1
      BY <2>3, <3>1, <3>2, Zenon
    <3>3. CASE i # 1
      <4>1. y = t[i - 1] /\ i - 1 \in 1 .. Len(t)
        BY <2>1, <3>1, <3>3, Zenon
      <4> QED
        BY <3>1, <4>1, Zenon DEF Entries
    <3> QED
      BY <3>2, <3>3, Zenon
  <2>5. ASSUME NEW y \in Entries(t) PROVE y \in Entries(s)
    <3>1. PICK i \in 1 .. Len(t) : y = t[i] /\ y \notin LCaller
      BY Zenon DEF Entries
    <3> QED
      BY <2>2, <3>1, Zenon DEF Entries
  <2>6. {Head(s)} \ LCaller \subseteq Entries(s)
    BY <2>3, Zenon DEF Entries
  <2> QED
    BY <2>4, <2>5, <2>6, Zenon
<1>4. ASSUME Head(s) \notin LCaller, NEW y \in Entries(t) PROVE Head(s) < y
  <2>1. PICK i \in 1 .. Len(t) : y = t[i] /\ y \notin LCaller
    BY Zenon DEF Entries
  <2>2. 1 \in 1 .. Len(s) /\ i + 1 \in 1 .. Len(s) /\ y = s[i + 1] /\ 1 < i + 1
    BY <1>1, <2>1
  <2> QED
    BY <1>1, <1>4, <2>1, <2>2 DEF InOrder
<1>5. Head(s) \in Nat \cup LCaller
  OBVIOUS
<1> QED
  BY <1>1, <1>2, <1>3, <1>4, <1>5, Zenon DEF t

\* The invariant in the words of the property.
LEMMA LogInvLine == LogInv => FatalLosesNothing
<1> SUFFICES ASSUME LogInv PROVE Entries(Line) = logged /\ InOrder(Line)
  BY Zenon DEF LogInv, FatalLosesNothing
<1> DEFINE mid == IF drainHas = LNothing THEN <<>> ELSE <<drainHas>>
           F == Len(logFile)
           M == Len(mid)
           C == Len(logCh)
<1>1. /\ F \in Nat /\ C \in Nat /\ M \in Nat /\ logFile \in Seq(Nat \cup LCaller)
      /\ logCh \in Seq(Nat \cup LCaller) /\ mid \in Seq(Nat \cup LCaller)
  <2>1. drainHas # LNothing => drainHas \in Nat
    BY Zenon DEF LogInv
  <2>2. CASE drainHas = LNothing
    BY <2>2 DEF LogInv
  <2>3. CASE drainHas # LNothing
    <3>1. mid = <<drainHas>> /\ drainHas \in Nat \cup LCaller
      BY <2>1, <2>3, Zenon
    <3>2. <<drainHas>> \in Seq(Nat \cup LCaller) /\ Len(<<drainHas>>) \in Nat
      BY <3>1
    <3>3. /\ Len(logFile) \in Nat /\ Len(logCh) \in Nat /\ logFile \in Seq(Nat \cup LCaller)
          /\ logCh \in Seq(Nat \cup LCaller)
      BY DEF LogInv
    <3> QED
      BY <3>1, <3>2, <3>3, Zenon
  <2> QED
    BY <2>2, <2>3, Zenon
<1>2. /\ Len(Line) = F + M + C
      /\ \A i \in 1 .. F : Line[i] = logFile[i]
      /\ \A i \in F + 1 .. F + M : Line[i] = mid[i - F]
      /\ \A i \in F + M + 1 .. F + M + C : Line[i] = logCh[i - F - M]
  BY <1>1 DEF Line
<1>3. /\ drainHas = LNothing => M = 0
      /\ drainHas # LNothing => M = 1 /\ mid[1] = drainHas /\ drainHas \in Nat /\ drainHas \notin LCaller
  BY LAssumption, Zenon DEF LogInv
<1> HIDE DEF mid, F, M, C
<1> DEFINE drainSet == {drainHas} \ {LNothing}
<1>4. \A i \in 1 .. F : Line[i] \notin LCaller => Line[i] \in Entries(logFile)
  BY <1>1, <1>2, Zenon DEF Entries, F
<1>5. \A i \in F + 1 .. F + M : Line[i] \in drainSet /\ i = F + 1
  BY <1>1, <1>2, <1>3
<1>6. \A i \in F + M + 1 .. F + M + C : Line[i] \notin LCaller => Line[i] \in Entries(logCh)
  BY <1>1, <1>2 DEF Entries, C
<1>7. \A i \in 1 .. Len(Line) : i \in 1 .. F \/ i \in F + 1 .. F + M \/ i \in F + M + 1 .. F + M + C
  BY <1>1, <1>2
<1>8. logged = Entries(logFile) \cup drainSet \cup Entries(logCh)
  BY Zenon DEF LogInv
<1>9. Entries(Line) \subseteq logged
  BY <1>4, <1>5, <1>6, <1>7, <1>8, Zenon DEF Entries
<1>10. logged \subseteq Entries(Line)
  <2>1. Entries(logFile) \subseteq Entries(Line)
    BY <1>1, <1>2 DEF Entries, F
  <2>2. drainSet \subseteq Entries(Line)
    <3>1. ASSUME drainHas # LNothing
          PROVE  F + 1 \in 1 .. Len(Line) /\ Line[F + 1] = drainHas /\ drainHas \notin LCaller
      BY <1>1, <1>2, <1>3, <3>1
    <3> QED
      BY <3>1, Zenon DEF Entries
  <2>3. ASSUME NEW y \in Entries(logCh) PROVE y \in Entries(Line)
    <3>1. PICK k \in 1 .. C : y = logCh[k] /\ y \notin LCaller
      BY Zenon DEF Entries, C
    <3>2. F + M + k \in 1 .. Len(Line) /\ Line[F + M + k] = y
      BY <1>1, <1>2, <3>1
    <3> QED
      BY <3>1, <3>2, Zenon DEF Entries
  <2> QED
    BY <1>8, <2>1, <2>2, <2>3, Zenon
<1>11. InOrder(Line)
  <2> SUFFICES ASSUME NEW i \in 1 .. Len(Line), NEW j \in 1 .. Len(Line), i < j,
                      Line[i] \notin LCaller, Line[j] \notin LCaller
               PROVE  Line[i] < Line[j]
    BY Zenon DEF InOrder
  <2>1. CASE j \in 1 .. F
    <3>1. i \in 1 .. F
      BY <1>1, <2>1
    <3>2. Line[i] = logFile[i] /\ Line[j] = logFile[j]
      BY <1>2, <2>1, <3>1, Zenon
    <3> QED
      BY <2>1, <3>1, <3>2, Zenon DEF LogInv, InOrder, F
  <2>2. CASE i \in 1 .. F /\ j \notin 1 .. F
    <3>1. Line[i] \in Entries(logFile) /\ Line[j] \in drainSet \cup Entries(logCh)
      BY <1>4, <1>5, <1>6, <1>7, <2>2, Zenon
    <3> QED
      BY <3>1, Zenon DEF LogInv
  <2>3. CASE i \in F + 1 .. F + M /\ j \notin 1 .. F
    <3>1. Line[i] \in drainSet /\ Line[j] \in Entries(logCh)
      BY <1>5, <1>6, <1>7, <2>3
    <3> QED
      BY <3>1, Zenon DEF LogInv
  <2>4. CASE i \in F + M + 1 .. F + M + C /\ j \in F + M + 1 .. F + M + C
    <3>1. /\ i - F - M \in 1 .. C /\ j - F - M \in 1 .. C /\ i - F - M < j - F - M
          /\ Line[i] = logCh[i - F - M] /\ Line[j] = logCh[j - F - M]
      BY <1>1, <1>2, <2>4
    <3> QED
      BY <3>1, Zenon DEF LogInv, InOrder, C
  <2> QED
    BY <1>1, <1>7, <2>1, <2>2, <2>3, <2>4
<1> QED
  BY <1>9, <1>10, <1>11, Zenon

\* Nothing is logged at first.
LEMMA LogInvInit == LInit => LogInv
<1> SUFFICES ASSUME LInit PROVE LogInv
  OBVIOUS
<1>1. /\ logCh = <<>> /\ logFile = <<>> /\ drainHas = LNothing /\ logged = {} /\ calls = 0
      /\ fatal = [p \in LCaller |-> "no"] /\ pending = [p \in LCaller |-> {}]
  BY Zenon DEF LInit
<1>2. Len(logCh) = 0 /\ Len(logFile) = 0 /\ logCh \in Seq(Nat \cup LCaller) /\ logFile \in Seq(Nat \cup LCaller)
  BY <1>1
<1>3. /\ \A i \in 1 .. Len(logCh) : FALSE
      /\ \A i \in 1 .. Len(logFile) : FALSE
  BY <1>2
<1>4. Entries(logCh) = {} /\ Entries(logFile) = {} /\ InOrder(logCh) /\ InOrder(logFile)
  BY <1>3, Zenon DEF Entries, InOrder
<1> QED
  BY <1>1, <1>2, <1>3, <1>4, Zenon DEF LogInv

\* An entry that finds room has a higher number than all before it; one that does
\* not leaves only its number behind.
LEMMA SendInv == ASSUME LogInv, Send PROVE LogInv'
<1>1. /\ calls' = calls + 1 /\ calls \in Nat
      /\ UNCHANGED <<drainHas, logFile, fatal, pending, alive>>
  BY Zenon DEF Send, LogInv
<1>2. CASE UNCHANGED <<logCh, logged>>
  BY <1>1, <1>2 DEF LogInv
<1>3. CASE logCh' = Append(logCh, calls + 1) /\ logged' = logged \cup {calls + 1}
  <2> DEFINE e == calls + 1
             drainSet == {drainHas} \ {LNothing}
  <2>1. /\ e \in Nat /\ e \notin LCaller /\ \A x \in logged : x < e /\ x # e
    BY <1>1, LAssumption DEF LogInv
  <2>2. Entries(logFile) \cup drainSet \cup Entries(logCh) = logged
    BY Zenon DEF LogInv
  <2> HIDE DEF e
  <2>3. logCh' = Append(logCh, e) /\ logged' = logged \cup {e} /\ logged' \subseteq 1 .. calls'
    BY <1>1, <1>3 DEF e, LogInv
  <2>4. /\ logCh' \in Seq(Nat \cup LCaller) /\ InOrder(logCh')
        /\ Entries(logCh') = Entries(logCh) \cup {e}
    BY <2>1, <2>2, <2>3, AppendOrder DEF LogInv
  <2>5. /\ Len(logCh) \in Nat /\ Len(logCh') = Len(logCh) + 1 /\ logCh'[Len(logCh) + 1] = e
        /\ \A i \in 1 .. Len(logCh) : logCh'[i] = logCh[i]
    BY <2>3 DEF LogInv
  <2>6. ASSUME NEW p \in LCaller
        PROVE  /\ pending'[p] \subseteq logged'
               /\ fatal'[p] = "flushed" => pending'[p] \subseteq Entries(logFile')
               /\ fatal'[p] \in {"no", "flushing"} => \A i \in 1 .. Len(logCh') : logCh'[i] # p
    BY <1>1, <2>1, <2>3, <2>5 DEF LogInv
  <2>7. ASSUME NEW p \in LCaller, NEW i \in 1 .. Len(logCh'), NEW j \in 1 .. Len(logCh'),
               logCh'[j] = p, logCh'[i] \in pending'[p]
        PROVE  i < j
    <3>1. e \notin pending[p] /\ e # p
      BY <2>1, Zenon DEF LogInv
    <3>2. i \in 1 .. Len(logCh) /\ j \in 1 .. Len(logCh)
      BY <1>1, <2>5, <2>7, <3>1
    <3> QED
      BY <1>1, <2>5, <2>7, <3>2, Zenon DEF LogInv
  <2>8. /\ \A x \in Entries(logFile'), y \in drainSet' \cup Entries(logCh') : x < y
        /\ \A x \in drainSet', y \in Entries(logCh') : x < y
        /\ logged' = Entries(logFile') \cup drainSet' \cup Entries(logCh')
    BY <1>1, <2>1, <2>2, <2>3, <2>4 DEF LogInv
  <2> QED
    BY <1>1, <2>3, <2>4, <2>6, <2>7, <2>8 DEF LogInv
<1> QED
  BY <1>2, <1>3, Zenon DEF Send

\* drain takes an entry, or a sentinel, behind which nothing is left of what its
\* caller waits for.
LEMMA DrainTakesInv == ASSUME LogInv, DrainTakes PROVE LogInv'
<1> DEFINE hd == Head(logCh)
<1>1. /\ drainHas = LNothing /\ logCh # <<>> /\ logCh' = Tail(logCh)
      /\ UNCHANGED <<logFile, logged, calls, pending>>
  BY Zenon DEF DrainTakes
<1>2. /\ logCh' \in Seq(Nat \cup LCaller) /\ hd \in Nat \cup LCaller
      /\ Len(logCh) \in Nat \ {0} /\ hd = logCh[1] /\ Len(logCh') = Len(logCh) - 1
      /\ \A i \in 1 .. Len(logCh') : logCh'[i] = logCh[i + 1]
      /\ InOrder(logCh') /\ Entries(logCh) = ({hd} \ LCaller) \cup Entries(logCh')
      /\ hd \notin LCaller => \A y \in Entries(logCh') : hd < y
  BY <1>1, TailOrder, Zenon DEF LogInv
<1>3. IF hd \in LCaller
      THEN fatal' = [fatal EXCEPT ![hd] = "flushed"] /\ UNCHANGED drainHas
      ELSE drainHas' = hd /\ UNCHANGED fatal
  BY Zenon DEF DrainTakes
<1> HIDE DEF hd
<1>4. \A p \in LCaller : \A i, j \in 1 .. Len(logCh') : logCh'[j] = p /\ logCh'[i] \in pending'[p] => i < j
  <2> SUFFICES ASSUME NEW p \in LCaller, NEW i \in 1 .. Len(logCh'), NEW j \in 1 .. Len(logCh'),
                      logCh'[j] = p, logCh'[i] \in pending'[p]
               PROVE  i < j
    BY Zenon
  <2>1. /\ i + 1 \in 1 .. Len(logCh) /\ j + 1 \in 1 .. Len(logCh)
        /\ logCh[j + 1] = p /\ logCh[i + 1] \in pending[p]
    BY <1>1, <1>2
  <2>2. i + 1 < j + 1
    BY <2>1, Zenon DEF LogInv
  <2> QED
    BY <2>2
<1>5. \A p \in LCaller : fatal[p] \in {"no", "flushing"} => \A i \in 1 .. Len(logCh') : logCh'[i] # p
  <2>1. \A i \in 1 .. Len(logCh') : i + 1 \in 1 .. Len(logCh)
    BY <1>2
  <2> QED
    BY <1>2, <2>1, Zenon DEF LogInv
<1>6. CASE hd \in LCaller
  <2>1. pending[hd] \cap Entries(logCh) = {}
    <3> SUFFICES ASSUME NEW k \in 1 .. Len(logCh), logCh[k] \in pending[hd] PROVE FALSE
      BY Zenon DEF Entries
    <3>1. k < 1
      BY <1>2, <1>6 DEF LogInv
    <3> QED
      BY <3>1
  <2>2. pending[hd] \subseteq Entries(logFile)
    BY <1>1, <1>6, <2>1, Zenon DEF LogInv
  <2>3. \A p \in LCaller : fatal'[p] = IF p = hd THEN "flushed" ELSE fatal[p]
    BY <1>3, <1>6, Zenon DEF LogInv
  <2>4. DOMAIN fatal' = LCaller /\ UNCHANGED drainHas
    BY <1>3, <1>6, Zenon DEF LogInv
  <2>5. Entries(logCh') = Entries(logCh)
    BY <1>2, <1>6, Zenon
  <2> QED
    BY <1>1, <1>2, <1>4, <1>5, <2>2, <2>3, <2>4, <2>5, Zenon DEF LogInv
<1>7. CASE hd \notin LCaller
  <2>1. drainHas' = hd /\ UNCHANGED fatal /\ hd \in Nat /\ hd # LNothing
    BY <1>2, <1>3, <1>7, LAssumption, Zenon
  <2>2. Entries(logCh) = {hd} \cup Entries(logCh')
    BY <1>2, <1>7, Zenon
  <2> QED
    <3> DEFINE drainSet == {drainHas} \ {LNothing}
    <3>1. drainSet = {} /\ drainSet' = {hd}
      BY <1>1, <2>1, Zenon
    <3> HIDE DEF drainSet
    <3>2. /\ \A x \in Entries(logFile'), y \in drainSet' \cup Entries(logCh') : x < y
          /\ \A x \in drainSet', y \in Entries(logCh') : x < y
          /\ logged' = Entries(logFile') \cup drainSet' \cup Entries(logCh')
      <4>1. /\ \A x \in Entries(logFile), y \in Entries(logCh) : x < y
            /\ logged = Entries(logFile) \cup drainSet \cup Entries(logCh)
        BY Zenon DEF LogInv, drainSet
      <4>2. UNCHANGED <<Entries(logFile), logged>>
        BY <1>1, Zenon
      <4>3. \A y \in Entries(logCh') : hd < y
        BY <1>2, <1>7, Zenon
      <4> QED
        BY <2>2, <3>1, <4>1, <4>2, <4>3, Zenon
    <3>3. \A p \in LCaller : /\ pending'[p] \subseteq logged'
                             /\ fatal'[p] = "flushed" => pending'[p] \subseteq Entries(logFile')
      BY <1>1, <2>1, Zenon DEF LogInv
    <3>4. /\ logFile' \in Seq(Nat \cup LCaller) /\ calls' \in Nat /\ logged' \subseteq 1 .. calls'
          /\ DOMAIN fatal' = LCaller /\ DOMAIN pending' = LCaller /\ InOrder(logFile')
      BY <1>1, <2>1, Zenon DEF LogInv
    <3> QED
      BY <1>2, <1>4, <1>5, <2>1, <3>2, <3>3, <3>4, Zenon DEF LogInv, drainSet
<1> QED
  BY <1>6, <1>7, Zenon

\* drain writes the entry it has.
LEMMA DrainWritesInv == ASSUME LogInv, DrainWrites PROVE LogInv'
<1>1. /\ drainHas # LNothing /\ logFile' = Append(logFile, drainHas) /\ drainHas' = LNothing
      /\ UNCHANGED <<logCh, logged, calls, fatal, pending>>
  BY Zenon DEF DrainWrites
<1>2. /\ logFile \in Seq(Nat \cup LCaller) /\ InOrder(logFile)
      /\ drainHas \in Nat /\ drainHas \notin LCaller /\ \A y \in Entries(logFile) : y < drainHas
  BY <1>1, LAssumption, Zenon DEF LogInv
<1>3. /\ logFile' \in Seq(Nat \cup LCaller) /\ InOrder(logFile')
      /\ Entries(logFile') = Entries(logFile) \cup {drainHas}
  BY <1>1, <1>2, AppendOrder
<1> QED
  BY <1>1, <1>2, <1>3 DEF LogInv

\* A call of Fatal waits for what is accepted by then.
LEMMA FatalInv == ASSUME LogInv, NEW p \in LCaller, Fatal(p) PROVE LogInv'
<1>1. /\ fatal[p] = "no" /\ fatal' = [fatal EXCEPT ![p] = "flushing"]
      /\ pending' = [pending EXCEPT ![p] = logged]
      /\ UNCHANGED <<logCh, drainHas, logFile, logged, calls>>
  BY Zenon DEF Fatal
<1>2. /\ \A q \in LCaller : /\ fatal'[q] = IF q = p THEN "flushing" ELSE fatal[q]
                            /\ pending'[q] = IF q = p THEN logged ELSE pending[q]
      /\ DOMAIN fatal' = LCaller /\ DOMAIN pending' = LCaller
  BY <1>1, Zenon DEF LogInv
<1>3. \A i \in 1 .. Len(logCh) : logCh[i] # p
  BY <1>1, Zenon DEF LogInv
<1> QED
  BY <1>1, <1>2, <1>3 DEF LogInv

\* The sentinel goes behind everything accepted so far.
LEMMA FlushSendsInv == ASSUME LogInv, NEW p \in LCaller, FlushSends(p) PROVE LogInv'
<1>1. /\ fatal[p] = "flushing" /\ fatal' = [fatal EXCEPT ![p] = "waiting"]
      /\ logCh' = Append(logCh, p)
      /\ UNCHANGED <<drainHas, logFile, logged, calls, pending>>
  BY Zenon DEF FlushSends
<1>2. /\ logCh' \in Seq(Nat \cup LCaller) /\ InOrder(logCh') /\ Entries(logCh') = Entries(logCh)
  <2>1. logCh \in Seq(Nat \cup LCaller) /\ InOrder(logCh) /\ {p} \ LCaller = {} /\ p \in Nat \cup LCaller
    BY Zenon DEF LogInv
  <2> QED
    BY <1>1, <2>1, AppendOrder, Zenon
<1>3. /\ Len(logCh) \in Nat /\ Len(logCh') = Len(logCh) + 1 /\ logCh'[Len(logCh) + 1] = p
      /\ \A i \in 1 .. Len(logCh) : logCh'[i] = logCh[i]
  BY <1>1 DEF LogInv
<1>4. /\ DOMAIN fatal' = LCaller
      /\ \A q \in LCaller : fatal'[q] = IF q = p THEN "waiting" ELSE fatal[q]
  BY <1>1, Zenon DEF LogInv
<1>5. ASSUME NEW q \in LCaller, NEW i \in 1 .. Len(logCh'), NEW j \in 1 .. Len(logCh'),
             logCh'[j] = q, logCh'[i] \in pending'[q]
      PROVE  i < j
  <2>1. p \notin pending[q]
    BY LAssumption DEF LogInv
  <2>2. i \in 1 .. Len(logCh)
    BY <1>1, <1>3, <1>5, <2>1
  <2>3. CASE j \in 1 .. Len(logCh)
    BY <1>1, <1>3, <1>5, <2>2, <2>3, Zenon DEF LogInv
  <2> QED
    BY <1>3, <2>2, <2>3
<1>6. ASSUME NEW q \in LCaller, fatal'[q] \in {"no", "flushing"}, NEW i \in 1 .. Len(logCh')
      PROVE  logCh'[i] # q
  BY <1>3, <1>4, <1>6 DEF LogInv
<1> QED
  BY <1>1, <1>2, <1>4, <1>5, <1>6, Zenon DEF LogInv

\* One step of a caller or of drain.
LEMMA LogNextInv == ASSUME LogInv, [LNext]_lVars PROVE LogInv'
<1>1. ASSUME NEW p \in LCaller, FlushTimesOut(p) PROVE LogInv'
  <2>1. /\ fatal' = [fatal EXCEPT ![p] = "gaveUp"]
        /\ UNCHANGED <<logCh, drainHas, logFile, logged, calls, pending>>
    BY <1>1, Zenon DEF FlushTimesOut
  <2>2. /\ DOMAIN fatal' = LCaller
        /\ \A q \in LCaller : fatal'[q] = IF q = p THEN "gaveUp" ELSE fatal[q]
    BY <2>1, Zenon DEF LogInv
  <2> QED
    BY <2>1, <2>2, Zenon DEF LogInv
<1>2. ASSUME NEW p \in LCaller, FatalWrites(p) PROVE LogInv'
  <2>1. logFile' = Append(logFile, p) /\ UNCHANGED <<logCh, drainHas, logged, calls, fatal, pending>>
    BY <1>2, Zenon DEF FatalWrites
  <2>2. /\ logFile' \in Seq(Nat \cup LCaller) /\ InOrder(logFile')
        /\ Entries(logFile') = Entries(logFile)
    <3>1. logFile \in Seq(Nat \cup LCaller) /\ InOrder(logFile) /\ {p} \ LCaller = {} /\ p \in Nat \cup LCaller
      BY Zenon DEF LogInv
    <3> QED
      BY <2>1, <3>1, AppendOrder, Zenon
  <2> QED
    BY <2>1, <2>2, Zenon DEF LogInv
<1>3. CASE ProcessEnds \/ UNCHANGED lVars
  BY <1>3, Zenon DEF ProcessEnds, lVars, LogInv
<1> QED
  BY <1>1, <1>2, <1>3, SendInv, DrainTakesInv, DrainWritesInv, FatalInv, FlushSendsInv, Zenon DEF LNext

\* Every accepted entry is written once and in the order of the calls, and Fatal ends
\* the process only after everything accepted before it is in the file, unless its
\* flush gave up, for any number of callers and any size of the channel.
THEOREM NoEntryIsLost == LSpec => []FatalLosesNothing
<1>1. LogInv /\ [LNext]_lVars => LogInv'
  BY LogNextInv
<1> QED
  BY <1>1, LogInvInit, LogInvLine, PTL DEF LSpec

-----------------------------------------------------------------------------
(* The UDP server.                                                         *)

\* Types of the counters, and the property itself.
UdInv ==
  /\ received \in Nat
  /\ counted \in [{"banned", "limited", "errors", "messages"} -> Nat]
  /\ PacketCountedOnce

\* No packet, no count.
LEMMA UdInvInit == UdInit => UdInv
  BY DEF UdInit, UdInv, PacketCountedOnce

\* A packet is being handled until the step that counts it.
LEMMA UdInvStep == UdInv /\ [UdNext]_udVars => UdInv'
<1> SUFFICES ASSUME UdInv, [UdNext]_udVars PROVE UdInv'
  BY Zenon
<1> USE DEF UdInv, PacketCountedOnce
<1>1. CASE UdRead
  BY <1>1 DEF UdRead, UdGoto
<1>2. CASE UdReadFails \/ UdPasses \/ UdReply
  BY <1>2, Zenon DEF UdReadFails, UdPasses, UdReply, UdGoto
<1>3. CASE UdRefused
  BY <1>3 DEF UdRefused, UdGoto, Count
<1>4. CASE UdHandled
  BY <1>4 DEF UdHandled, UdGoto, Count
<1>5. CASE UdPanics
  BY <1>5 DEF UdPanics, Count
<1>6. CASE UdShutdown \/ UNCHANGED udVars
  BY <1>6, Zenon DEF UdShutdown, udVars
<1> QED
  BY <1>1, <1>2, <1>3, <1>4, <1>5, <1>6, Zenon DEF UdNext, UdHandle

\* Every packet that was read is in exactly one of the counters or being
\* handled, panics, refusals and a shutdown in between included.
THEOREM PacketsAreCountedOnce == UdSpec => []PacketCountedOnce
<1>1. UdInv => PacketCountedOnce
  BY Zenon DEF UdInv
<1> QED
  BY <1>1, UdInvInit, UdInvStep, PTL DEF UdSpec

-----------------------------------------------------------------------------
(* The rate limiter.                                                       *)

\* Buckets hold between none and all of their tokens.
RateInv ==
  /\ tokens \in [RClient -> 0 .. Full \cup {NoBucket}]
  /\ age \in [RClient -> 0 .. Window]
  /\ promised \in [RClient -> 0 .. Full]
  /\ LazyBucketIsExact

\* What MaxRequests units per tick add up to: the only products the proof needs.
LEMMA Refill ==
  /\ Full \in Nat /\ Full >= Window /\ Full >= MaxRequests
  /\ \A n \in Nat : n * MaxRequests \in Nat /\ (n + 1) * MaxRequests = n * MaxRequests + MaxRequests
  /\ 0 * MaxRequests = 0 /\ Window * MaxRequests = Full
<1>1. MaxRequests \in Nat \ {0} /\ Window \in Nat \ {0}
  BY RateAssumption, Zenon
<1>2. \A n \in Nat : n * MaxRequests \in Nat /\ (n + 1) * MaxRequests = n * MaxRequests + MaxRequests
  BY <1>1
<1>3. Full \in Nat /\ Window * MaxRequests = Full
  BY <1>1 DEF Full
<1>4. Full >= Window /\ Full >= MaxRequests
  BY <1>1 DEF Full
<1> QED
  BY <1>1, <1>2, <1>3, <1>4

\* What a bucket would hold if it were asked now.
LEMMA RefilledIs ==
  ASSUME RateInv, NEW c \in RClient
  PROVE  /\ Refilled(c) = promised[c] /\ Refilled(c) \in 0 .. Full
         /\ tokens[c] # NoBucket => tokens[c] \in 0 .. Full
         /\ age[c] \in 0 .. Window
  BY Zenon DEF RateInv, LazyBucketIsExact

\* A request is paid from the refilled bucket.
LEMMA AllowInv == ASSUME RateInv, NEW c \in RClient, Allow(c) PROVE RateInv'
<1> DEFINE r == Refilled(c)
           paid == r - IF r >= Window THEN Window ELSE 0
<1>1. /\ r \in 0 .. Full /\ promised[c] = r
  BY RefilledIs, Zenon
<1>2. tokens' = [tokens EXCEPT ![c] = paid] /\ age' = [age EXCEPT ![c] = 0] /\ promised' = [promised EXCEPT ![c] = paid]
  BY <1>1, Zenon DEF Allow, RateInv
<1>3. paid \in 0 .. Full /\ Window \in Nat /\ Full \in Nat /\ paid # NoBucket
  BY <1>1, Refill, RateAssumption
<1> HIDE DEF paid
<1>4. /\ tokens' \in [RClient -> 0 .. Full \cup {NoBucket}] /\ age' \in [RClient -> 0 .. Window]
      /\ promised' \in [RClient -> 0 .. Full]
  BY <1>2, <1>3 DEF RateInv
<1>5. ASSUME NEW d \in RClient PROVE Refilled(d)' = promised'[d]
  <2>1. CASE d = c
    <3>1. tokens'[d] = paid /\ age'[d] = 0 /\ promised'[d] = paid
      BY <1>2, <2>1, Zenon DEF RateInv
    <3>2. paid + 0 * MaxRequests = paid
      BY <1>3, Refill
    <3> QED
      BY <1>3, <3>1, <3>2 DEF Refilled, Least
  <2>2. CASE d # c
    BY <1>2, <2>2, RefilledIs DEF Refilled
  <2> QED
    BY <2>1, <2>2, Zenon
<1> QED
  BY <1>4, <1>5, Zenon DEF RateInv, LazyBucketIsExact

\* Forgetting a bucket that is full by now changes nothing.
LEMMA CleanupInv == ASSUME RateInv, Cleanup PROVE RateInv'
<1>1. /\ tokens' = [c \in RClient |-> IF tokens[c] # NoBucket /\ tokens[c] + age[c] * MaxRequests >= Full
                                    THEN NoBucket ELSE tokens[c]]
      /\ UNCHANGED <<age, promised>>
  BY Zenon DEF Cleanup
<1>2. tokens' \in [RClient -> 0 .. Full \cup {NoBucket}]
  BY <1>1, Zenon DEF RateInv
<1>3. ASSUME NEW d \in RClient PROVE Refilled(d)' = promised'[d]
  <2> DEFINE gain == age[d] * MaxRequests
  <2>1. gain \in Nat /\ Full \in Nat
    BY RefilledIs, Refill
  <2>2. CASE tokens[d] # NoBucket /\ tokens[d] + gain >= Full
    <3>1. tokens[d] \in Nat /\ Refilled(d) = Least(tokens[d] + gain, Full) /\ Refilled(d) = promised[d]
      BY <2>2, RefilledIs, Refill DEF Refilled
    <3>2. Least(tokens[d] + gain, Full) = Full
      <4> HIDE DEF gain
      <4> QED
        BY <2>1, <2>2, <3>1 DEF Least
    <3> QED
      BY <1>1, <2>2, <3>1, <3>2, Zenon DEF Refilled
  <2>3. CASE ~(tokens[d] # NoBucket /\ tokens[d] + gain >= Full)
    BY <1>1, <2>3, RefilledIs, Zenon DEF Refilled
  <2> QED
    BY <2>2, <2>3, Zenon
<1> QED
  BY <1>1, <1>2, <1>3, Zenon DEF RateInv, LazyBucketIsExact

\* A tick adds to the lazy account what it adds to the eager one, the last one included.
LEMMA RTickInv == ASSUME RateInv, RTick PROVE RateInv'
<1>1. /\ age' = [c \in RClient |-> Least(age[c] + 1, Window)]
      /\ promised' = [c \in RClient |-> Least(promised[c] + MaxRequests, Full)]
      /\ tokens' = tokens
  BY Zenon DEF RTick
<1>2. Full \in Nat /\ MaxRequests \in Nat \ {0} /\ Window \in Nat \ {0}
  BY Refill, RateAssumption, Zenon
<1>3. age' \in [RClient -> 0 .. Window] /\ promised' \in [RClient -> 0 .. Full]
  BY <1>1, <1>2 DEF RateInv, Least
<1>4. ASSUME NEW d \in RClient PROVE Refilled(d)' = promised'[d]
  <2> DEFINE gain == age[d] * MaxRequests
             next == age'[d] * MaxRequests
  <2>1. gain \in Nat /\ age[d] \in 0 .. Window /\ promised[d] \in 0 .. Full
    BY Refill DEF RateInv
  <2>2. \/ age'[d] = age[d] + 1 /\ next = gain + MaxRequests
        \/ age'[d] = age[d] /\ next = gain /\ gain = Full
    <3>1. CASE age[d] < Window
      <4>1. age'[d] = age[d] + 1
        BY <1>1, <1>2, <2>1, <3>1 DEF Least
      <4>2. age[d] \in Nat /\ (age[d] + 1) * MaxRequests = gain + MaxRequests
        BY <2>1, Refill
      <4> QED
        BY <4>1, <4>2, Zenon
    <3>2. CASE age[d] = Window
      <4>1. age'[d] = age[d]
        BY <1>1, <1>2, <3>2 DEF Least
      <4> QED
        BY <3>2, <4>1, Refill, Zenon
    <3> QED
      BY <1>2, <2>1, <3>1, <3>2
  <2>3. CASE tokens[d] = NoBucket
    BY <1>1, <1>2, <2>3, RefilledIs DEF Refilled, Least
  <2>4. CASE tokens[d] # NoBucket
    <3>1. tokens[d] \in 0 .. Full /\ promised[d] = Least(tokens[d] + gain, Full)
      BY <2>4, RefilledIs, Zenon DEF Refilled
    <3>2. Refilled(d)' = Least(tokens[d] + next, Full) /\ promised'[d] = Least(promised[d] + MaxRequests, Full)
      BY <1>1, <2>4, Zenon DEF Refilled, Least
    <3>3. next = gain + MaxRequests \/ (next = gain /\ gain = Full)
      BY <2>2, Zenon
    <3> HIDE DEF gain, next
    <3> QED
      BY <1>2, <2>1, <3>1, <3>2, <3>3 DEF Least
  <2> QED
    BY <2>3, <2>4, Zenon
<1> QED
  BY <1>1, <1>3, <1>4, Zenon DEF RateInv, LazyBucketIsExact

\* One step of the limiter, of its cleanup goroutine or of the clock.
LEMMA RateNextInv == ASSUME RateInv, [RNext]_rVars PROVE RateInv'
<1>1. CASE RStop \/ CleanupReturns \/ UNCHANGED rVars
  BY <1>1, Zenon DEF RStop, CleanupReturns, rVars, RateInv, LazyBucketIsExact, Refilled
<1> QED
  BY <1>1, AllowInv, CleanupInv, RTickInv, Zenon DEF RNext

\* For every rate and window, a bucket that is refilled when it is asked and forgotten
\* when it is full allows exactly the requests a bucket refilled on every tick allows.
THEOREM LazyRefillIsExact == RSpec => []LazyBucketIsExact
<1>1. RInit => RateInv
  BY Refill, RateAssumption DEF RInit, RateInv, LazyBucketIsExact, Refilled
<1>2. RateInv /\ [RNext]_rVars => RateInv'
  BY RateNextInv
<1>3. RateInv => LazyBucketIsExact
  BY Zenon DEF RateInv
<1> QED
  BY <1>1, <1>2, <1>3, PTL DEF RSpec

-----------------------------------------------------------------------------
(* main.                                                                   *)

\* The four parts that all work rests on are the first to be deferred.
Base == <<"db", "sessions", "queue", "cache">>
BaseParts == {"db", "sessions", "queue", "cache"}
Deferrable == {"db", "sessions", "queue", "cache", "timers", "limiter", "metrics", "http", "idle", "jobs"}

SmType ==
  /\ boot \in 0 .. 17
  /\ stage \in {"boot", "serving", "tcp", "tcpWait", "defers", "stopWait", "fatal", "exited"}
  /\ defers \in Seq(Deferrable)
  /\ running \subseteq Source /\ busy \subseteq Source
  /\ starting \subseteq StartedInGoroutine

\* The deferred calls lie on top of those of the base.
BaseIsBelow ==
  \A i \in 1 .. Len(defers) : IF i <= 4 THEN defers[i] = Base[i] ELSE defers[i] \notin BaseParts

\* How much of the base is there while main starts the parts.
Height ==
  /\ stage = "boot" =>
       /\ boot = 0 => Len(defers) = 0
       /\ boot \in 1 .. 3 => Len(defers) = 1
       /\ boot = 4 => Len(defers) = 2
       /\ boot = 5 => Len(defers) = 3
       /\ boot >= 6 => Len(defers) >= 4
  /\ stage \in {"serving", "tcp", "tcpWait"} => Len(defers) >= 4

\* Connections that main waits for live before the deferred calls, and on the base.
TCPOnBase ==
  /\ "tcp" \in running \cup (busy \ unwaited) =>
       Len(defers) >= 4 /\ stage \in {"boot", "serving", "tcp", "tcpWait"}
  /\ stage = "tcpWait" => "tcp" \notin running

\* A job, and a request nobody has given up on, has its deferred call to come.
WaitedIsDeferred ==
  /\ "jobs" \in running \cup busy => "jobs" \in Opened
  /\ \A a \in StartedInGoroutine : a \in busy /\ a \notin running \cup unwaited => a \in Opened
  /\ stage = "stopWait" => defers # <<>> /\ NextDeferred \notin running \cup starting

\* An HTTP server starts once.
StartsOnce ==
  /\ "metrics" \in running \cup busy \cup starting => boot >= 11
  /\ "http" \in running \cup busy \cup starting => boot >= 12
  /\ starting \cap (running \cup busy) = {}

SmInv == SmType /\ BaseIsBelow /\ Height /\ TCPOnBase /\ WaitedIsDeferred /\ StartsOnce

-----------------------------------------------------------------------------
\* The base, one by one.
LEMMA BaseIs ==
  /\ Base[1] = "db" /\ Base[2] = "sessions" /\ Base[3] = "queue" /\ Base[4] = "cache"
  /\ BaseParts = {"db", "sessions", "queue", "cache"}
  BY Zenon DEF Base, BaseParts

\* Nothing is started.
LEMMA SmInvInit == SmInit => SmInv
<1> SUFFICES ASSUME SmInit PROVE SmInv
  BY Zenon
<1> USE DEF SmInit
<1>1. SmType
  BY DEF SmType
<1>2. BaseIsBelow /\ Height
  BY DEF BaseIsBelow, Height
<1>3. TCPOnBase /\ WaitedIsDeferred /\ StartsOnce
  BY Zenon DEF TCPOnBase, WaitedIsDeferred, StartsOnce
<1> QED
  BY <1>1, <1>2, <1>3, Zenon DEF SmInv

\* The calls and servers that are waited for find the base.
LEMMA WaitedHaveBase == SmInv => WaitedFindOpen
<1> SUFFICES ASSUME SmInv, NEW a \in busy, WaitedFor(a) PROVE Needs[a] \subseteq Opened
  BY Zenon DEF WaitedFindOpen
<1>1. a \in {"tcp", "jobs", "metrics", "http"}
  BY Zenon DEF WaitedFor, StartedInGoroutine
<1>2. Len(defers) >= 4
  <2>1. CASE a = "tcp"
    BY <2>1, Zenon DEF SmInv, TCPOnBase, WaitedFor, StartedInGoroutine
  <2>2. CASE a # "tcp"
    <3>1. a \in Opened
      BY <1>1, <2>2, Zenon DEF SmInv, WaitedIsDeferred, WaitedFor, StartedInGoroutine
    <3>2. PICK i \in 1 .. Len(defers) : defers[i] = a
      BY <3>1, Zenon DEF Opened
    <3>3. ~(i <= 4)
      <4> SUFFICES ASSUME i <= 4 PROVE FALSE
        BY Zenon
      <4>1. defers[i] = Base[i] /\ i \in 1 .. 4
        <5>1. defers[i] = Base[i]
          BY Zenon DEF SmInv, BaseIsBelow
        <5>2. i \in 1 .. 4
          OBVIOUS
        <5> QED
          BY <5>1, <5>2, Zenon
      <4>2. Base[i] \in {"db", "sessions", "queue", "cache"}
        BY <4>1 DEF Base
      <4> QED
        BY <1>1, <2>2, <3>2, <4>1, <4>2, Zenon
    <3> QED
      BY <3>3 DEF SmInv, SmType
  <2> QED
    BY <2>1, <2>2, Zenon
<1>3. {"db", "sessions", "queue", "cache"} \subseteq Opened
  <2>1. ASSUME NEW i \in 1 .. 4 PROVE i \in 1 .. Len(defers) /\ defers[i] = Base[i]
    <3>1. Len(defers) \in Nat
      BY DEF SmInv, SmType
    <3>2. i \in 1 .. Len(defers) /\ i <= 4
      BY <1>2, <3>1
    <3> QED
      BY <3>2, Zenon DEF SmInv, BaseIsBelow
  <2>2. defers[1] = "db" /\ defers[2] = "sessions" /\ defers[3] = "queue" /\ defers[4] = "cache"
    BY <2>1 DEF Base
  <2> QED
    BY <2>1, <2>2 DEF Opened
<1>4. Needs[a] \subseteq {"db", "sessions", "queue", "cache"}
  BY <1>1 DEF Needs
<1> QED
  BY <1>3, <1>4, Zenon

\* A sequence without its last element.
LEMMA WithoutLast ==
  ASSUME NEW S, NEW q \in Seq(S), q # <<>>
  PROVE  /\ Len(q) \in Nat \ {0}
         /\ SubSeq(q, 1, Len(q) - 1) \in Seq(S) /\ Len(SubSeq(q, 1, Len(q) - 1)) = Len(q) - 1
         /\ \A i \in 1 .. (Len(q) - 1) : SubSeq(q, 1, Len(q) - 1)[i] = q[i]
<1> DEFINE n == Len(q) - 1
<1>1. Len(q) \in Nat \ {0} /\ n \in Nat
  OBVIOUS
<1>2. \A i \in 1 .. n : i \in 1 .. Len(q) /\ q[i] \in S
  BY <1>1
<1>4. SubSeq(q, 1, n) \in Seq(S)
  BY <1>1, <1>2
<1>5. Len(SubSeq(q, 1, n)) = n
  <2> HIDE DEF n
  <2>1. CASE n = 0
    BY <2>1
  <2>2. CASE n >= 1
    BY <1>1, <2>2
  <2> QED
    BY <1>1, <2>1, <2>2
<1>6. \A i \in 1 .. n : SubSeq(q, 1, n)[i] = q[i]
  BY <1>1
<1> QED
  BY <1>1, <1>4, <1>5, <1>6, Zenon

\* A deferred call is pushed ...
LEMMA PushDeferred ==
  ASSUME SmInv, NEW x \in Deferrable, defers' = Append(defers, x),
         Len(defers) < 4 => x = Base[Len(defers) + 1],
         Len(defers) >= 4 => x \notin BaseParts
  PROVE  /\ defers' \in Seq(Deferrable) /\ Len(defers') = Len(defers) + 1
         /\ Opened' = Opened \cup {x} /\ BaseIsBelow'
<1>1. defers \in Seq(Deferrable) /\ Len(defers) \in Nat
  BY DEF SmInv, SmType
<1>2. /\ defers' \in Seq(Deferrable) /\ Len(defers') = Len(defers) + 1
      /\ \A i \in 1 .. Len(defers) : defers'[i] = defers[i]
      /\ defers'[Len(defers) + 1] = x
  BY <1>1
<1>3. Opened' = Opened \cup {x}
  BY <1>1, <1>2 DEF Opened
<1>4. ASSUME NEW i \in 1 .. Len(defers')
      PROVE  IF i <= 4 THEN defers'[i] = Base[i] ELSE defers'[i] \notin BaseParts
  <2>1. CASE i \in 1 .. Len(defers)
    BY <1>2, <2>1, Zenon DEF SmInv, BaseIsBelow
  <2>2. CASE i = Len(defers) + 1
    BY <1>1, <1>2, <2>2
  <2> QED
    BY <1>1, <1>2, <2>1, <2>2
<1> QED
  BY <1>2, <1>3, <1>4, Zenon DEF BaseIsBelow

\* ... and run last in, first out.
LEMMA PopDeferred ==
  ASSUME SmInv, defers # <<>>, defers' = OtherDeferred
  PROVE  /\ defers' \in Seq(Deferrable) /\ BaseIsBelow'
         /\ Opened \ {NextDeferred} \subseteq Opened'
<1>1. defers \in Seq(Deferrable) /\ Len(defers) \in Nat \ {0}
  BY DEF SmInv, SmType
<1>2. /\ OtherDeferred \in Seq(Deferrable) /\ Len(OtherDeferred) = Len(defers) - 1
      /\ \A i \in 1 .. (Len(defers) - 1) : OtherDeferred[i] = defers[i]
  BY <1>1, WithoutLast, Zenon DEF OtherDeferred
<1>3. BaseIsBelow'
  BY <1>1, <1>2 DEF SmInv, BaseIsBelow
<1>4. Opened \ {NextDeferred} \subseteq Opened'
  BY <1>1, <1>2 DEF Opened, NextDeferred
<1> QED
  BY <1>2, <1>3, <1>4, Zenon

\* Which part main is at.
LEMMA PartAt ==
  ASSUME SmInv, boot < Len(BootOrder)
  PROVE  \/ (boot = 0 /\ Part = "db") \/ (boot = 1 /\ Part = "migrations") \/ (boot = 2 /\ Part = "cipher")
         \/ (boot = 3 /\ Part = "sessions") \/ (boot = 4 /\ Part = "queue") \/ (boot = 5 /\ Part = "cache")
         \/ (boot = 6 /\ Part = "consumers") \/ (boot = 7 /\ Part = "timers") \/ (boot = 8 /\ Part = "handler")
         \/ (boot = 9 /\ Part = "limiter") \/ (boot = 10 /\ Part = "metrics") \/ (boot = 11 /\ Part = "http")
         \/ (boot = 12 /\ Part = "tcp") \/ (boot = 13 /\ Part = "idle") \/ (boot = 14 /\ Part = "jobs")
         \/ (boot = 15 /\ Part = "udp") \/ (boot = 16 /\ Part = "console")
<1>1. boot \in 0 .. 16
  BY DEF SmInv, SmType, BootOrder
<1>2. /\ BootOrder[1] = "db" /\ BootOrder[2] = "migrations" /\ BootOrder[3] = "cipher"
      /\ BootOrder[4] = "sessions" /\ BootOrder[5] = "queue" /\ BootOrder[6] = "cache"
      /\ BootOrder[7] = "consumers" /\ BootOrder[8] = "timers" /\ BootOrder[9] = "handler"
      /\ BootOrder[10] = "limiter" /\ BootOrder[11] = "metrics" /\ BootOrder[12] = "http"
      /\ BootOrder[13] = "tcp" /\ BootOrder[14] = "idle" /\ BootOrder[15] = "jobs"
      /\ BootOrder[16] = "udp" /\ BootOrder[17] = "console"
  BY Zenon DEF BootOrder
<1> QED
  BY <1>1, <1>2 DEF Part

\* What starting a part pushes.
LEMMA StartPushes ==
  ASSUME SmInv, StartPart
  PROVE  /\ defers' \in Seq(Deferrable) /\ BaseIsBelow' /\ Height' /\ Len(defers') >= Len(defers)
         /\ Opened \subseteq Opened' /\ (Part \notin NotDeferred => Part \in Opened')
<1>1. stage = "boot" /\ boot < Len(BootOrder) /\ boot' = boot + 1 /\ stage' = stage
  BY Zenon DEF StartPart
<1>2. defers \in Seq(Deferrable) /\ Len(defers) \in Nat /\ boot \in Nat
  BY DEF SmInv, SmType
<1>3. CASE Part \in NotDeferred
  <2>1. defers' = defers
    BY <1>3, Zenon DEF StartPart
  <2>2. boot \in {1, 2, 6, 8, 12, 15, 16}
    BY <1>1, <1>3, PartAt, Zenon DEF NotDeferred
  <2>3. Height'
    BY <1>1, <2>1, <2>2 DEF SmInv, Height
  <2> QED
    BY <1>2, <1>3, <2>1, <2>3 DEF SmInv, BaseIsBelow, Opened
<1>4. CASE Part \notin NotDeferred
  <2>1. defers' = Append(defers, Part)
    BY <1>4, Zenon DEF StartPart
  <2>2. \/ (boot = 0 /\ Part = "db") \/ (boot = 3 /\ Part = "sessions")
        \/ (boot = 4 /\ Part = "queue") \/ (boot = 5 /\ Part = "cache")
        \/ (boot >= 6 /\ Part \in {"timers", "limiter", "metrics", "http", "idle", "jobs"})
    BY <1>1, <1>4, PartAt DEF NotDeferred
  <2>3. \/ (boot = 0 /\ Len(defers) = 0 /\ Part = Base[1])
        \/ (boot = 3 /\ Len(defers) = 1 /\ Part = Base[2])
        \/ (boot = 4 /\ Len(defers) = 2 /\ Part = Base[3])
        \/ (boot = 5 /\ Len(defers) = 3 /\ Part = Base[4])
        \/ (boot >= 6 /\ Len(defers) >= 4 /\ Part \notin BaseParts)
    BY <1>1, <1>2, <2>2, BaseIs DEF SmInv, Height
  <2>4. Part \in Deferrable
    BY <2>2, Zenon DEF Deferrable
  <2> DEFINE n == Len(defers)
  <2>5. n \in Nat
    BY <1>2, Zenon
  <2>6. (n < 4 => Part = Base[n + 1]) /\ (n >= 4 => Part \notin BaseParts)
    <3>1. CASE n = 0 /\ Part = Base[1]
      BY <3>1
    <3>2. CASE n = 1 /\ Part = Base[2]
      BY <3>2
    <3>3. CASE n = 2 /\ Part = Base[3]
      BY <3>3
    <3>4. CASE n = 3 /\ Part = Base[4]
      BY <3>4
    <3>5. CASE n >= 4 /\ Part \notin BaseParts
      BY <2>5, <3>5
    <3> HIDE DEF n
    <3> QED
      BY <2>3, <3>1, <3>2, <3>3, <3>4, <3>5, Zenon DEF n
  <2>7. /\ defers' \in Seq(Deferrable) /\ Len(defers') = Len(defers) + 1
        /\ Opened' = Opened \cup {Part} /\ BaseIsBelow'
    BY <2>1, <2>4, <2>5, <2>6, PushDeferred, Zenon
  <2>8. Height'
    <3>1. \/ (boot = 0 /\ n = 0) \/ (boot = 3 /\ n = 1) \/ (boot = 4 /\ n = 2) \/ (boot = 5 /\ n = 3)
          \/ (boot >= 6 /\ n >= 4)
      BY <2>3, Zenon
    <3>2. stage' = "boot" /\ boot' = boot + 1 /\ Len(defers') = n + 1 /\ n \in Nat /\ boot \in Nat
      BY <1>1, <1>2, <2>7, Zenon
    <3> HIDE DEF n
    <3> QED
      BY <3>1, <3>2 DEF Height
  <2> QED
    BY <1>2, <2>7, <2>8
<1> QED
  BY <1>3, <1>4, Zenon

\* A part is started.
LEMMA StartPartInv == ASSUME SmInv, StartPart PROVE SmInv'
<1>1. /\ defers' \in Seq(Deferrable) /\ BaseIsBelow' /\ Height' /\ Len(defers') >= Len(defers)
      /\ Opened \subseteq Opened' /\ (Part \notin NotDeferred => Part \in Opened')
  BY StartPushes, Zenon
<1>2. /\ stage = "boot" /\ stage' = stage /\ boot' = boot + 1 /\ boot < Len(BootOrder)
      /\ UNCHANGED <<busy, unwaited>>
      /\ IF Part \in StartedInGoroutine
         THEN starting' = starting \cup {Part} /\ UNCHANGED running
         ELSE running' = running \cup ({Part} \cap Source) /\ UNCHANGED starting
  BY Zenon DEF StartPart
<1>3. SmType'
  BY <1>1, <1>2 DEF SmInv, SmType, BootOrder
<1>4. TCPOnBase'
  <2>1. Part = "tcp" => boot = 12
    BY <1>2, PartAt, Zenon
  <2>2. "tcp" \in running' \cup (busy' \ unwaited') => "tcp" \in running \cup (busy \ unwaited) \/ Part = "tcp"
    BY <1>2
  <2>3. Len(defers) \in Nat /\ Len(defers') \in Nat
    BY <1>1 DEF SmInv, SmType
  <2> QED
    BY <1>1, <1>2, <2>1, <2>2, <2>3 DEF SmInv, TCPOnBase, Height
<1>5. WaitedIsDeferred'
  <2>1. "jobs" \in running' => "jobs" \in running \/ Part = "jobs"
    BY <1>2, Zenon
  <2>2. "jobs" \notin NotDeferred
    BY Zenon DEF NotDeferred
  <2>3. running \subseteq running'
    BY <1>2, Zenon
  <2> QED
    BY <1>1, <1>2, <2>1, <2>2, <2>3, Zenon DEF SmInv, WaitedIsDeferred
<1>6. StartsOnce'
  <2>1. (Part = "metrics" => boot = 10) /\ (Part = "http" => boot = 11)
    BY <1>2, PartAt, Zenon
  <2>2. boot \in Nat /\ boot' = boot + 1
    BY <1>2 DEF SmInv, SmType
  <2>3. CASE Part \in StartedInGoroutine
    <3>1. Part \notin running \cup busy
      BY <2>1, <2>2, <2>3 DEF SmInv, StartsOnce, StartedInGoroutine
    <3> QED
      BY <1>2, <2>1, <2>2, <2>3, <3>1 DEF SmInv, StartsOnce, StartedInGoroutine
  <2>4. CASE Part \notin StartedInGoroutine
    <3>1. starting \subseteq StartedInGoroutine
      BY Zenon DEF SmInv, SmType
    <3>2. \A a \in StartedInGoroutine : a \in running' <=> a \in running
      BY <1>2, <2>4, Zenon
    <3>3. starting' = starting /\ busy' = busy
      BY <1>2, <2>4, Zenon
    <3>4. /\ "metrics" \in running' \cup busy' \cup starting' => boot >= 11
          /\ "http" \in running' \cup busy' \cup starting' => boot >= 12
          /\ starting' \cap (running' \cup busy') = {}
      BY <3>1, <3>2, <3>3, Zenon DEF SmInv, StartsOnce, StartedInGoroutine
    <3> QED
      BY <2>2, <3>4 DEF StartsOnce
  <2> QED
    BY <2>3, <2>4, Zenon
<1> QED
  BY <1>1, <1>3, <1>4, <1>5, <1>6, Zenon DEF SmInv

\* The deferred calls stay, and so do the sources, but for some that end.
LEMMA NothingPushed ==
  ASSUME SmInv, defers' = defers, unwaited \subseteq unwaited', starting' \subseteq starting, SmType', boot' >= boot, Height',
         TCPOnBase', StartsOnce', running' \subseteq Source, busy' \subseteq Source,
         "jobs" \in running' \cup busy' => "jobs" \in running \cup busy,
         \A a \in StartedInGoroutine : a \in busy' /\ a \notin running' => a \in busy /\ a \notin running,
         stage' = "stopWait" => stage = "stopWait" /\ (NextDeferred \in running' => NextDeferred \in running \cup starting)
  PROVE  SmInv'
<1>1. Opened' = Opened /\ BaseIsBelow' /\ NextDeferred' = NextDeferred
  BY Zenon DEF SmInv, BaseIsBelow, Opened, NextDeferred
<1>2. WaitedIsDeferred'
  BY <1>1, Zenon DEF SmInv, WaitedIsDeferred
<1> QED
  BY <1>1, <1>2, Zenon DEF SmInv

\* A part that is not configured is passed over.
LEMMA SkipPartInv == ASSUME SmInv, SkipPart PROVE SmInv'
<1>1. /\ stage = "boot" /\ stage' = stage /\ boot' = boot + 1 /\ boot < Len(BootOrder) /\ Part \in Optional
      /\ UNCHANGED <<defers, running, starting, busy, unwaited>>
  BY Zenon DEF SkipPart
<1>2. boot \in 0 .. 16 /\ boot >= 6
  BY <1>1, PartAt DEF Optional, SmInv, SmType, BootOrder
<1>3. SmType' /\ Height'
  BY <1>1, <1>2 DEF SmInv, SmType, Height
<1>4. TCPOnBase' /\ StartsOnce'
  BY <1>1, <1>2 DEF SmInv, TCPOnBase, StartsOnce
<1> QED
  BY <1>1, <1>2, <1>3, <1>4, NothingPushed DEF SmInv, SmType

\* A fatal error ends the process.
LEMMA StartFailsInv == ASSUME SmInv, StartFails PROVE SmInv'
<1>1. /\ stage' = "fatal" /\ running' = {} /\ starting' = {} /\ busy' = {}
      /\ UNCHANGED <<boot, defers, unwaited>>
  BY Zenon DEF StartFails
<1>2. SmType' /\ Height' /\ TCPOnBase' /\ StartsOnce'
  BY <1>1, Zenon DEF SmInv, SmType, Height, TCPOnBase, StartsOnce
<1> QED
  BY <1>1, <1>2, NothingPushed DEF SmInv, SmType

\* Everything is started.
LEMMA BootDoneInv == ASSUME SmInv, BootDone PROVE SmInv'
<1>1. /\ stage = "boot" /\ boot = 17 /\ stage' = "serving"
      /\ UNCHANGED <<boot, defers, running, starting, busy, unwaited>>
  BY Zenon DEF BootDone, BootOrder
<1>2. SmType' /\ Height' /\ TCPOnBase' /\ StartsOnce'
  BY <1>1 DEF SmInv, SmType, Height, TCPOnBase, StartsOnce
<1> QED
  BY <1>1, <1>2, NothingPushed DEF SmInv, SmType

\* The steps of main that take a source away.
LEMMA SourceStops ==
  ASSUME SmInv, NEW x \in {"udp", "tcp"}, running' = running \ {x},
         UNCHANGED <<boot, defers, starting, busy, unwaited>>,
         \/ stage = "serving" /\ stage' = "tcp"
         \/ stage = "tcp" /\ stage' = "tcpWait" /\ x = "tcp"
  PROVE  SmInv'
<1>1. SmType' /\ Height'
  BY Zenon DEF SmInv, SmType, Height
<1>2. TCPOnBase'
  BY Zenon DEF SmInv, TCPOnBase
<1>3. StartsOnce'
  BY Zenon DEF SmInv, StartsOnce
<1>4. \A a \in StartedInGoroutine : a \in running' <=> a \in running
  BY Zenon DEF StartedInGoroutine
<1> QED
  BY <1>1, <1>2, <1>3, <1>4, NothingPushed DEF SmInv, SmType

\* main has stopped the UDP server.
LEMMA ShutdownUDPInv == ASSUME SmInv, ShutdownUDP PROVE SmInv'
  BY SourceStops, Zenon DEF ShutdownUDP

\* main asks the TCP server to stop.
LEMMA ShutdownTCPInv == ASSUME SmInv, ShutdownTCP PROVE SmInv'
  BY SourceStops, Zenon DEF ShutdownTCP

\* The socket that the accept loop holds is handed over, or refused.
LEMMA LateConnectionInv == ASSUME SmInv, LateConnection PROVE SmInv'
<1>1. /\ \/ UNCHANGED <<busy, unwaited>>
         \/ /\ busy' = busy \cup {"tcp"}
            /\ unwaited' = IF stage = "tcpWait" THEN unwaited ELSE unwaited \cup {"tcp"}
      /\ UNCHANGED <<boot, defers, running, starting, stage>>
  BY Zenon DEF LateConnection
<1>2. "tcp" \in Source /\ "tcp" \notin StartedInGoroutine /\ unwaited \subseteq unwaited'
  BY <1>1, Zenon DEF Source, Needs, StartedInGoroutine
<1>3. /\ busy \subseteq busy' /\ busy' \subseteq busy \cup {"tcp"}
      /\ "tcp" \in busy' \ unwaited' => "tcp" \in busy \ unwaited \/ stage = "tcpWait"
  BY <1>1
<1>4. SmType' /\ Height'
  BY <1>1, <1>2, <1>3, Zenon DEF SmInv, SmType, Height
<1>5. TCPOnBase'
  BY <1>1, <1>3, Zenon DEF SmInv, TCPOnBase, Height
<1>6. StartsOnce'
  <2>1. "tcp" \notin starting /\ "metrics" # "tcp" /\ "http" # "tcp"
    BY <1>2, Zenon DEF SmInv, SmType
  <2> QED
    BY <1>1, <1>3, <2>1, Zenon DEF SmInv, StartsOnce
<1> QED
  BY <1>1, <1>2, <1>3, <1>4, <1>5, <1>6, NothingPushed DEF SmInv, SmType

\* The TCP server takes no connection any more: none that counts is left when the
\* wait is over.
LEMMA TCPDoneInv == ASSUME SmInv, TCPDone PROVE SmInv'
<1>1. /\ stage = "tcpWait" /\ stage' = "defers" /\ "tcp" \notin busy
      /\ UNCHANGED <<boot, defers, running, starting, busy, unwaited>>
  BY Zenon DEF TCPDone
<1>2. SmType' /\ Height' /\ StartsOnce'
  BY <1>1, Zenon DEF SmInv, SmType, Height, StartsOnce
<1>3. TCPOnBase'
  BY <1>1, Zenon DEF SmInv, TCPOnBase
<1> QED
  BY <1>1, <1>2, <1>3, NothingPushed DEF SmInv, SmType

\* An HTTP server begins to serve.
LEMMA ServerStartsInv == ASSUME SmInv, NEW p \in StartedInGoroutine, ServerStarts(p) PROVE SmInv'
<1>1. /\ p \in starting /\ starting' = starting \ {p} /\ running' \in {running, running \cup {p}}
      /\ UNCHANGED <<boot, defers, busy, stage, unwaited>>
  BY Zenon DEF ServerStarts
<1>2. p \in {"metrics", "http"} /\ p \in Source
  BY Zenon DEF StartedInGoroutine, Source, Needs
<1>3. SmType' /\ Height'
  BY <1>1, <1>2, Zenon DEF SmInv, SmType, Height
<1>4. TCPOnBase' /\ StartsOnce'
  BY <1>1, <1>2 DEF SmInv, TCPOnBase, StartsOnce
<1>5. running \subseteq running' /\ running' \subseteq running \cup starting
  BY <1>1, Zenon
<1> QED
  BY <1>1, <1>2, <1>3, <1>4, <1>5, NothingPushed DEF SmInv, SmType

\* Work starts at a source that is up.
LEMMA WorkStartsInv == ASSUME SmInv, NEW a \in Source, WorkStarts(a) PROVE SmInv'
<1>1. a \in running /\ busy' = busy \cup {a} /\ UNCHANGED <<boot, defers, running, starting, stage, unwaited>>
  BY Zenon DEF WorkStarts
<1>2. SmType' /\ Height'
  BY <1>1, Zenon DEF SmInv, SmType, Height
<1>3. TCPOnBase' /\ StartsOnce'
  BY <1>1, Zenon DEF SmInv, TCPOnBase, StartsOnce
<1> QED
  BY <1>1, <1>2, <1>3, NothingPushed DEF SmInv, SmType

\* Work ends.
LEMMA WorkEndsInv == ASSUME SmInv, NEW a \in Source, WorkEnds(a) PROVE SmInv'
<1>1. busy' = busy \ {a} /\ UNCHANGED <<boot, defers, running, starting, stage, unwaited>>
  BY Zenon DEF WorkEnds
<1>2. SmType' /\ Height'
  BY <1>1, Zenon DEF SmInv, SmType, Height
<1>3. TCPOnBase' /\ StartsOnce'
  BY <1>1, Zenon DEF SmInv, TCPOnBase, StartsOnce
<1> QED
  BY <1>1, <1>2, <1>3, NothingPushed DEF SmInv, SmType

\* main returns.
LEMMA MainReturnsInv == ASSUME SmInv, MainReturns PROVE SmInv'
<1>1. /\ stage' = "exited" /\ running' = {} /\ starting' = {} /\ busy' = {}
      /\ UNCHANGED <<boot, defers, unwaited>>
  BY Zenon DEF MainReturns
<1>2. SmType' /\ Height' /\ TCPOnBase' /\ StartsOnce'
  BY <1>1, Zenon DEF SmInv, SmType, Height, TCPOnBase, StartsOnce
<1> QED
  BY <1>1, <1>2, NothingPushed DEF SmInv, SmType

\* A deferred call has returned: its part has no work that counts any more.
LEMMA Popped ==
  ASSUME SmInv, defers # <<>>, defers' = OtherDeferred, stage \in {"defers", "stopWait"}, stage' = "defers",
         UNCHANGED <<boot, starting, busy>>, running' \subseteq running, unwaited \subseteq unwaited',
         running \ running' \subseteq {NextDeferred, "consumers"}, NextDeferred \notin running',
         NextDeferred \in WaitsForWork \cap busy => NextDeferred \in unwaited' \cap StartedInGoroutine
  PROVE  SmInv'
<1>1. defers' \in Seq(Deferrable) /\ BaseIsBelow' /\ Opened \ {NextDeferred} \subseteq Opened'
  BY PopDeferred, Zenon
<1>2. SmType'
  BY <1>1, Zenon DEF SmInv, SmType
<1>3. Height'
  BY Zenon DEF Height
<1>4. "tcp" \notin running \cup (busy \ unwaited)
  BY Zenon DEF SmInv, TCPOnBase
<1>5. TCPOnBase'
  BY <1>4, Zenon DEF TCPOnBase
<1>6. StartsOnce'
  BY Zenon DEF SmInv, StartsOnce
<1>7. "jobs" \in running' \cup busy' => "jobs" \in Opened'
  BY <1>1, Zenon DEF SmInv, WaitedIsDeferred, StartedInGoroutine, WaitsForWork
<1>8. ASSUME NEW a \in StartedInGoroutine, a \in busy', a \notin running' \cup unwaited'
      PROVE  a \in Opened'
  <2>1. a # NextDeferred /\ a # "consumers"
    BY <1>8, Zenon DEF StartedInGoroutine, WaitsForWork
  <2>2. a \in busy /\ a \notin running \cup unwaited
    BY <1>8, <2>1
  <2> QED
    BY <1>1, <2>1, <2>2, Zenon DEF SmInv, WaitedIsDeferred
<1>9. WaitedIsDeferred'
  BY <1>7, <1>8, Zenon DEF WaitedIsDeferred
<1> QED
  BY <1>1, <1>2, <1>3, <1>5, <1>6, <1>9, Zenon DEF SmInv

\* The next deferred call is made.
LEMMA DeferredInv == ASSUME SmInv, Deferred PROVE SmInv'
<1>1. /\ stage = "defers" /\ defers # <<>>
      /\ running' = running \ (IF NextDeferred = "queue" THEN {"consumers"} ELSE {NextDeferred})
      /\ UNCHANGED <<boot, starting, busy, unwaited>>
  BY Zenon DEF Deferred
<1>2. "queue" \notin Source
  BY Zenon DEF Source, Needs
<1>3. /\ running' \subseteq running /\ running \ running' \subseteq {NextDeferred, "consumers"}
      /\ NextDeferred \notin running'
  BY <1>1, <1>2, Zenon DEF SmInv, SmType
<1>4. CASE NextDeferred \in WaitsForWork /\ NextDeferred \in busy
  <2>1. stage' = "stopWait" /\ defers' = defers
    BY <1>4, Zenon DEF Deferred
  <2>2. Opened' = Opened /\ BaseIsBelow' /\ NextDeferred' = NextDeferred
    BY <2>1, Zenon DEF SmInv, BaseIsBelow, Opened, NextDeferred
  <2>3. SmType' /\ Height'
    BY <1>1, <1>3, <2>1, Zenon DEF SmInv, SmType, Height
  <2>4. TCPOnBase' /\ StartsOnce'
    BY <1>1, <1>3, <2>1, Zenon DEF SmInv, TCPOnBase, StartsOnce
  <2>5. NextDeferred \in Opened
    BY <1>1 DEF SmInv, SmType, Opened, NextDeferred
  <2>6. NextDeferred \notin starting
    BY <1>4, Zenon DEF SmInv, StartsOnce
  <2>7. ASSUME NEW a \in StartedInGoroutine, a \in busy', a \notin running' \cup unwaited'
        PROVE  a \in Opened
    <3>1. CASE a = NextDeferred
      BY <2>5, <3>1, Zenon
    <3>2. CASE a # NextDeferred
      <4>1. a # "consumers"
        BY Zenon DEF StartedInGoroutine
      <4> QED
        BY <1>1, <1>3, <2>7, <3>2, <4>1, Zenon DEF SmInv, WaitedIsDeferred
    <3> QED
      BY <3>1, <3>2, Zenon
  <2>8. WaitedIsDeferred'
    BY <1>1, <1>3, <2>1, <2>2, <2>6, <2>7, Zenon DEF SmInv, WaitedIsDeferred
  <2> QED
    BY <2>2, <2>3, <2>4, <2>8, Zenon DEF SmInv
<1>5. CASE ~(NextDeferred \in WaitsForWork /\ NextDeferred \in busy)
  <2>1. defers' = OtherDeferred /\ stage' = stage
    BY <1>5, Zenon DEF Deferred
  <2> QED
    BY <1>1, <1>3, <1>5, <2>1, Popped, Zenon
<1> QED
  BY <1>4, <1>5, Zenon

\* The work a deferred call waits for is done ...
LEMMA WorkDoneInv == ASSUME SmInv, WorkDone PROVE SmInv'
<1>1. /\ stage = "stopWait" /\ NextDeferred \notin busy /\ stage' = "defers" /\ defers' = OtherDeferred
      /\ UNCHANGED <<boot, running, starting, busy, unwaited>>
  BY Zenon DEF WorkDone
<1>2. defers # <<>> /\ NextDeferred \notin running
  BY <1>1, Zenon DEF SmInv, WaitedIsDeferred
<1> QED
  BY <1>1, <1>2, Popped, Zenon

\* ... or is given up on.
LEMMA WaitTimesOutInv == ASSUME SmInv, WaitTimesOut PROVE SmInv'
<1>1. /\ stage = "stopWait" /\ NextDeferred \in StartedInGoroutine /\ stage' = "defers"
      /\ defers' = OtherDeferred /\ unwaited' = unwaited \cup {NextDeferred}
      /\ UNCHANGED <<boot, running, starting, busy>>
  BY Zenon DEF WaitTimesOut
<1>2. defers # <<>> /\ NextDeferred \notin running
  BY <1>1, Zenon DEF SmInv, WaitedIsDeferred
<1> QED
  BY <1>1, <1>2, Popped, Zenon

\* One step of main, of a source or of an HTTP server's goroutine.
LEMMA SmNextInv == ASSUME SmInv, [SmNext]_smVars PROVE SmInv'
<1>1. CASE StartPart
  BY <1>1, StartPartInv, Zenon
<1>2. CASE SkipPart
  BY <1>2, SkipPartInv
<1>3. CASE StartFails
  BY <1>3, StartFailsInv
<1>4. CASE BootDone
  BY <1>4, BootDoneInv
<1>5. CASE ShutdownUDP
  BY <1>5, ShutdownUDPInv
<1>6. CASE ShutdownTCP
  BY <1>6, ShutdownTCPInv
<1>7. CASE TCPDone
  BY <1>7, TCPDoneInv
<1>8. CASE Deferred
  BY <1>8, DeferredInv
<1>9. CASE WorkDone
  BY <1>9, WorkDoneInv
<1>10. CASE WaitTimesOut
  BY <1>10, WaitTimesOutInv
<1>11. CASE MainReturns
  BY <1>11, MainReturnsInv
<1>12. CASE \E p \in StartedInGoroutine : ServerStarts(p)
  BY <1>12, ServerStartsInv, Zenon
<1>13. CASE \E a \in Source : WorkStarts(a) \/ WorkEnds(a)
  BY <1>13, WorkStartsInv, WorkEndsInv, Zenon
<1>15. CASE LateConnection
  BY <1>15, LateConnectionInv
<1>14. CASE UNCHANGED smVars
  BY <1>14 DEF smVars, SmInv, SmType, BaseIsBelow, Height, TCPOnBase, WaitedIsDeferred, StartsOnce,
     Opened, NextDeferred
<1> QED
  BY <1>1, <1>2, <1>3, <1>4, <1>5, <1>6, <1>7, <1>8, <1>9, <1>10, <1>11, <1>12, <1>13, <1>14, <1>15 DEF SmNext, StopStep

\* main starts the database, the session store, the queue and the cache before
\* anything that serves, and its deferred calls close them after everything it waits
\* for: whatever is configured, a connection, a job or a request that main waits for
\* finds all four open.
THEOREM WaitedWorkFindsParts == SmSpec => []WaitedFindOpen
<1>1. SmInit => SmInv
  BY SmInvInit, Zenon
<1>2. SmInv /\ [SmNext]_smVars => SmInv'
  BY SmNextInv
<1>3. SmInv => WaitedFindOpen
  BY WaitedHaveBase, Zenon
<1> QED
  BY <1>1, <1>2, <1>3, PTL DEF SmSpec

-----------------------------------------------------------------------------
(* The scheduler.                                                          *)

INSTANCE WellFoundedInduction

\* A set of line numbers has a first one.
LEMMA FirstLine ==
  ASSUME NEW S \in SUBSET Nat, S # {}
  PROVE  \E i \in S : \A j \in S : i <= j
<1> DEFINE R == OpToRel(<, Nat)
<1>1. PICK i \in S : \A j \in S : ~(<<j, i>> \in R)
  <2>1. IsWellFoundedOn(R, Nat)
    BY NatLessThanWellFounded, Zenon
  <2> HIDE DEF R
  <2> QED
    BY <2>1, WFMin, Zenon
<1>2. \A j, k \in Nat : j < k => <<j, k>> \in R
  BY Zenon DEF OpToRel
<1> HIDE DEF R
<1>3. ASSUME NEW j \in S PROVE i <= j
  <2>1. ~(j < i)
    BY <1>1, <1>2, Zenon
  <2> QED
    BY <2>1
<1> QED
  BY <1>3, Zenon

\* The header that parseJobHeader finds is the first one within the limit.
LEMMA HeaderIsFirst ==
  ASSUME NEW lines \in Seq(JobHeader \cup {Text})
  PROVE  LET first(i) == /\ i \in 1 .. Len(lines) /\ i <= HeaderLines /\ lines[i] # Text
                         /\ \A j \in 1 .. (i - 1) : lines[j] = Text
         IN  /\ \A i : first(i) => parseJobHeader(lines) = lines[i]
             /\ parseJobHeader(lines) # Text => \E i : first(i)
<1> DEFINE found == {i \in 1 .. Len(lines) : i <= HeaderLines /\ lines[i] # Text}
           first(i) == /\ i \in 1 .. Len(lines) /\ i <= HeaderLines /\ lines[i] # Text
                       /\ \A j \in 1 .. (i - 1) : lines[j] = Text
           least(i) == i \in found /\ \A j \in found : i <= j
<1>1. Len(lines) \in Nat /\ HeaderLines \in Nat /\ found \in SUBSET Nat
  BY DirAssumption
<1>2. \A i : first(i) => least(i)
  BY <1>1
<1>3. \A i : least(i) => first(i)
  BY <1>1
<1>4. \A i, j : least(i) /\ least(j) => i = j
  BY <1>1
<1>5. parseJobHeader(lines) = IF found = {} THEN Text ELSE lines[CHOOSE i \in found : \A j \in found : i <= j]
  BY Zenon DEF parseJobHeader
<1> HIDE DEF found
<1>6. ASSUME NEW i, least(i) PROVE parseJobHeader(lines) = lines[i]
  BY <1>4, <1>5, <1>6, Zenon
<1>7. found # {} => \E i : least(i)
  BY <1>1, FirstLine, Zenon
<1> HIDE DEF first, least
<1>8. \A i : first(i) => parseJobHeader(lines) = lines[i]
  BY <1>2, <1>6, Zenon
<1>9. parseJobHeader(lines) # Text => \E i : first(i)
  BY <1>3, <1>5, <1>7, Zenon
<1> QED
  BY <1>8, <1>9, Zenon DEF first

\* What discovery and NewScheduler let through is what the files' lines ask for.
LEMMA RunnableIsScheduled == ASSUME NEW f \in SFile PROVE Scheduled(f) <=> f \in Runnable
<1> DEFINE lines == SDir[f].lines
           header == parseJobHeader(lines)
           first(i) == /\ i \in 1 .. Len(lines) /\ i <= HeaderLines /\ lines[i] # Text
                       /\ \A j \in 1 .. (i - 1) : lines[j] = Text
<1>1. lines \in Seq(JobHeader \cup {Text})
  BY DirAssumption, Zenon
<1>2. (\A i : first(i) => header = lines[i]) /\ (header # Text => \E i : first(i))
  BY <1>1, HeaderIsFirst, Zenon
<1>3. f \in Runnable <=> /\ SDir[f].lua /\ SDir[f].hasScript
                         /\ header # Text /\ header.enabled /\ header.interval > 0
  BY Zenon DEF Runnable, DiscoverJobs
<1>4. Scheduled(f) <=> /\ SDir[f].lua /\ SDir[f].hasScript
                       /\ \E i : first(i) /\ lines[i].enabled /\ lines[i].interval > 0
  BY Zenon DEF Scheduled
<1>5. \A i : first(i) => lines[i] # Text
  BY Zenon
<1> HIDE DEF lines, header, first
<1> QED
  BY <1>2, <1>3, <1>4, <1>5, Zenon

\* The runnable jobs have a goroutine, and it returns before Stop does.
SchedInv ==
  /\ jobAt \in [SFile -> {"none", "select", "running", "returned"}]
  /\ \A f \in SFile : jobAt[f] = "none" <=> f \notin Runnable
  /\ stopper = "stopped" => \A f \in Runnable : jobAt[f] = "returned"

\* One step of a job's goroutine, of its ticker or of Stop.
LEMMA SchedNextInv == ASSUME SchedInv, [SNext]_sVars PROVE SchedInv'
<1> USE DEF SchedInv
<1>1. ASSUME NEW f \in SFile, JobTicks(f) PROVE SchedInv'
  BY <1>1, Zenon DEF JobTicks
<1>2. ASSUME NEW f \in SFile, RunJob(f) \/ JobReturns(f) \/ JobLoopReturns(f) PROVE SchedInv'
  <2>1. /\ jobAt[f] \in {"select", "running"} /\ stopper' = stopper
        /\ \E place \in {"running", "select", "returned"} : jobAt' = [jobAt EXCEPT ![f] = place]
    BY <1>2, Zenon DEF RunJob, JobReturns, JobLoopReturns
  <2>2. f \in Runnable
    BY <2>1, Zenon
  <2>3. stopper # "stopped"
    BY <2>1, <2>2, Zenon
  <2> QED
    BY <2>1, <2>2, <2>3, Zenon
<1>3. CASE CloseDone \/ UNCHANGED sVars
  BY <1>3, Zenon DEF CloseDone, sVars
<1>4. CASE WaitGroupZero
  BY <1>4 DEF WaitGroupZero
<1> QED
  BY <1>1, <1>2, <1>3, <1>4, Zenon DEF SNext

\* For every jobs directory: exactly the files that ask for it run, and when Stop has
\* returned no job runs or will run again, whatever ticks were waiting.
THEOREM ScheduledJobsRunUntilStop == SSpec => []JobsRunAsScheduled
<1>1. SInit => SchedInv
  BY DEF SInit, SchedInv, Runnable, DiscoverJobs
<1>2. SchedInv /\ [SNext]_sVars => SchedInv'
  BY SchedNextInv
<1>3. SchedInv => JobsRunAsScheduled
  BY RunnableIsScheduled, Zenon DEF SchedInv, JobsRunAsScheduled
<1> QED
  BY <1>1, <1>2, <1>3, PTL DEF SSpec

-----------------------------------------------------------------------------
(* The TCP server.                                                         *)

INSTANCE FiniteSetTheorems

\* A goroutine that wg.Add has counted and wg.Done has not.
Counted == {"start", "reading", "flush", "close", "exit"}
Active == {c \in Conn : at[c] \in Counted}

ServeType ==
  /\ loop \in {"select", "accept", "spawn", "returned"}
  /\ hand \in Conn \cup {NoConn}
  /\ at \in [Conn -> Counted \cup {"new", "accepted", "done"}]
  /\ open \subseteq Conn /\ pool \subseteq Conn /\ swept \subseteq Conn
  /\ main \in {"serving", "closing", "closeAll", "waiting", "complete"}

\* The WaitGroup counts the goroutines; the accept loop holds the socket that has
\* been accepted and not been handed over; a socket in the pool has its goroutine
\* in the read loop; what CloseAll swept has a goroutine or had one.
ServeInv ==
  /\ ServeType
  /\ IsFiniteSet(Active) /\ wg = Cardinality(Active)
  /\ loop = "spawn" => hand \in Conn
  /\ \A c \in pool : at[c] = "reading"
  /\ \A c \in swept : at[c] \in Counted \cup {"done"}
  /\ SweptAreFlushed

-----------------------------------------------------------------------------
\* Nothing is open and nothing is counted.
LEMMA ServeInit == Init => ServeInv
<1> SUFFICES ASSUME Init PROVE ServeInv
  OBVIOUS
<1>1. Active = {}
  BY Zenon DEF Init, Active, Counted
<1>2. IsFiniteSet(Active) /\ wg = Cardinality(Active)
  BY <1>1, FS_EmptySet, Zenon DEF Init
<1> QED
  BY <1>2, Zenon DEF Init, ServeInv, ServeType, SweptAreFlushed, Counted

\* The goroutine of c is where it was, or moves without being counted in or out.
LEMMA SameCount ==
  ASSUME ServeInv, NEW c \in Conn, NEW from, NEW to, Goto(c, from, to),
         from \in Counted <=> to \in Counted
  PROVE  Active' = Active
  BY Zenon DEF ServeInv, ServeType, Goto, Active

\* Spawn counts one in.
LEMMA CountIn ==
  ASSUME ServeInv, NEW c \in Conn, Goto(c, "accepted", "start"), wg' = wg + 1
  PROVE  IsFiniteSet(Active') /\ wg' = Cardinality(Active')
<1>1. Active' = Active \cup {c} /\ c \notin Active
  BY Zenon DEF ServeInv, ServeType, Goto, Active, Counted
<1> QED
  BY <1>1, FS_AddElement, Zenon DEF ServeInv

\* Done counts one out.
LEMMA CountOut ==
  ASSUME ServeInv, NEW c \in Conn, Goto(c, "exit", "done"), wg' = wg - 1
  PROVE  IsFiniteSet(Active') /\ wg' = Cardinality(Active')
<1>1. Active' = Active \ {c} /\ c \in Active
  BY Zenon DEF ServeInv, ServeType, Goto, Active, Counted
<1> QED
  BY <1>1, FS_RemoveElement, Zenon DEF ServeInv

\* The steps that leave the goroutines and the count alone.
LEMMA ServeRest ==
  ASSUME ServeInv, ServeType', UNCHANGED <<at, pool, wg>>, loop' = "spawn" => hand' \in Conn,
         swept' \subseteq swept \cup pool,
         main' = "complete" => (wg = 0 \/ (main = "complete" /\ swept' = swept))
  PROVE  ServeInv'
<1>1. Active' = Active
  BY Zenon DEF Active
<1>2. \A c \in swept' : at'[c] \in Counted \cup {"done"}
  BY Zenon DEF ServeInv, Counted
<1>3. SweptAreFlushed'
  <2>1. wg = 0 => Active = {}
    BY FS_EmptySet, Zenon DEF ServeInv
  <2> QED
    BY <1>2, <2>1 DEF SweptAreFlushed, Active, ServeInv, ServeType
<1> QED
  BY <1>1, <1>2, <1>3 DEF ServeInv

\* The steps that move the goroutine of c, which is not one that has ended.
LEMMA ServeMove ==
  ASSUME ServeInv, ServeType', NEW c \in Conn, NEW from, NEW to, Goto(c, from, to),
         from # "done", from \in Counted => to \in Counted \cup {"done"},
         IsFiniteSet(Active'), wg' = Cardinality(Active'),
         loop' = "spawn" => hand' \in Conn, \A d \in pool' : at'[d] = "reading",
         UNCHANGED <<main, swept>>
  PROVE  ServeInv'
<1>1. at[c] = from /\ at'[c] = to /\ \A d \in Conn \ {c} : at'[d] = at[d]
  BY Zenon DEF Goto, ServeInv, ServeType
<1>2. \A d \in swept : at'[d] \in Counted \cup {"done"}
  BY <1>1 DEF ServeInv, ServeType
<1>3. SweptAreFlushed'
  BY <1>1 DEF ServeInv, ServeType, SweptAreFlushed
<1> QED
  BY <1>2, <1>3 DEF ServeInv

\* The accept loop.
LEMMA LoopInv == ASSUME ServeInv, LoopStep PROVE ServeInv'
<1>1. CASE Select \/ AcceptFails
  <2>1. ServeType'
    BY <1>1, Zenon DEF Select, AcceptFails, connVars, ServeInv, ServeType
  <2> QED
    BY <1>1, <2>1, ServeRest, Zenon DEF Select, AcceptFails, connVars
<1>2. CASE Reject
  <2>1. hand \in Conn
    BY <1>2 DEF Reject, ServeInv
  <2>2. ServeType'
    BY <1>2, <2>1 DEF Reject, Goto, ServeInv, ServeType
  <2>3. Active' = Active
    BY <1>2, <2>1, SameCount DEF Reject, Counted
  <2>4. \A d \in pool' : at'[d] = "reading"
    BY <1>2, <2>1 DEF Reject, Goto, ServeInv, ServeType
  <2> QED
    BY <1>2, <2>1, <2>2, <2>3, <2>4, ServeMove, Zenon DEF Reject, ServeInv, Counted
<1>3. CASE Spawn
  <2>1. hand \in Conn
    BY <1>3 DEF Spawn, ServeInv
  <2>2. ServeType'
    BY <1>3, <2>1 DEF Spawn, Goto, ServeInv, ServeType, Counted
  <2>3. IsFiniteSet(Active') /\ wg' = Cardinality(Active')
    BY <1>3, <2>1, CountIn DEF Spawn
  <2>4. \A d \in pool' : at'[d] = "reading"
    BY <1>3, <2>1 DEF Spawn, Goto, ServeInv, ServeType
  <2> QED
    BY <1>3, <2>1, <2>2, <2>3, <2>4, ServeMove DEF Spawn, Counted
<1> QED
  BY <1>1, <1>2, <1>3, Zenon DEF LoopStep

\* Accept returns a socket.
LEMMA AcceptInv == ASSUME ServeInv, NEW c \in Conn, AcceptConn(c) PROVE ServeInv'
<1>1. ServeType'
  BY Zenon DEF AcceptConn, Goto, ServeInv, ServeType
<1>2. Active' = Active
  BY SameCount DEF AcceptConn, Counted
<1>3. \A d \in pool' : at'[d] = "reading"
  BY Zenon DEF AcceptConn, Goto, ServeInv, ServeType
<1> QED
  BY <1>1, <1>2, <1>3, ServeMove, Zenon DEF AcceptConn, ServeInv, Counted

\* A connection goroutine.
LEMMA GoroutineInv == ASSUME ServeInv, NEW c \in Conn, ConnStep(c) \/ Unregister(c) PROVE ServeInv'
<1>1. ServeType'
  BY Zenon DEF ConnStep, Register, Unregister, Flush, Close, Done, Goto, ServeInv, ServeType, Counted
<1>2. \A d \in pool' : at'[d] = "reading"
  <2>1. pool \subseteq Conn /\ at \in [Conn -> Counted \cup {"new", "accepted", "done"}]
    BY Zenon DEF ServeInv, ServeType
  <2>2. \A d \in pool : at[d] = "reading"
    BY Zenon DEF ServeInv
  <2>3. CASE Register(c)
    BY <2>1, <2>2, <2>3, Zenon DEF Register, Goto
  <2>4. CASE Unregister(c)
    BY <2>1, <2>2, <2>4, Zenon DEF Unregister, Goto
  <2>5. CASE Flush(c) \/ Close(c) \/ Done(c)
    <3>1. c \notin pool /\ pool' = pool
      BY <2>2, <2>5 DEF Flush, Close, Done, Goto
    <3>2. \A d \in Conn \ {c} : at'[d] = at[d]
      BY <2>1, <2>5, Zenon DEF Flush, Close, Done, Goto
    <3> QED
      BY <2>1, <2>2, <3>1, <3>2, Zenon
  <2> QED
    BY <2>3, <2>4, <2>5, Zenon DEF ConnStep
<1>3. (loop' = "spawn" => hand' \in Conn) /\ UNCHANGED <<main, swept>>
  BY Zenon DEF ConnStep, Register, Unregister, Flush, Close, Done, ServeInv
<1>4. CASE Done(c)
  <2>1. IsFiniteSet(Active') /\ wg' = Cardinality(Active')
    BY <1>4, CountOut, Zenon DEF Done
  <2> QED
    BY <1>1, <1>2, <1>3, <1>4, <2>1, ServeMove, Zenon DEF Done, Counted
<1>5. CASE ~Done(c)
  <2>1. PICK from, to \in Counted : Goto(c, from, to) /\ wg' = wg
    BY <1>5, Zenon DEF ConnStep, Register, Unregister, Flush, Close, Counted
  <2>2. Active' = Active
    BY <2>1, SameCount
  <2> QED
    BY <1>1, <1>2, <1>3, <2>1, <2>2, ServeMove, Zenon DEF ServeInv, Counted
<1> QED
  BY <1>4, <1>5

\* Shutdown, and a peer that closes its socket.
LEMMA MainInv ==
  ASSUME ServeInv, CloseShutdown \/ MainStep \/ \E c \in Conn : PeerCloses(c)
  PROVE  ServeInv'
<1>1. /\ ServeType' /\ UNCHANGED <<at, pool, wg>>
      /\ loop' = "spawn" => hand' \in Conn
      /\ swept' \subseteq swept \cup pool
      /\ main' = "complete" => (wg = 0 \/ (main = "complete" /\ swept' = swept))
  BY Zenon DEF CloseShutdown, MainStep, CloseListener, CloseAll, Wait, PeerCloses, connVars, ServeInv, ServeType
<1> QED
  BY <1>1, ServeRest

\* No step of the TCP server breaks the invariant.
LEMMA ServeNext == ServeInv /\ [Next]_vars => ServeInv'
<1> SUFFICES ASSUME ServeInv, [Next]_vars PROVE ServeInv'
  OBVIOUS
<1>1. CASE UNCHANGED vars
  <2>1. ServeType' /\ UNCHANGED <<at, pool, wg, swept, main, loop, hand>>
    BY <1>1 DEF vars, ServeInv, ServeType
  <2> QED
    BY <2>1, ServeRest DEF ServeInv
<1> QED
  BY <1>1, LoopInv, AcceptInv, GoroutineInv, MainInv DEF Next

\* "all teardown paths ... funnel through here" (handleConnection): Shutdown
\* returns only after every connection CloseAll found has flushed its state,
\* whatever the accept loop and the goroutines were doing meanwhile.
THEOREM ShutdownFlushes == Spec => []SweptAreFlushed
<1>1. ServeInv => SweptAreFlushed
  BY Zenon DEF ServeInv
<1> QED
  BY <1>1, ServeInit, ServeNext, PTL DEF Spec
=============================================================================

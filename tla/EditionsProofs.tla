---------------------------- MODULE EditionsProofs --------------------------
(***************************************************************************)
(* What each edition serves with and what it answers: for the default one  *)
(* proved for every config.lua, every number of workers, peers and places  *)
(* of files, and every time; for the api-only one for every environment,   *)
(* command line and url of any length.                                     *)
(***************************************************************************)
EXTENDS Editions, TLAPS, WellFoundedInduction

\* A configuration in force is what Parse made of the file that was found.
ConfigIsRead ==
    http.at \in {"parsed", "bound", "serving"} =>
        /\ http.machine \in Machines
        /\ ConfigPath # 0 /\ Converts(File) /\ ~Lacks(File)
        /\ http.config = Parse(File, http.machine)

\* The debt of a peer at a worker, and the requests it has had admitted there:
\* every one of them cost a period, and a second pays for a second.
InBalance(owed, requests) ==
    /\ owed \in Nat /\ requests \in Nat
    /\ requests * Period <= owed + clock
    /\ owed <= requests * Period
    /\ owed <= Burst * Period

LimiterBalances ==
    Serving =>
        /\ http.config.threads \in Nat \ {0}
        /\ Burst \in Nat \ {0} /\ Period \in Nat \ {0}
        /\ debt \in [Workers -> [Peers -> Nat]]
        /\ admitted \in [Workers -> [Peers -> Nat]]
        /\ \A w \in Workers, p \in Peers : InBalance(debt[w][p], admitted[w][p])

HttpInvariant ==
    /\ DOMAIN http = {"machine", "at", "config"}
    /\ clock \in Nat
    /\ http.at = "started" => http.machine \in Machines
    /\ ConfigIsRead
    /\ LimiterBalances

-----------------------------------------------------------------------------
(* Arithmetic and records.                                                 *)

\* A set of numbers that is not empty has a smallest one.
LEMMA SmallestNat ==
    ASSUME NEW S \in SUBSET Nat, S # {}
    PROVE  \E i \in S : \A j \in S : i <= j
<1> DEFINE Less == OpToRel(<, Nat)
<1>1. IsWellFoundedOn(Less, Nat)
    BY NatLessThanWellFounded
<1>2. \A i, j \in Nat : i < j => <<i, j>> \in Less
    BY DEF OpToRel
<1> HIDE DEF Less
<1>3. PICK i \in S : \A j \in S : ~(<<j, i>> \in Less)
    BY <1>1, WFMin
<1>4. \A j \in S : i \in Nat /\ j \in Nat /\ ~(j < i)
    BY <1>2, <1>3
<1> QED
    BY <1>4

\* Induction up to a bound, over a set of numbers.
LEMMA UpToBound ==
    ASSUME NEW N \in Nat, NEW S, 0 \in S, \A n \in 0 .. N - 1 : n \in S => n + 1 \in S
    PROVE  \A n \in 0 .. N : n \in S
<1> SUFFICES ASSUME (0 .. N) \ S # {}
             PROVE  FALSE
    OBVIOUS
<1>1. PICK n \in (0 .. N) \ S : \A k \in (0 .. N) \ S : n <= k
    <2>1. (0 .. N) \ S \in SUBSET Nat
        OBVIOUS
    <2> QED
        BY <2>1, SmallestNat
<1>2. n # 0 /\ n - 1 \in 0 .. N - 1 /\ ~(n <= n - 1) /\ (n - 1) + 1 = n
    BY <1>1
<1>3. n - 1 \in S
    BY <1>1, <1>2
<1> QED
    BY <1>1, <1>2, <1>3

LEMMA Products ==
    ASSUME NEW a \in Int, NEW b \in Int, NEW d \in Nat \ {0}
    PROVE  /\ a * d \in Int
           /\ (a + b) * d = a * d + b * d
           /\ (a - b) * d = a * d - b * d
           /\ a * d <= b * d => a <= b
           /\ a * d < b * d => a < b
OBVIOUS

LEMMA WholePeriods ==
    ASSUME NEW n \in Int, NEW c \in Nat, NEW d \in Nat \ {0}, n * d <= c
    PROVE  n <= c \div d
<1>1. c = d * (c \div d) + (c % d) /\ c \div d \in Int /\ c % d \in 0 .. d - 1
    OBVIOUS
<1> DEFINE q == c \div d
<1>2. n * d < (q + 1) * d
    BY <1>1
<1>3. n < q + 1
    <2> HIDE DEF q
    <2>1. q \in Int
        BY <1>1 DEF q
    <2> QED
        BY <1>2, <2>1, Products
<1> QED
    BY <1>1, <1>3

\* One request more costs a period, and stays within the burst.
LEMMA AdmitBalances ==
    ASSUME NEW owed \in Nat, NEW requests \in Nat, NEW c \in Nat,
           NEW burst \in Nat \ {0}, NEW period \in Nat \ {0},
           requests * period <= owed + c, owed <= requests * period,
           owed <= (burst - 1) * period
    PROVE  /\ (requests + 1) * period <= owed + period + c
           /\ owed + period <= (requests + 1) * period
           /\ owed + period <= burst * period
<1>1. (requests + 1) * period = requests * period + period
    OBVIOUS
<1>2. (burst - 1) * period = burst * period - period
    OBVIOUS
<1>3. requests * period \in Nat /\ burst * period \in Nat
    OBVIOUS
<1> QED
    BY <1>1, <1>2, <1>3

\* A second reduces what is owed by at most itself.
LEMMA SecondBalances ==
    ASSUME NEW owed \in Nat, NEW left, left = IF owed = 0 THEN 0 ELSE owed - 1
    PROVE  left \in Nat /\ left <= owed /\ owed <= left + 1
OBVIOUS

LEMMA ExceptAt ==
    ASSUME NEW h, DOMAIN h = {"machine", "at", "config"}, NEW how
    PROVE  LET new == [h EXCEPT !.at = how]
           IN  /\ DOMAIN new = {"machine", "at", "config"}
               /\ new.at = how /\ new.machine = h.machine /\ new.config = h.config
OBVIOUS

-----------------------------------------------------------------------------
(* Values of a configuration.                                              *)

LEMMA ConvertedNumbers ==
    ASSUME NEW file, Converts(file)
    PROVE  /\ file.threads \in Nat /\ file.safe_search \in Nat
           /\ file.cache_expiry_time \in Nat /\ file.http_cache_expiry_time \in Nat
           /\ file.number_of_requests = Nil \/ file.number_of_requests \in Nat
           /\ file.time_limit = Nil \/ file.time_limit \in Nat
<1>1. \A value \in 0 .. u8 - 1 : value \in Nat
    BY DEF u8
<1>2. \A value \in 0 .. u16 - 1 : value \in Nat
    BY DEF u16
<1>3. /\ file.threads \in 0 .. u8 - 1 /\ file.safe_search \in 0 .. u8 - 1
      /\ file.cache_expiry_time \in 0 .. u16 - 1 /\ file.http_cache_expiry_time \in 0 .. u8 - 1
    BY DEF Converts, FromLua
<1>4. \A key \in {"number_of_requests", "time_limit"} : file[key] = Nil \/ file[key] \in 0 .. u8 - 1
    BY DEF Converts, FromLua
<1> QED
    BY <1>1, <1>2, <1>3, <1>4

LEMMA ParseTypes ==
    ASSUME NEW file, NEW machine \in Machines, Converts(file), ~Lacks(file)
    PROVE  LET parsed == Parse(file, machine)
           IN  /\ parsed.threads \in Nat /\ parsed.safe_search \in 0 .. 4
               /\ parsed.cache_expiry_time \in Nat /\ parsed.cache_expiry_time >= 60
               /\ parsed.http_cache_expiry_time \in Nat /\ parsed.http_cache_expiry_time >= 60
               /\ parsed.number_of_requests \in Nat /\ parsed.time_limit \in Nat
<1>1. machine.cores \in Nat
    BY MachinesAssumption
<1>2. Cores(machine) \in Nat
    <2>1. machine.cores \div 2 \in Nat
        BY <1>1
    <2> QED
        BY <2>1 DEF Cores, u8
<1> QED
    BY <1>2, ConvertedNumbers DEF Lacks, Parse, Threads, SafeSearch, AtLeast60

\* An option in bounds is left as it is.
LEMMA ParseKeeps ==
    ASSUME NEW file, NEW machine \in Machines, Converts(file),
           NEW option \in {"threads", "safe_search", "cache_expiry_time", "http_cache_expiry_time"}
    PROVE  Parse(file, machine)[option] = file[option] \/ OutOfBounds(option, file[option])
<1>1. CASE option = "threads"
    BY <1>1 DEF Parse, Threads, OutOfBounds
<1>2. CASE option = "safe_search"
    BY <1>2, ConvertedNumbers DEF Parse, SafeSearch, OutOfBounds
<1>3. CASE option = "cache_expiry_time"
    BY <1>3, ConvertedNumbers DEF Parse, AtLeast60, OutOfBounds
<1>4. CASE option = "http_cache_expiry_time"
    BY <1>4, ConvertedNumbers DEF Parse, AtLeast60, OutOfBounds
<1> QED
    BY <1>1, <1>2, <1>3, <1>4

\* The file that is read is in the first place that is not empty.
LEMMA FirstPlace ==
    ASSUME NEW places \in Seq({"absent", "present", "denied"}), file_path(places) # 0
    PROVE  /\ places[file_path(places)] = "present"
           /\ file_path(places) =
                CHOOSE i \in DOMAIN places :
                  places[i] # "absent" /\ \A j \in 1 .. i - 1 : places[j] = "absent"
<1>1. Tried(places) # {} /\ Tried(places) \in SUBSET Nat
    BY DEF file_path, Tried
<1> DEFINE first == CHOOSE i \in Tried(places) : \A j \in Tried(places) : i <= j
<1>2. \E i \in Tried(places) : \A j \in Tried(places) : i <= j
    BY <1>1, SmallestNat
<1>3. first \in Tried(places) /\ \A j \in Tried(places) : first <= j
    BY <1>2
<1>4. file_path(places) = first /\ places[first] = "present"
    BY <1>1 DEF file_path
<1> HIDE DEF first
<1> DEFINE IsFirst(i) == places[i] # "absent" /\ \A j \in 1 .. i - 1 : places[j] = "absent"
<1>5. DOMAIN places = 1 .. Len(places) /\ Len(places) \in Nat
    OBVIOUS
<1>6. first \in DOMAIN places /\ IsFirst(first)
    BY <1>3, <1>5 DEF Tried
<1>7. ASSUME NEW i \in DOMAIN places, IsFirst(i)
      PROVE  i = first
    BY <1>3, <1>5, <1>6, <1>7 DEF Tried
<1>8. (CHOOSE i \in DOMAIN places : IsFirst(i)) = first
    <2> HIDE DEF IsFirst
    <2> QED
        BY <1>6, <1>7
<1> QED
    BY <1>4, <1>8

-----------------------------------------------------------------------------
(* The invariant.                                                          *)

\* The parts of the invariant read these only.
LEMMA SameProcess ==
    ASSUME HttpInvariant, UNCHANGED <<http, debt, admitted, clock>>
    PROVE  HttpInvariant'
BY DEF HttpInvariant, ConfigIsRead, LimiterBalances, InBalance, Serving, Burst, Period, Workers,
       ConfigPath, File

LEMMA InitHolds == Init => HttpInvariant
BY DEF Init, HttpInit, HttpOff, HttpInvariant, ConfigIsRead, LimiterBalances, Serving, NoSettings

LEMMA StartingKeeps ==
    ASSUME HttpInvariant, ParseConfig \/ BindHttp
    PROVE  HttpInvariant'
<1>1. ~Serving /\ clock' = clock
    BY DEF ParseConfig, BindHttp, Serving, UnchangedService
<1>2. CASE ParseConfig
    <2>1. http.machine \in Machines
        BY <1>2 DEF ParseConfig, HttpInvariant
    <2>2. CASE ConfigPath = 0 \/ ~Converts(File) \/ Lacks(File)
        <3>1. PICK how \in {"error", "panic"} : http' = [http EXCEPT !.at = how]
            BY <1>2, <2>2 DEF ParseConfig
        <3>2. DOMAIN http' = {"machine", "at", "config"} /\ http'.at = how
            BY <3>1, ExceptAt DEF HttpInvariant
        <3> QED
            BY <1>1, <3>2 DEF HttpInvariant, ConfigIsRead, LimiterBalances, Serving
    <2>3. CASE ConfigPath # 0 /\ Converts(File) /\ ~Lacks(File)
        <3>1. http' = [http EXCEPT !.at = "parsed", !.config = Parse(File, http.machine)]
            BY <1>2, <2>3 DEF ParseConfig
        <3>2. /\ DOMAIN http' = {"machine", "at", "config"} /\ http'.at = "parsed"
              /\ http'.machine = http.machine /\ http'.config = Parse(File, http.machine)
            BY <3>1 DEF HttpInvariant
        <3>3. ConfigIsRead'
            BY <2>1, <2>3, <3>2 DEF ConfigIsRead, ConfigPath, File
        <3> QED
            BY <1>1, <3>2, <3>3 DEF HttpInvariant, LimiterBalances, Serving
    <2> QED
        BY <2>2, <2>3
<1>3. CASE BindHttp
    <2>1. PICK how \in {"bound", "error"} : http' = [http EXCEPT !.at = how]
        BY <1>3 DEF BindHttp
    <2>2. /\ DOMAIN http' = {"machine", "at", "config"} /\ http'.at = how
          /\ http'.machine = http.machine /\ http'.config = http.config
        BY <2>1, ExceptAt DEF HttpInvariant
    <2>3. ConfigIsRead'
        BY <1>3, <2>2 DEF HttpInvariant, BindHttp, ConfigIsRead, ConfigPath, File
    <2> QED
        BY <1>1, <2>2, <2>3 DEF HttpInvariant, LimiterBalances, Serving
<1> QED
    BY <1>2, <1>3

LEMMA RunKeeps ==
    ASSUME HttpInvariant, Run
    PROVE  HttpInvariant'
<1>1. PICK how \in {"error", "panic", "serving"} : http' = [http EXCEPT !.at = how]
    BY DEF Run
<1>2. /\ DOMAIN http' = {"machine", "at", "config"} /\ http'.at = how
      /\ http'.machine = http.machine /\ http'.config = http.config
    BY <1>1, ExceptAt DEF HttpInvariant
<1>3. ConfigIsRead'
    BY <1>2 DEF HttpInvariant, Run, ConfigIsRead, ConfigPath, File
<1>4. clock' = clock /\ clock' \in Nat
    BY DEF HttpInvariant, Run
<1>5. ASSUME how = "serving"
      PROVE  LimiterBalances'
    <2>1. 0 \notin {http.config.threads, http.config.number_of_requests, http.config.time_limit}
        BY <1>2, <1>5 DEF Run
    <2>2. /\ http.config.threads \in Nat /\ http.config.number_of_requests \in Nat
          /\ http.config.time_limit \in Nat
        BY ParseTypes DEF HttpInvariant, ConfigIsRead, Run
    <2>3. /\ Workers' = Workers /\ Burst' = Burst /\ Period' = Period
          /\ http'.config.threads \in Nat \ {0} /\ Burst \in Nat \ {0} /\ Period \in Nat \ {0}
        BY <1>2, <2>1, <2>2 DEF Workers, Burst, Period
    <2>4. /\ debt' = [w \in Workers |-> [p \in Peers |-> 0]]
          /\ admitted' = [w \in Workers |-> [p \in Peers |-> 0]]
        BY DEF Run
    <2>5. /\ 0 * Period = 0 /\ 0 <= 0 + clock /\ 0 <= Burst * Period
        BY <1>4, <2>3
    <2> QED
        BY <1>4, <2>3, <2>4, <2>5 DEF LimiterBalances, InBalance
<1> QED
    BY <1>2, <1>3, <1>4, <1>5 DEF HttpInvariant, LimiterBalances, Serving

LEMMA AdmitKeeps ==
    ASSUME HttpInvariant, NEW q \in Peers, NEW v \in Workers, Admit(q, v)
    PROVE  HttpInvariant'
<1>1. http' = http /\ clock' = clock /\ Serving /\ WithinQuota(v, q)
    BY DEF Admit
<1>2. /\ debt' = [debt EXCEPT ![v][q] = debt[v][q] + Period]
      /\ admitted' = [admitted EXCEPT ![v][q] = admitted[v][q] + 1]
    BY DEF Admit
<1>3. /\ Workers' = Workers /\ Burst' = Burst /\ Period' = Period /\ Serving'
    BY <1>1 DEF Workers, Burst, Period, Serving
<1>4. /\ http.config.threads \in Nat \ {0} /\ Burst \in Nat \ {0} /\ Period \in Nat \ {0}
      /\ debt \in [Workers -> [Peers -> Nat]] /\ admitted \in [Workers -> [Peers -> Nat]]
      /\ \A w \in Workers, p \in Peers : InBalance(debt[w][p], admitted[w][p])
      /\ clock \in Nat
    BY <1>1 DEF HttpInvariant, LimiterBalances
<1>5. debt' \in [Workers -> [Peers -> Nat]] /\ admitted' \in [Workers -> [Peers -> Nat]]
    BY <1>2, <1>4
<1>6. ASSUME NEW w \in Workers, NEW p \in Peers
      PROVE  InBalance(debt[w][p], admitted[w][p])'
    <2>1. CASE w = v /\ p = q
        <3>1. debt'[w][p] = debt[v][q] + Period /\ admitted'[w][p] = admitted[v][q] + 1
            BY <1>2, <1>4, <2>1
        <3>2. InBalance(debt[v][q], admitted[v][q])
            BY <1>4
        <3>3. debt[v][q] <= (Burst - 1) * Period
            BY <1>1 DEF WithinQuota, Cost
        <3>4. /\ (admitted[v][q] + 1) * Period <= debt[v][q] + Period + clock
              /\ debt[v][q] + Period <= (admitted[v][q] + 1) * Period
              /\ debt[v][q] + Period <= Burst * Period
            BY <1>4, <3>2, <3>3, AdmitBalances DEF InBalance
        <3>5. debt[v][q] + Period \in Nat /\ admitted[v][q] + 1 \in Nat
            BY <1>4, <3>2 DEF InBalance
        <3> QED
            BY <1>1, <1>3, <3>1, <3>4, <3>5 DEF InBalance
    <2>2. CASE ~(w = v /\ p = q)
        <3>1. debt'[w][p] = debt[w][p] /\ admitted'[w][p] = admitted[w][p]
            BY <1>2, <1>4, <2>2
        <3> QED
            BY <1>1, <1>3, <1>4, <3>1 DEF InBalance
    <2> QED
        BY <2>1, <2>2
<1>7. LimiterBalances'
    BY <1>1, <1>3, <1>4, <1>5, <1>6 DEF LimiterBalances
<1> QED
    BY <1>1, <1>7 DEF HttpInvariant, ConfigIsRead, ConfigPath, File

LEMMA SecondKeeps ==
    ASSUME HttpInvariant, Second
    PROVE  HttpInvariant'
<1>1. /\ http' = http /\ admitted' = admitted /\ clock' = clock + 1 /\ Serving
      /\ debt' = [w \in Workers |-> [p \in Peers |-> IF debt[w][p] = 0 THEN 0 ELSE debt[w][p] - 1]]
    BY DEF Second
<1>2. /\ Workers' = Workers /\ Burst' = Burst /\ Period' = Period /\ Serving'
    BY <1>1 DEF Workers, Burst, Period, Serving
<1>3. /\ http.config.threads \in Nat \ {0} /\ Burst \in Nat \ {0} /\ Period \in Nat \ {0}
      /\ debt \in [Workers -> [Peers -> Nat]] /\ admitted \in [Workers -> [Peers -> Nat]]
      /\ \A w \in Workers, p \in Peers : InBalance(debt[w][p], admitted[w][p])
      /\ clock \in Nat
    BY <1>1 DEF HttpInvariant, LimiterBalances
<1>4. ASSUME NEW w \in Workers, NEW p \in Peers
      PROVE  debt'[w][p] \in Nat /\ debt'[w][p] <= debt[w][p] /\ debt[w][p] <= debt'[w][p] + 1
    <2>1. debt'[w][p] = IF debt[w][p] = 0 THEN 0 ELSE debt[w][p] - 1
        BY <1>1
    <2>2. debt[w][p] \in Nat
        BY <1>3
    <2> QED
        BY <2>1, <2>2, SecondBalances
<1>5. debt' \in [Workers -> [Peers -> Nat]]
    <2>1. \A w \in Workers : debt'[w] \in [Peers -> Nat]
        <3> SUFFICES ASSUME NEW w \in Workers
                     PROVE  debt'[w] \in [Peers -> Nat]
            OBVIOUS
        <3>1. debt'[w] = [p \in Peers |-> IF debt[w][p] = 0 THEN 0 ELSE debt[w][p] - 1]
            BY <1>1
        <3> QED
            BY <1>4, <3>1
    <2>2. debt' = [w \in Workers |-> debt'[w]]
        BY <1>1
    <2> QED
        BY <2>1, <2>2
<1>6. ASSUME NEW w \in Workers, NEW p \in Peers
      PROVE  InBalance(debt[w][p], admitted[w][p])'
    <2>1. admitted[w][p] * Period \in Nat /\ Burst * Period \in Nat /\ debt[w][p] \in Nat
        BY <1>3
    <2>2. debt'[w][p] \in Nat /\ debt'[w][p] <= debt[w][p] /\ debt[w][p] <= debt'[w][p] + 1
        BY <1>4
    <2>3. /\ admitted[w][p] \in Nat /\ admitted[w][p] * Period <= debt[w][p] + clock
          /\ debt[w][p] <= admitted[w][p] * Period /\ debt[w][p] <= Burst * Period
        BY <1>3 DEF InBalance
    <2>4. /\ admitted[w][p] * Period <= debt'[w][p] + clock'
          /\ debt'[w][p] <= admitted[w][p] * Period /\ debt'[w][p] <= Burst * Period
        BY <1>1, <1>3, <2>1, <2>2, <2>3
    <2> QED
        BY <1>1, <1>2, <2>2, <2>3, <2>4 DEF InBalance
<1>7. LimiterBalances'
    BY <1>1, <1>2, <1>3, <1>5, <1>6 DEF LimiterBalances
<1> QED
    BY <1>1, <1>3, <1>7 DEF HttpInvariant, ConfigIsRead, ConfigPath, File

LEMMA HandlersKeep ==
    ASSUME HttpInvariant, NEW p \in Peers, HandlerStep(p)
    PROVE  HttpInvariant'
<1>1. CASE UNCHANGED http
    <2>1. UNCHANGED <<http, debt, admitted, clock>>
        BY <1>1 DEF HandlerStep, GetCell, TakeCell, CellInitialised, CellFails, Fetched
    <2> QED
        BY <2>1, SameProcess
<1>2. CASE http' # http
    <2>1. http' = [http EXCEPT !.at = "panic"] /\ clock' = clock
        BY <1>2 DEF HandlerStep, GetCell, TakeCell, CellInitialised, CellFails, Fetched
    <2>2. DOMAIN http' = {"machine", "at", "config"} /\ http'.at = "panic"
        BY <2>1, ExceptAt DEF HttpInvariant
    <2> QED
        BY <2>1, <2>2 DEF HttpInvariant, ConfigIsRead, LimiterBalances, Serving
<1> QED
    BY <1>1, <1>2

LEMMA StepKeeps == HttpInvariant /\ [Next]_vars => HttpInvariant'
<1> SUFFICES ASSUME HttpInvariant, [Next]_vars
             PROVE  HttpInvariant'
    OBVIOUS
<1>1. CASE UNCHANGED httpVars
    BY <1>1, SameProcess DEF httpVars
<1>2. CASE ParseConfig \/ BindHttp
    BY <1>2, StartingKeeps
<1>3. CASE Run
    BY <1>3, RunKeeps
<1>4. CASE Second
    BY <1>4, SecondKeeps
<1>5. CASE \E p \in Peers : HandlerStep(p)
    BY <1>5, HandlersKeep
<1>6. CASE \E p \in Peers, w \in Workers : Admit(p, w)
    BY <1>6, AdmitKeeps
<1>7. Next => UNCHANGED httpVars \/ HttpNext
    BY DEF Next
<1> QED
    BY <1>1, <1>2, <1>3, <1>4, <1>5, <1>6, <1>7 DEF HttpNext, vars

LEMMA InvariantHolds == Spec => []HttpInvariant
BY InitHolds, StepKeeps, PTL DEF Spec

-----------------------------------------------------------------------------
(* The properties.                                                         *)

LEMMA InvariantLimits == HttpInvariant => WorkersLimitPeers
<1> SUFFICES ASSUME HttpInvariant, Serving, NEW w \in Workers, NEW p \in Peers
             PROVE  /\ admitted[w][p] <= Burst + clock \div Period
                    /\ ~WithinQuota(w, p) => admitted[w][p] >= Burst
    BY DEF WorkersLimitPeers
<1>1. /\ Burst \in Nat \ {0} /\ Period \in Nat \ {0} /\ clock \in Nat
      /\ InBalance(debt[w][p], admitted[w][p])
    BY DEF HttpInvariant, LimiterBalances
<1> DEFINE n == admitted[w][p]
           owed == debt[w][p]
<1>2. /\ n \in Nat /\ owed \in Nat
      /\ n * Period <= owed + clock /\ owed <= n * Period /\ owed <= Burst * Period
    BY <1>1 DEF InBalance
<1>3. WithinQuota(w, p) <=> owed <= (Burst - 1) * Period
    BY DEF WithinQuota, Cost
<1> HIDE DEF n, owed
<1>4. n <= Burst + clock \div Period
    <2>1. (n - Burst) * Period = n * Period - Burst * Period
        BY <1>1, <1>2, Products
    <2>2. n * Period \in Int /\ Burst * Period \in Int
        BY <1>1, <1>2, Products
    <2>3. (n - Burst) * Period <= clock
        BY <1>1, <1>2, <2>1, <2>2
    <2>4. n - Burst <= clock \div Period
        BY <1>1, <1>2, <2>3, WholePeriods
    <2>5. clock \div Period \in Int
        BY <1>1
    <2> QED
        BY <1>1, <1>2, <2>4, <2>5
<1>5. ASSUME ~WithinQuota(w, p)
      PROVE  n >= Burst
    <2>1. (Burst - 1) * Period \in Int /\ n * Period \in Int
        BY <1>1, <1>2, Products
    <2>2. (Burst - 1) * Period < n * Period
        BY <1>2, <1>3, <1>5, <2>1
    <2>3. Burst - 1 < n
        BY <1>1, <1>2, <2>2, Products
    <2> QED
        BY <1>1, <1>2, <2>3
<1> QED
    BY <1>4, <1>5 DEF n

LEMMA InvariantSound == HttpInvariant => ServedConfigIsSound
<1> SUFFICES ASSUME HttpInvariant, Serving
             PROVE  ServedConfigIsSound
    BY DEF ServedConfigIsSound
<1> DEFINE places == http.machine.config_places
           first == CHOOSE i \in DOMAIN places :
                      places[i] # "absent" /\ \A j \in 1 .. i - 1 : places[j] = "absent"
           served == http.config
           file == http.machine.files[first]
<1>1. /\ http.machine \in Machines
      /\ ConfigPath # 0 /\ Converts(File) /\ ~Lacks(File)
      /\ served = Parse(File, http.machine)
      /\ served.threads # 0 /\ served.number_of_requests # 0 /\ served.time_limit # 0
    BY DEF HttpInvariant, ConfigIsRead, LimiterBalances, Serving, Burst, Period
<1>2. places \in Seq({"absent", "present", "denied"}) /\ file_path(places) # 0
    BY <1>1, MachinesAssumption DEF ConfigPath
<1>3. places[file_path(places)] = "present" /\ file_path(places) = first
    BY <1>2, FirstPlace
<1> HIDE DEF first
<1>4. File = file
    BY <1>3 DEF File, ConfigPath
<1>5. /\ served.threads \in Nat /\ served.safe_search \in 0 .. 4
      /\ served.cache_expiry_time >= 60 /\ served.http_cache_expiry_time >= 60
      /\ served.number_of_requests \in Nat /\ served.time_limit \in Nat
    BY <1>1, ParseTypes
<1>6. served.threads > 0 /\ served.number_of_requests > 0 /\ served.time_limit > 0
    BY <1>1, <1>5
<1>7. ASSUME NEW option \in {"threads", "safe_search", "cache_expiry_time", "http_cache_expiry_time"}
      PROVE  served[option] = file[option] \/ OutOfBounds(option, file[option])
    BY <1>1, <1>4, ParseKeeps
<1>8. /\ served.threads > 0 /\ served.number_of_requests > 0 /\ served.time_limit > 0
      /\ served.safe_search \in 0 .. 4
      /\ served.cache_expiry_time >= 60 /\ served.http_cache_expiry_time >= 60
      /\ places[first] = "present"
      /\ \A option \in {"threads", "safe_search", "cache_expiry_time", "http_cache_expiry_time"} :
           LET value == file[option]
           IN  served[option] = value \/ OutOfBounds(option, value)
    BY <1>3, <1>5, <1>6, <1>7
<1> QED
    BY <1>8 DEF ServedConfigIsSound, first

-----------------------------------------------------------------------------
(* The last of some places.                                                *)

\* The last of the places up to n, or 0.
Latest(places, n) ==
    IF \E i \in places : i <= n
      THEN CHOOSE i \in places : i <= n /\ \A j \in places : j <= n => j <= i
      ELSE 0

LEMMA LatestOfNone ==
    ASSUME NEW N \in Nat, NEW places \in SUBSET (1 .. N)
    PROVE  Latest(places, 0) = 0
<1>1. ~\E i \in places : i <= 0
    OBVIOUS
<1> QED
    BY <1>1 DEF Latest

LEMMA LatestStays ==
    ASSUME NEW N \in Nat, NEW places \in SUBSET (1 .. N), NEW n \in 0 .. N - 1, n + 1 \notin places
    PROVE  Latest(places, n + 1) = Latest(places, n)
<1> DEFINE IsLatest(i, m) == i <= m /\ \A j \in places : j <= m => j <= i
<1>1. \A i \in places : i <= n + 1 <=> i <= n
    OBVIOUS
<1>2. \A i \in places : IsLatest(i, n + 1) <=> IsLatest(i, n)
    BY <1>1
<1>3. \A m : Latest(places, m) = IF \E i \in places : i <= m
                                   THEN CHOOSE i \in places : IsLatest(i, m) ELSE 0
    BY DEF Latest
<1> HIDE DEF IsLatest
<1>4. (CHOOSE i \in places : IsLatest(i, n + 1)) = CHOOSE i \in places : IsLatest(i, n)
    BY <1>2
<1> QED
    BY <1>1, <1>3, <1>4

LEMMA LatestMoves ==
    ASSUME NEW N \in Nat, NEW places \in SUBSET (1 .. N), NEW n \in 0 .. N - 1, n + 1 \in places
    PROVE  Latest(places, n + 1) = n + 1
<1> DEFINE IsLatest(i) == i <= n + 1 /\ \A j \in places : j <= n + 1 => j <= i
<1>1. IsLatest(n + 1) /\ \A i \in places : IsLatest(i) => i = n + 1
    OBVIOUS
<1>2. Latest(places, n + 1) = CHOOSE i \in places : IsLatest(i)
    BY <1>1 DEF Latest
<1> HIDE DEF IsLatest
<1> QED
    BY <1>1, <1>2

\* The last of all places is the greatest.
LEMMA LatestOfAll ==
    ASSUME NEW N \in Nat, NEW places \in SUBSET (1 .. N)
    PROVE  IF places = {} THEN Latest(places, N) = 0
           ELSE /\ Latest(places, N) \in places /\ Latest(places, N) # 0
                /\ Latest(places, N) = CHOOSE i \in places : \A j \in places : j <= i
<1>1. CASE places = {}
    BY <1>1 DEF Latest
<1>2. CASE places # {}
    <2> DEFINE Greatest(i) == \A j \in places : j <= i
    <2>1. \E i \in places : Greatest(i)
        <3> DEFINE S == {N - i : i \in places}
        <3>1. S \in SUBSET Nat /\ S # {}
            BY <1>2
        <3>2. PICK k \in S : \A l \in S : k <= l
            BY <3>1, SmallestNat
        <3>3. PICK i \in places : k = N - i
            BY <3>2
        <3>4. \A j \in places : N - i <= N - j
            BY <3>2, <3>3
        <3>5. \A j \in places : j <= i
            BY <3>4
        <3> QED
            BY <3>5
    <2>2. \A i \in places : i <= N /\ i # 0
        OBVIOUS
    <2>3. Latest(places, N) = CHOOSE i \in places : Greatest(i)
        <3>1. \A i \in places : (i <= N /\ \A j \in places : j <= N => j <= i) <=> Greatest(i)
            BY <2>2
        <3> HIDE DEF Greatest
        <3> QED
            BY <2>1, <2>2, <3>1 DEF Latest
    <2> HIDE DEF Greatest
    <2>4. Latest(places, N) \in places
        BY <2>1, <2>3
    <2> QED
        BY <1>2, <2>2, <2>3, <2>4 DEF Greatest
<1> QED
    BY <1>1, <1>2

-----------------------------------------------------------------------------
(* The command line.                                                       *)

FlagErrors == {"BadBind", "BadInt", "BadBool", "BadProxy", "BadFlag"}

\* What an option has without a flag.
Unflagged(env, option) == IF IsSet(env, option) THEN Parsed(option, env[option]) ELSE Options[option].default

EnvParses(env) == \A option \in DOMAIN env : IsSet(env, option) => Parses(option, env[option])

\* The word at i is a flag or, after a flag, a value of its option.
InTurn(args, i) ==
    IF i % 2 = 1 THEN IsFlag(args[i]) ELSE IsFlag(args[i - 1]) /\ Parses(FlagOf(args[i - 1]), args[i])

\* The first n words, read without an error: every option has the last value given.
ReadUpTo(env, args, n, reading) ==
    /\ EnvParses(env)
    /\ \A i \in 1 .. n : InTurn(args, i)
    /\ reading = Reading(reading.values, IF n % 2 = 1 THEN FlagOf(args[n]) ELSE "none", "reading")
    /\ reading.values = [option \in DOMAIN Options |->
         LET last == Latest(Given(args, option), n)
         IN  IF last = 0 THEN Unflagged(env, option) ELSE Parsed(option, args[last])]

\* The reading has ended, for a reason.
EndedEarly(env, args, end) ==
    \/ end \in {"HelpRequested", "version"}
         /\ \E i \in DOMAIN args : args[i] \in {"--help", "-h", "--version", "-V"}
    \/ end \in FlagErrors /\ ~(EnvParses(env) /\ WellFormed(args))

LEMMA OptionTypes ==
    /\ \A option \in DOMAIN Options : Options[option].type \in {"bind", "u8", "bool", "engines", "proxy"}
    /\ "threads" \in DOMAIN Options /\ "safe_search" \in DOMAIN Options /\ "engines" \in DOMAIN Options
    /\ Options["threads"].type = "u8" /\ Options["safe_search"].type = "u8"
    /\ Options["threads"].default = 4 /\ Options["safe_search"].default = 2
    /\ DOMAIN Flags \subseteq DOMAIN Options /\ "none" \notin DOMAIN Flags
BY DEF Options, Option, Flags

LEMMA FlagsDiffer == \A o, p \in DOMAIN Flags : Flags[o] = Flags[p] => o = p
BY DEF Flags

LEMMA FlagsAreRead ==
    ASSUME NEW word, IsFlag(word)
    PROVE  FlagOf(word) \in DOMAIN Flags /\ Flags[FlagOf(word)] = word
BY DEF IsFlag, FlagOf

LEMMA ErrorsOfOptions ==
    ASSUME NEW option \in DOMAIN Options, NEW word \in Texts, ~Parses(option, word)
    PROVE  ConfigError(Options[option].type) \in FlagErrors
<1>1. Options[option].type # "engines"
    BY DEF Parses, Texts
<1>2. Options[option].type \in {"bind", "u8", "bool", "engines", "proxy"}
    BY OptionTypes
<1> QED
    BY <1>1, <1>2 DEF ConfigError, FlagErrors

LEMMA GivenPlaces ==
    ASSUME NEW args \in Seq(Texts), NEW option
    PROVE  Given(args, option) \in SUBSET (1 .. Len(args))
BY DEF Given

\* One word more is read, or ends the reading for a reason.
LEMMA WordIsRead ==
    ASSUME NEW env, NEW args \in Seq(Texts), NEW n \in 0 .. Len(args) - 1,
           NEW reading, ReadUpTo(env, args, n, reading), NEW next, next = NextWord(reading, args[n + 1])
    PROVE  ReadUpTo(env, args, n + 1, next) \/ EndedEarly(env, args, next.end)
<1> DEFINE N == Len(args)
           word == args[n + 1]
           values == reading.values
<1>1. /\ N \in Nat /\ n \in Nat /\ n + 1 \in 1 .. N /\ DOMAIN args = 1 .. N /\ word \in Texts
      /\ (n + 1) - 1 = n /\ n \in 0 .. N - 1
    OBVIOUS
<1>2. ASSUME NEW i \in 1 .. n + 1
      PROVE  i \in 1 .. n \/ i = n + 1
    BY <1>1
<1>3. /\ EnvParses(env)
      /\ \A i \in 1 .. n : InTurn(args, i)
      /\ reading = Reading(values, IF n % 2 = 1 THEN FlagOf(args[n]) ELSE "none", "reading")
      /\ values = [option \in DOMAIN Options |->
           LET last == Latest(Given(args, option), n)
           IN  IF last = 0 THEN Unflagged(env, option) ELSE Parsed(option, args[last])]
    BY DEF ReadUpTo
<1>4. next = NextWord(reading, word)
    OBVIOUS
<1>5. \A option : Given(args, option) \in SUBSET (1 .. N)
    BY GivenPlaces
<1>6. ASSUME ~InTurn(args, n + 1)
      PROVE  ~WellFormed(args)
    BY <1>1, <1>6 DEF WellFormed, InTurn
<1> HIDE DEF N, word, values
<1>7. CASE n % 2 = 0
    <2>1. (n + 1) % 2 = 1
        BY <1>1, <1>7
    <2>2. reading = Reading(values, "none", "reading")
        BY <1>3, <1>7
    <2>3. reading.end = "reading" /\ reading.flag = "none" /\ reading.values = values
        BY <2>2 DEF Reading
    <2>4. CASE IsFlag(word)
        <3>1. next = Reading(values, FlagOf(word), "reading")
            BY <1>4, <2>2, <2>3, <2>4 DEF NextWord, Reading
        <3>2. next.values = values
            BY <3>1 DEF Reading
        <3>3. InTurn(args, n + 1)
            BY <2>1, <2>4 DEF InTurn, word
        <3>4. ASSUME NEW option
              PROVE  Latest(Given(args, option), n + 1) = Latest(Given(args, option), n)
            <4>1. n + 1 \notin Given(args, option)
                BY <2>1 DEF Given
            <4> QED
                BY <1>1, <1>5, <4>1, LatestStays
        <3>5. values = [option \in DOMAIN Options |->
                LET last == Latest(Given(args, option), n + 1)
                IN  IF last = 0 THEN Unflagged(env, option) ELSE Parsed(option, args[last])]
            BY <1>3, <3>4
        <3>6. \A i \in 1 .. n + 1 : InTurn(args, i)
            BY <1>2, <1>3, <3>3
        <3> QED
            BY <1>3, <2>1, <3>1, <3>2, <3>5, <3>6 DEF ReadUpTo, word
    <2>5. CASE ~IsFlag(word)
        <3>1. next.end = IF word \in {"--help", "-h"} THEN "HelpRequested"
                         ELSE IF word \in {"--version", "-V"} THEN "version" ELSE "BadFlag"
            BY <1>4, <2>2, <2>3, <2>5 DEF NextWord, Reading
        <3>2. ~WellFormed(args)
            BY <1>6, <2>1, <2>5 DEF InTurn, word
        <3>3. CASE word \in {"--help", "-h", "--version", "-V"}
            BY <1>1, <3>1, <3>3 DEF EndedEarly, word
        <3>4. CASE word \notin {"--help", "-h", "--version", "-V"}
            BY <3>1, <3>2, <3>4 DEF EndedEarly, FlagErrors
        <3> QED
            BY <3>3, <3>4
    <2> QED
        BY <2>4, <2>5
<1>8. CASE n % 2 = 1
    <2> DEFINE flag == FlagOf(args[n])
    <2>1. (n + 1) % 2 = 0 /\ n \in 1 .. n
        BY <1>1, <1>8
    <2>2. IsFlag(args[n])
        BY <1>3, <1>8, <2>1 DEF InTurn
    <2>3. flag \in DOMAIN Flags /\ Flags[flag] = args[n] /\ flag \in DOMAIN Options /\ flag # "none"
        BY <2>2, FlagsAreRead, OptionTypes
    <2>4. reading = Reading(values, flag, "reading")
        BY <1>3, <1>8
    <2> HIDE DEF flag
    <2>5. reading.end = "reading" /\ reading.flag = flag /\ reading.values = values
        BY <2>4 DEF Reading
    <2>6. next = Assign(reading, flag, word)
        BY <1>4, <2>3, <2>5 DEF NextWord
    <2>7. CASE Parses(flag, word)
        <3>1. next = Reading([values EXCEPT ![flag] = Parsed(flag, word)], "none", "reading")
            BY <2>5, <2>6, <2>7 DEF Assign
        <3>2. next.values = [values EXCEPT ![flag] = Parsed(flag, word)]
            BY <3>1 DEF Reading
        <3>3. InTurn(args, n + 1)
            BY <1>1, <2>1, <2>2, <2>7 DEF InTurn, word, flag
        <3>4. Latest(Given(args, flag), n + 1) = n + 1
            <4>1. n + 1 \in Given(args, flag)
                BY <1>1, <2>1, <2>3 DEF Given
            <4> QED
                BY <1>1, <1>5, <4>1, LatestMoves
        <3>5. ASSUME NEW option, option # flag
              PROVE  Latest(Given(args, option), n + 1) = Latest(Given(args, option), n)
            <4>1. n + 1 \notin Given(args, option)
                <5> SUFFICES ASSUME option \in DOMAIN Flags, args[n] = Flags[option]
                             PROVE  FALSE
                    BY <1>1 DEF Given
                <5> QED
                    BY <2>3, <3>5, FlagsDiffer
            <4> QED
                BY <1>1, <1>5, <4>1, LatestStays
        <3>6. ASSUME NEW option \in DOMAIN Options
              PROVE  next.values[option] =
                       LET last == Latest(Given(args, option), n + 1)
                       IN  IF last = 0 THEN Unflagged(env, option) ELSE Parsed(option, args[last])
            <4>1. CASE option = flag
                <5>1. next.values[option] = Parsed(flag, word)
                    BY <1>3, <3>2, <4>1
                <5>2. n + 1 # 0
                    BY <1>1
                <5> QED
                    BY <3>4, <4>1, <5>1, <5>2 DEF word
            <4>2. CASE option # flag
                <5>1. next.values[option] = values[option]
                    BY <1>3, <3>2, <4>2
                <5> QED
                    BY <1>3, <3>5, <4>2, <5>1
            <4> QED
                BY <4>1, <4>2
        <3>7. next.values = [option \in DOMAIN Options |-> next.values[option]]
            BY <1>3, <3>2
        <3>8. next.values = [option \in DOMAIN Options |->
                LET last == Latest(Given(args, option), n + 1)
                IN  IF last = 0 THEN Unflagged(env, option) ELSE Parsed(option, args[last])]
            BY <3>6, <3>7
        <3>9. \A i \in 1 .. n + 1 : InTurn(args, i)
            BY <1>2, <1>3, <3>3
        <3>10. next = Reading(next.values, "none", "reading") /\ (n + 1) % 2 # 1
            BY <2>1, <3>1, <3>2
        <3> QED
            BY <1>3, <3>8, <3>9, <3>10 DEF ReadUpTo
    <2>8. CASE ~Parses(flag, word)
        <3>1. next.end = ConfigError(Options[flag].type)
            BY <2>4, <2>6, <2>8 DEF Assign, Reading
        <3>2. next.end \in FlagErrors
            BY <1>1, <2>3, <2>8, <3>1, ErrorsOfOptions
        <3>3. ~InTurn(args, n + 1)
            BY <1>1, <2>1, <2>8 DEF InTurn, word, flag
        <3> QED
            BY <1>6, <3>2, <3>3 DEF EndedEarly
    <2> QED
        BY <2>7, <2>8
<1> QED
    BY <1>1, <1>7, <1>8

\* The recursion of AllWords has a solution for every command line.
LEMMA WordsAreRead ==
    ASSUME NEW env, NEW args, NEW N \in Nat, Len(args) = N
    PROVE  \E reading :
             /\ AllWords(env, args) = reading[N]
             /\ reading[0] = from_env(env)
             /\ \A n \in 1 .. N : reading[n] = NextWord(reading[n - 1], args[n])
<1> DEFINE Turn(g, n) == IF n = 0 THEN from_env(env) ELSE NextWord(g[n - 1], args[n])
           Solved == {k \in 0 .. N : \E g : g = [n \in 0 .. k |-> Turn(g, n)]}
<1>1. 0 \in Solved
    <2> DEFINE g == [n \in 0 .. 0 |-> from_env(env)]
    <2>1. g = [n \in 0 .. 0 |-> Turn(g, n)]
        OBVIOUS
    <2> HIDE DEF g, Turn
    <2> QED
        BY <2>1
<1>2. ASSUME NEW k \in 0 .. N - 1, k \in Solved
      PROVE  k + 1 \in Solved
    <2>1. PICK g : g = [n \in 0 .. k |-> Turn(g, n)]
        BY <1>2
    <2> DEFINE h == [n \in 0 .. k + 1 |-> IF n = k + 1 THEN Turn(g, n) ELSE g[n]]
    <2>2. \A n \in 0 .. k : h[n] = g[n]
        <3> HIDE DEF Turn
        <3> QED
            OBVIOUS
    <2>3. ASSUME NEW n \in 0 .. k + 1
          PROVE  h[n] = Turn(h, n)
        <3>1. n # 0 => n - 1 \in 0 .. k
            OBVIOUS
        <3>2. Turn(g, n) = Turn(h, n)
            <4> HIDE DEF h
            <4> QED
                BY <2>2, <3>1
        <3>3. \A j \in 0 .. k : g[j] = Turn(g, j)
            <4> HIDE DEF Turn
            <4> QED
                BY <2>1
        <3>4. n = k + 1 \/ (n \in 0 .. k /\ n # k + 1)
            OBVIOUS
        <3>5. h[n] = Turn(g, n)
            <4> HIDE DEF Turn
            <4> QED
                BY <3>3, <3>4
        <3> QED
            BY <3>2, <3>5
    <2>4. h = [n \in 0 .. k + 1 |-> h[n]]
        OBVIOUS
    <2>5. h = [n \in 0 .. k + 1 |-> Turn(h, n)]
        <3> HIDE DEF h, Turn
        <3> QED
            BY <2>3, <2>4
    <2>6. k + 1 \in 0 .. N
        OBVIOUS
    <2> HIDE DEF h, Turn
    <2> QED
        BY <2>5, <2>6
<1>3. N \in Solved
    <2>1. \A k \in 0 .. N - 1 : k \in Solved => k + 1 \in Solved
        BY <1>2
    <2>2. N \in 0 .. N
        OBVIOUS
    <2> HIDE DEF Solved
    <2>3. \A k \in 0 .. N : k \in Solved
        BY <1>1, <2>1, UpToBound
    <2> QED
        BY <2>2, <2>3
<1> DEFINE reading == CHOOSE g : g = [n \in 0 .. N |-> Turn(g, n)]
<1>4. reading = [n \in 0 .. N |-> Turn(reading, n)]
    <2>1. \E g : g = [n \in 0 .. N |-> Turn(g, n)]
        <3> HIDE DEF Turn
        <3> QED
            BY <1>3
    <2> HIDE DEF Turn
    <2> QED
        BY <2>1
<1>5. AllWords(env, args) = reading[N]
    BY DEF AllWords
<1> HIDE DEF reading
<1>6. \A n \in 0 .. N : reading[n] = Turn(reading, n)
    <2> HIDE DEF Turn
    <2> QED
        BY <1>4
<1>7. reading[0] = from_env(env)
    <2>1. 0 \in 0 .. N
        OBVIOUS
    <2> QED
        BY <1>6, <2>1
<1>8. \A n \in 1 .. N : reading[n] = NextWord(reading[n - 1], args[n])
    <2>1. \A n \in 1 .. N : n \in 0 .. N /\ n # 0
        OBVIOUS
    <2> QED
        BY <1>6, <2>1
<1> HIDE DEF Turn
<1> QED
    BY <1>5, <1>7, <1>8

\* An environment as EnvsAssumption has it.
IsEnv(env) ==
    /\ DOMAIN env \subseteq DOMAIN Options
    /\ \A option \in DOMAIN env : IsSet(env, option) => env[option] \in Texts

LEMMA EnvironmentIsRead ==
    ASSUME NEW env, IsEnv(env), NEW args \in Seq(Texts)
    PROVE  ReadUpTo(env, args, 0, from_env(env)) \/ EndedEarly(env, args, from_env(env).end)
<1> DEFINE bad == {o \in DOMAIN env : IsSet(env, o) /\ ~Parses(o, env[o])}
<1>1. CASE bad # {}
    <2> DEFINE first == CHOOSE o \in bad : TRUE
    <2>1. first \in bad
        BY <1>1
    <2>2. from_env(env) = Reading(defaults, "none", ConfigError(Options[first].type))
        BY <1>1 DEF from_env
    <2> HIDE DEF first
    <2>3. from_env(env).end = ConfigError(Options[first].type)
        BY <2>2 DEF Reading
    <2>4. first \in DOMAIN Options /\ env[first] \in Texts /\ ~Parses(first, env[first])
        BY <2>1 DEF IsEnv
    <2>5. from_env(env).end \in FlagErrors
        BY <2>3, <2>4, ErrorsOfOptions
    <2>6. ~EnvParses(env)
        BY <2>1 DEF EnvParses
    <2> QED
        BY <2>5, <2>6 DEF EndedEarly
<1>2. CASE bad = {}
    <2> DEFINE values == [o \in DOMAIN Options |-> IF IsSet(env, o) THEN Parsed(o, env[o]) ELSE defaults[o]]
    <2>1. from_env(env) = Reading(values, "none", "reading")
        BY <1>2 DEF from_env
    <2>2. \A o \in DOMAIN Options : values[o] = Unflagged(env, o)
        BY DEF Unflagged, defaults
    <2>3. EnvParses(env)
        BY <1>2 DEF EnvParses
    <2>4. ASSUME NEW o
          PROVE  Latest(Given(args, o), 0) = 0
        <3>1. Len(args) \in Nat /\ Given(args, o) \in SUBSET (1 .. Len(args))
            BY GivenPlaces
        <3> QED
            BY <3>1, LatestOfNone
    <2>5. values = [o \in DOMAIN Options |-> values[o]]
        OBVIOUS
    <2> HIDE DEF values
    <2>6. values = [option \in DOMAIN Options |->
            LET last == Latest(Given(args, option), 0)
            IN  IF last = 0 THEN Unflagged(env, option) ELSE Parsed(option, args[last])]
        BY <2>2, <2>4, <2>5
    <2>7. from_env(env).values = values
        BY <2>1 DEF Reading
    <2>8. 0 % 2 # 1 /\ 1 .. 0 = {}
        OBVIOUS
    <2> QED
        BY <2>1, <2>3, <2>6, <2>7, <2>8 DEF ReadUpTo
<1> QED
    BY <1>1, <1>2

LEMMA EndsAreKept ==
    ASSUME NEW env, NEW args, NEW reading, EndedEarly(env, args, reading.end), NEW word
    PROVE  NextWord(reading, word) = reading
<1>1. reading.end # "reading"
    BY DEF EndedEarly, FlagErrors
<1> QED
    BY <1>1 DEF NextWord

\* The whole command line is read, or the reading has ended for a reason.
LEMMA LineIsRead ==
    ASSUME NEW env, IsEnv(env), NEW args \in Seq(Texts)
    PROVE  LET reading == AllWords(env, args)
           IN  ReadUpTo(env, args, Len(args), reading) \/ EndedEarly(env, args, reading.end)
<1> DEFINE N == Len(args)
<1>0. N \in Nat
    OBVIOUS
<1>1. PICK reading :
         /\ AllWords(env, args) = reading[N]
         /\ reading[0] = from_env(env)
         /\ \A n \in 1 .. N : reading[n] = NextWord(reading[n - 1], args[n])
    BY <1>0, WordsAreRead
<1> DEFINE Right(n) == ReadUpTo(env, args, n, reading[n]) \/ EndedEarly(env, args, reading[n].end)
           Done == {n \in 0 .. N : Right(n)}
<1>2. 0 \in Done
    <2>1. 0 \in 0 .. N
        BY <1>0
    <2> QED
        BY <1>1, <2>1, EnvironmentIsRead
<1>3. ASSUME NEW n \in 0 .. N - 1, n \in Done
      PROVE  n + 1 \in Done
    <2>1. n + 1 \in 1 .. N /\ n + 1 \in 0 .. N /\ (n + 1) - 1 = n
        BY <1>0
    <2>2. reading[n + 1] = NextWord(reading[n], args[n + 1])
        BY <1>1, <2>1
    <2>3. CASE ReadUpTo(env, args, n, reading[n])
        <3>1. n \in 0 .. Len(args) - 1
            OBVIOUS
        <3> HIDE DEF N
        <3>2. Right(n + 1)
            BY <2>2, <2>3, <3>1, WordIsRead
        <3> QED
            BY <2>1, <3>2
    <2>4. CASE EndedEarly(env, args, reading[n].end)
        <3>1. reading[n + 1] = reading[n]
            BY <2>2, <2>4, EndsAreKept
        <3> QED
            BY <2>1, <2>4, <3>1
    <2> QED
        BY <1>3, <2>3, <2>4
<1>4. Right(N)
    <2>1. \A n \in 0 .. N - 1 : n \in Done => n + 1 \in Done
        BY <1>3
    <2>2. N \in 0 .. N
        BY <1>0
    <2>3. \A n \in 0 .. N : n \in Done
        <3> HIDE DEF Done, N
        <3> QED
            BY <1>0, <1>2, <2>1, UpToBound
    <2> QED
        BY <2>2, <2>3
<1> QED
    BY <1>1, <1>4

LEMMA PreferredIsLatest ==
    ASSUME NEW env, NEW args \in Seq(Texts), NEW option
    PROVE  LET last == Latest(Given(args, option), Len(args))
           IN  /\ Preferred(env, args, option) = IF last = 0 THEN Unflagged(env, option)
                                                 ELSE Parsed(option, args[last])
               /\ last = 0 \/ last \in Given(args, option)
<1> DEFINE N == Len(args)
           places == Given(args, option)
<1>1. N \in Nat /\ places \in SUBSET (1 .. N)
    BY GivenPlaces
<1> DEFINE greatest == CHOOSE i \in places : \A j \in places : j <= i
<1>2. IF places = {} THEN Latest(places, N) = 0
      ELSE Latest(places, N) \in places /\ Latest(places, N) # 0 /\ Latest(places, N) = greatest
    <2> HIDE DEF N, places
    <2> QED
        BY <1>1, LatestOfAll
<1>3. Preferred(env, args, option) = IF places # {} THEN Parsed(option, args[greatest])
                                     ELSE Unflagged(env, option)
    BY DEF Preferred, Unflagged
<1> HIDE DEF N, places, greatest
<1> QED
    BY <1>2, <1>3 DEF N, places

\* Numbers that could be parsed are numbers.
LEMMA NumbersInForce ==
    ASSUME NEW env, EnvParses(env), NEW args \in Seq(Texts), WellFormed(args),
           NEW option \in {"threads", "safe_search"}
    PROVE  Preferred(env, args, option) \in Nat
<1> DEFINE last == Latest(Given(args, option), Len(args))
<1>1. /\ Preferred(env, args, option) = IF last = 0 THEN Unflagged(env, option) ELSE Parsed(option, args[last])
      /\ last = 0 \/ last \in Given(args, option)
    BY PreferredIsLatest
<1>2. Options[option].type = "u8" /\ Options[option].default \in Nat
    BY OptionTypes
<1>3. ASSUME NEW word, Parses(option, word)
      PROVE  Parsed(option, word) \in Nat
    <2>1. word \in DOMAIN Reads.u8 /\ Parsed(option, word) = Reads.u8[word]
        BY <1>2, <1>3 DEF Parses, Parsed
    <2>2. Reads.u8[word] \in 0 .. 255
        BY <2>1, ReadsAssumption
    <2>3. \A value \in 0 .. 255 : value \in Nat
        OBVIOUS
    <2> QED
        BY <2>1, <2>2, <2>3
<1> HIDE DEF last
<1>4. CASE last = 0
    <2>1. IsSet(env, option) => Parses(option, env[option])
        BY DEF EnvParses, IsSet
    <2> QED
        BY <1>1, <1>2, <1>3, <1>4, <2>1 DEF Unflagged
<1>5. CASE last \in Given(args, option) /\ last # 0
    <2>1. /\ last \in DOMAIN args /\ last % 2 = 0 /\ option \in DOMAIN Flags
          /\ args[last - 1] = Flags[option]
        BY <1>5 DEF Given
    <2>2. IsFlag(args[last - 1]) /\ Parses(FlagOf(args[last - 1]), args[last])
        BY <2>1 DEF WellFormed
    <2>3. FlagOf(args[last - 1]) = option
        BY <2>1, <2>2, FlagsAreRead, FlagsDiffer
    <2> QED
        BY <1>1, <1>3, <1>5, <2>2, <2>3
<1> QED
    BY <1>1, <1>4, <1>5

SoundInForce(env, args) ==
    /\ Preferred(env, args, "safe_search") <= 2
    /\ Preferred(env, args, "threads") > 0
    /\ Preferred(env, args, "engines") # {}

\* What from_env_and_args returns.
LEMMA ConfigIsInEffect ==
    ASSUME NEW env, IsEnv(env), NEW args \in Seq(Texts), NEW result, result = from_env_and_args(env, args)
    PROVE  /\ result.end = "ok" =>
                /\ EnvParses(env) /\ WellFormed(args) /\ SoundInForce(env, args)
                /\ \A option \in DOMAIN Options : result.values[option] = Preferred(env, args, option)
           /\ result.end \in {"HelpRequested", "version"} =>
                \E i \in DOMAIN args : args[i] \in {"--help", "-h", "--version", "-V"}
           /\ result.end \notin {"ok", "HelpRequested", "version"} =>
                ~(EnvParses(env) /\ WellFormed(args) /\ SoundInForce(env, args))
<1> DEFINE reading == AllWords(env, args)
           N == Len(args)
<1>1. ReadUpTo(env, args, N, reading) \/ EndedEarly(env, args, reading.end)
    BY LineIsRead
<1>2. result = Validated(reading)
    BY DEF from_env_and_args
<1>3. N \in Nat /\ DOMAIN args = 1 .. N
    OBVIOUS
<1> HIDE DEF reading
<1>4. CASE EndedEarly(env, args, reading.end)
    <2>1. reading.end # "reading"
        BY <1>4 DEF EndedEarly, FlagErrors
    <2>2. result = reading
        BY <1>2, <2>1 DEF Validated
    <2> QED
        BY <1>4, <2>2 DEF EndedEarly, FlagErrors
<1>5. CASE ReadUpTo(env, args, N, reading)
    <2> DEFINE values == reading.values
               flag == IF N % 2 = 1 THEN FlagOf(args[N]) ELSE "none"
    <2>1. /\ EnvParses(env)
          /\ \A i \in 1 .. N : InTurn(args, i)
          /\ reading = Reading(values, flag, "reading")
          /\ values = [option \in DOMAIN Options |->
               LET last == Latest(Given(args, option), N)
               IN  IF last = 0 THEN Unflagged(env, option) ELSE Parsed(option, args[last])]
        BY <1>5 DEF ReadUpTo
    <2>2. \A option \in DOMAIN Options : values[option] = Preferred(env, args, option)
        BY <2>1, PreferredIsLatest
    <2> HIDE DEF values, flag, N
    <2>3. reading.end = "reading" /\ reading.flag = flag /\ reading.values = values
        BY <2>1 DEF Reading
    <2>4. CASE N % 2 = 1
        <3>1. flag # "none"
            <4>1. IsFlag(args[N])
                <5>1. N \in 1 .. N
                    BY <1>3, <2>4
                <5> QED
                    BY <2>1, <2>4, <5>1 DEF InTurn
            <4> QED
                BY <2>4, <4>1, FlagsAreRead, OptionTypes DEF flag
        <3>2. result.end = "BadFlag"
            BY <1>2, <2>1, <2>3, <3>1 DEF Validated, Reading
        <3>3. ~WellFormed(args)
            BY <2>4 DEF WellFormed, N
        <3> QED
            BY <3>2, <3>3
    <2>5. CASE N % 2 = 0
        <3>1. WellFormed(args)
            BY <1>3, <2>1, <2>5 DEF WellFormed, InTurn, N
        <3>2. reading = Reading(values, "none", "reading")
            BY <2>1, <2>5 DEF flag
        <3>3. /\ values.safe_search = Preferred(env, args, "safe_search")
              /\ values.threads = Preferred(env, args, "threads")
              /\ values.engines = Preferred(env, args, "engines")
            BY <2>2, OptionTypes
        <3>4. values.safe_search \in Nat /\ values.threads \in Nat
            BY <2>1, <3>1, <3>3, NumbersInForce
        <3>5. reading.end = "reading" /\ reading.flag = "none" /\ reading.values = values
            BY <3>2 DEF Reading
        <3>6. CASE SoundInForce(env, args)
            <4>1. ~(values.safe_search > 2) /\ values.threads # 0 /\ values.engines # {}
                BY <3>3, <3>4, <3>6 DEF SoundInForce
            <4>2. result.end = "ok" /\ result.values = values
                BY <1>2, <3>2, <3>5, <4>1 DEF Validated, Reading
            <4> QED
                BY <2>1, <2>2, <3>1, <3>6, <4>2
        <3>7. CASE ~SoundInForce(env, args)
            <4>1. values.safe_search > 2 \/ values.threads = 0 \/ values.engines = {}
                BY <3>3, <3>4, <3>7 DEF SoundInForce
            <4>2. result.end \in {"SafesearchUnsupported", "InvalidValue"}
                BY <1>2, <3>2, <3>5, <4>1 DEF Validated, Reading
            <4> QED
                BY <3>7, <4>2
        <3> QED
            BY <3>6, <3>7
    <2>6. N % 2 = 0 \/ N % 2 = 1
        BY <1>3
    <2> QED
        BY <2>4, <2>5, <2>6
<1> QED
    BY <1>1, <1>4, <1>5

-----------------------------------------------------------------------------
(* The parameters of a url.                                                *)

\* The recursion of ParamsOf has a solution for every url.
LEMMA ParamsAreRead ==
    ASSUME NEW url, NEW N \in Nat, Len(url.params) = N
    PROVE  \E params :
             /\ ParamsOf(url) = params[N]
             /\ params[0] = Params("", 0, config.safe_search, FALSE)
             /\ \A n \in 1 .. N : params[n] = NextParam(params[n - 1], url.params[n])
<1> DEFINE Turn(g, n) == IF n = 0 THEN Params("", 0, config.safe_search, FALSE) ELSE NextParam(g[n - 1], url.params[n])
           Solved == {k \in 0 .. N : \E g : g = [n \in 0 .. k |-> Turn(g, n)]}
<1>1. 0 \in Solved
    <2> DEFINE g == [n \in 0 .. 0 |-> Params("", 0, config.safe_search, FALSE)]
    <2>1. g = [n \in 0 .. 0 |-> Turn(g, n)]
        OBVIOUS
    <2> HIDE DEF g, Turn
    <2> QED
        BY <2>1
<1>2. ASSUME NEW k \in 0 .. N - 1, k \in Solved
      PROVE  k + 1 \in Solved
    <2>1. PICK g : g = [n \in 0 .. k |-> Turn(g, n)]
        BY <1>2
    <2> DEFINE h == [n \in 0 .. k + 1 |-> IF n = k + 1 THEN Turn(g, n) ELSE g[n]]
    <2>2. \A n \in 0 .. k : h[n] = g[n]
        <3> HIDE DEF Turn
        <3> QED
            OBVIOUS
    <2>3. ASSUME NEW n \in 0 .. k + 1
          PROVE  h[n] = Turn(h, n)
        <3>1. n # 0 => n - 1 \in 0 .. k
            OBVIOUS
        <3>2. Turn(g, n) = Turn(h, n)
            <4> HIDE DEF h
            <4> QED
                BY <2>2, <3>1
        <3>3. \A j \in 0 .. k : g[j] = Turn(g, j)
            <4> HIDE DEF Turn
            <4> QED
                BY <2>1
        <3>4. n = k + 1 \/ (n \in 0 .. k /\ n # k + 1)
            OBVIOUS
        <3>5. h[n] = Turn(g, n)
            <4> HIDE DEF Turn
            <4> QED
                BY <3>3, <3>4
        <3> QED
            BY <3>2, <3>5
    <2>4. h = [n \in 0 .. k + 1 |-> h[n]]
        OBVIOUS
    <2>5. h = [n \in 0 .. k + 1 |-> Turn(h, n)]
        <3> HIDE DEF h, Turn
        <3> QED
            BY <2>3, <2>4
    <2>6. k + 1 \in 0 .. N
        OBVIOUS
    <2> HIDE DEF h, Turn
    <2> QED
        BY <2>5, <2>6
<1>3. N \in Solved
    <2>1. \A k \in 0 .. N - 1 : k \in Solved => k + 1 \in Solved
        BY <1>2
    <2>2. N \in 0 .. N
        OBVIOUS
    <2> HIDE DEF Solved
    <2>3. \A k \in 0 .. N : k \in Solved
        BY <1>1, <2>1, UpToBound
    <2> QED
        BY <2>2, <2>3
<1> DEFINE params == CHOOSE g : g = [n \in 0 .. N |-> Turn(g, n)]
<1>4. params = [n \in 0 .. N |-> Turn(params, n)]
    <2>1. \E g : g = [n \in 0 .. N |-> Turn(g, n)]
        <3> HIDE DEF Turn
        <3> QED
            BY <1>3
    <2> HIDE DEF Turn
    <2> QED
        BY <2>1
<1>5. ParamsOf(url) = params[N]
    BY DEF ParamsOf
<1> HIDE DEF params
<1>6. \A n \in 0 .. N : params[n] = Turn(params, n)
    <2> HIDE DEF Turn
    <2> QED
        BY <1>4
<1>7. params[0] = Params("", 0, config.safe_search, FALSE)
    <2>1. 0 \in 0 .. N
        OBVIOUS
    <2> QED
        BY <1>6, <2>1
<1>8. \A n \in 1 .. N : params[n] = NextParam(params[n - 1], url.params[n])
    <2>1. \A n \in 1 .. N : n \in 0 .. N /\ n # 0
        OBVIOUS
    <2> QED
        BY <1>6, <2>1
<1> HIDE DEF Turn
<1> QED
    BY <1>5, <1>7, <1>8

IsUrl(url) == url.params \in Seq([key: STRING, value: STRING])

LastUpTo(url, key, n) == Latest(Values(url, key), n)
Value(url, key, n) == url.params[LastUpTo(url, key, n)].value

\* A page or level that is a number.
NumberAt(url, i) ==
    /\ url.params[i].key = "page" => url.params[i].value \in DOMAIN Reads.u32
    /\ url.params[i].key = "safesearch" => url.params[i].value \in DOMAIN Reads.u8

\* The first n parameters leave the last value of each key.
ParamsUpTo(url, n, params) ==
    /\ params = Params(params.query, params.page, params.level, FALSE)
    /\ \A i \in 1 .. n : NumberAt(url, i)
    /\ params.query = IF LastUpTo(url, "q", n) = 0 THEN "" ELSE Value(url, "q", n)
    /\ params.page = IF LastUpTo(url, "page", n) = 0 THEN 0 ELSE Reads.u32[Value(url, "page", n)]
    /\ params.level = IF LastUpTo(url, "safesearch", n) = 0 THEN config.safe_search
                      ELSE Reads.u8[Value(url, "safesearch", n)]

LEMMA ValuePlaces ==
    ASSUME NEW url, IsUrl(url), NEW key
    PROVE  Values(url, key) \in SUBSET (1 .. Len(url.params)) /\ Len(url.params) \in Nat
BY DEF Values, IsUrl

\* A parameter moves the last place of its own key only.
LEMMA LastMoves ==
    ASSUME NEW url, IsUrl(url), NEW n \in 0 .. Len(url.params) - 1, NEW key
    PROVE  LastUpTo(url, key, n + 1) = IF url.params[n + 1].key = key THEN n + 1
                                       ELSE LastUpTo(url, key, n)
<1> DEFINE N == Len(url.params)
           places == Values(url, key)
<1>1. places \in SUBSET (1 .. N) /\ N \in Nat /\ n \in 0 .. N - 1
    BY ValuePlaces
<1>2. DOMAIN url.params = 1 .. N /\ n + 1 \in 1 .. N
    BY <1>1 DEF IsUrl
<1>3. n + 1 \in places <=> url.params[n + 1].key = key
    BY <1>2 DEF Values
<1> HIDE DEF N, places
<1>4. Latest(places, n + 1) = IF n + 1 \in places THEN n + 1 ELSE Latest(places, n)
    <2>1. CASE n + 1 \in places
        BY <1>1, <2>1, LatestMoves
    <2>2. CASE n + 1 \notin places
        BY <1>1, <2>2, LatestStays
    <2> QED
        BY <2>1, <2>2
<1> QED
    BY <1>3, <1>4 DEF LastUpTo, places

\* One parameter more is read, or makes a bad request.
LEMMA ParamIsRead ==
    ASSUME NEW url, IsUrl(url), NEW n \in 0 .. Len(url.params) - 1,
           NEW params, ParamsUpTo(url, n, params), NEW next, next = NextParam(params, url.params[n + 1])
    PROVE  ParamsUpTo(url, n + 1, next) \/ (next.bad = TRUE /\ ~Numbers(url))
<1> DEFINE p == url.params[n + 1]
           N == Len(url.params)
<1>1. N \in Nat /\ n + 1 \in DOMAIN url.params /\ n \in Nat /\ n + 1 # 0
    BY DEF IsUrl
<1>2. \A i \in 1 .. n + 1 : i \in 1 .. n \/ i = n + 1
    BY <1>1
<1>3. params = Params(params.query, params.page, params.level, FALSE) /\ params.bad = FALSE
    <2>1. params = Params(params.query, params.page, params.level, FALSE)
        BY DEF ParamsUpTo
    <2>2. PICK query, page, level : params = Params(query, page, level, FALSE)
        BY <2>1
    <2> QED
        BY <2>1, <2>2 DEF Params
<1>4. \A i \in 1 .. n : NumberAt(url, i)
    BY DEF ParamsUpTo
<1>5. /\ params.query = IF LastUpTo(url, "q", n) = 0 THEN "" ELSE Value(url, "q", n)
      /\ params.page = IF LastUpTo(url, "page", n) = 0 THEN 0 ELSE Reads.u32[Value(url, "page", n)]
      /\ params.level = IF LastUpTo(url, "safesearch", n) = 0 THEN config.safe_search
                        ELSE Reads.u8[Value(url, "safesearch", n)]
    BY DEF ParamsUpTo
<1>6. next = NextParam(params, p)
    OBVIOUS
<1>7. \A key : LastUpTo(url, key, n + 1) = IF p.key = key THEN n + 1 ELSE LastUpTo(url, key, n)
    BY LastMoves
<1>8. ASSUME NEW key, p.key # key
      PROVE  LastUpTo(url, key, n + 1) = LastUpTo(url, key, n) /\ Value(url, key, n + 1) = Value(url, key, n)
    BY <1>7, <1>8 DEF Value
<1>9. LastUpTo(url, p.key, n + 1) = n + 1 /\ Value(url, p.key, n + 1) = p.value
    BY <1>7 DEF Value
<1>10. ASSUME NumberAt(url, n + 1)
       PROVE  \A i \in 1 .. n + 1 : NumberAt(url, i)
    BY <1>2, <1>4, <1>10
<1>11. ASSUME ~NumberAt(url, n + 1)
       PROVE  ~Numbers(url)
    BY <1>1, <1>11 DEF NumberAt, Numbers, Values
<1> HIDE DEF p, N
<1>12. CASE p.key = "q"
    <2>1. next = Params(p.value, params.page, params.level, FALSE)
        BY <1>3, <1>6, <1>12 DEF NextParam, Params
    <2>2. next.query = p.value /\ next.page = params.page /\ next.level = params.level
        BY <2>1 DEF Params
    <2>3. NumberAt(url, n + 1)
        BY <1>12 DEF NumberAt, p
    <2>4. next.query = IF LastUpTo(url, "q", n + 1) = 0 THEN "" ELSE Value(url, "q", n + 1)
        BY <1>1, <1>9, <1>12, <2>2
    <2>5. next.page = IF LastUpTo(url, "page", n + 1) = 0 THEN 0 ELSE Reads.u32[Value(url, "page", n + 1)]
        BY <1>5, <1>8, <1>12, <2>2
    <2>6. next.level = IF LastUpTo(url, "safesearch", n + 1) = 0 THEN config.safe_search
                       ELSE Reads.u8[Value(url, "safesearch", n + 1)]
        BY <1>5, <1>8, <1>12, <2>2
    <2> QED
        BY <1>10, <2>1, <2>2, <2>3, <2>4, <2>5, <2>6 DEF ParamsUpTo
<1>13. CASE p.key = "page"
    <2>1. CASE p.value \in DOMAIN Reads.u32
        <3>1. next = Params(params.query, Reads.u32[p.value], params.level, FALSE)
            BY <1>3, <1>6, <1>13, <2>1 DEF NextParam, Params
        <3>2. next.query = params.query /\ next.page = Reads.u32[p.value] /\ next.level = params.level
            BY <3>1 DEF Params
        <3>3. NumberAt(url, n + 1)
            BY <1>13, <2>1 DEF NumberAt, p
        <3>4. next.query = IF LastUpTo(url, "q", n + 1) = 0 THEN "" ELSE Value(url, "q", n + 1)
            BY <1>5, <1>8, <1>13, <3>2
        <3>5. next.page = IF LastUpTo(url, "page", n + 1) = 0 THEN 0 ELSE Reads.u32[Value(url, "page", n + 1)]
            BY <1>1, <1>9, <1>13, <3>2
        <3>6. next.level = IF LastUpTo(url, "safesearch", n + 1) = 0 THEN config.safe_search
                           ELSE Reads.u8[Value(url, "safesearch", n + 1)]
            BY <1>5, <1>8, <1>13, <3>2
        <3> QED
            BY <1>10, <3>1, <3>2, <3>3, <3>4, <3>5, <3>6 DEF ParamsUpTo
    <2>2. CASE p.value \notin DOMAIN Reads.u32
        <3>1. next = Params(params.query, params.page, params.level, TRUE)
            BY <1>3, <1>6, <1>13, <2>2 DEF NextParam, Params
        <3>2. ~NumberAt(url, n + 1)
            BY <1>13, <2>2 DEF NumberAt, p
        <3> QED
            BY <1>11, <3>1, <3>2 DEF Params
    <2> QED
        BY <2>1, <2>2
<1>14. CASE p.key = "safesearch"
    <2>1. CASE p.value \in DOMAIN Reads.u8
        <3>1. next = Params(params.query, params.page, Reads.u8[p.value], FALSE)
            BY <1>3, <1>6, <1>14, <2>1 DEF NextParam, Params
        <3>2. next.query = params.query /\ next.page = params.page /\ next.level = Reads.u8[p.value]
            BY <3>1 DEF Params
        <3>3. NumberAt(url, n + 1)
            BY <1>14, <2>1 DEF NumberAt, p
        <3>4. next.query = IF LastUpTo(url, "q", n + 1) = 0 THEN "" ELSE Value(url, "q", n + 1)
            BY <1>5, <1>8, <1>14, <3>2
        <3>5. next.page = IF LastUpTo(url, "page", n + 1) = 0 THEN 0 ELSE Reads.u32[Value(url, "page", n + 1)]
            BY <1>5, <1>8, <1>14, <3>2
        <3>6. next.level = IF LastUpTo(url, "safesearch", n + 1) = 0 THEN config.safe_search
                           ELSE Reads.u8[Value(url, "safesearch", n + 1)]
            BY <1>1, <1>9, <1>14, <3>2
        <3> QED
            BY <1>10, <3>1, <3>2, <3>3, <3>4, <3>5, <3>6 DEF ParamsUpTo
    <2>2. CASE p.value \notin DOMAIN Reads.u8
        <3>1. next = Params(params.query, params.page, params.level, TRUE)
            BY <1>3, <1>6, <1>14, <2>2 DEF NextParam, Params
        <3>2. ~NumberAt(url, n + 1)
            BY <1>14, <2>2 DEF NumberAt, p
        <3> QED
            BY <1>11, <3>1, <3>2 DEF Params
    <2> QED
        BY <2>1, <2>2
<1>15. CASE p.key \notin {"q", "page", "safesearch"}
    <2>1. next = params
        BY <1>3, <1>6, <1>15 DEF NextParam
    <2>2. NumberAt(url, n + 1)
        BY <1>15 DEF NumberAt, p
    <2>3. /\ params.query = IF LastUpTo(url, "q", n + 1) = 0 THEN "" ELSE Value(url, "q", n + 1)
          /\ params.page = IF LastUpTo(url, "page", n + 1) = 0 THEN 0 ELSE Reads.u32[Value(url, "page", n + 1)]
          /\ params.level = IF LastUpTo(url, "safesearch", n + 1) = 0 THEN config.safe_search
                            ELSE Reads.u8[Value(url, "safesearch", n + 1)]
        BY <1>5, <1>8, <1>15
    <2> QED
        BY <1>3, <1>10, <2>1, <2>2, <2>3 DEF ParamsUpTo
<1> QED
    BY <1>12, <1>13, <1>14, <1>15

\* All parameters are read, or the request is bad.
LEMMA UrlIsRead ==
    ASSUME NEW url, IsUrl(url)
    PROVE  LET params == ParamsOf(url)
           IN  ParamsUpTo(url, Len(url.params), params) \/ (params.bad = TRUE /\ ~Numbers(url))
<1> DEFINE N == Len(url.params)
<1>0. N \in Nat
    BY DEF IsUrl
<1>1. PICK params :
         /\ ParamsOf(url) = params[N]
         /\ params[0] = Params("", 0, config.safe_search, FALSE)
         /\ \A n \in 1 .. N : params[n] = NextParam(params[n - 1], url.params[n])
    BY <1>0, ParamsAreRead
<1> DEFINE Right(n) == ParamsUpTo(url, n, params[n]) \/ (params[n].bad = TRUE /\ ~Numbers(url))
           Done == {n \in 0 .. N : Right(n)}
<1>2. 0 \in Done
    <2>1. \A key : LastUpTo(url, key, 0) = 0
        BY ValuePlaces, LatestOfNone DEF LastUpTo
    <2>2. 1 .. 0 = {} /\ 0 \in 0 .. N
        BY <1>0
    <2>3. params[0].query = "" /\ params[0].page = 0 /\ params[0].level = config.safe_search
        <3>1. ASSUME NEW query, NEW level, params[0] = Params(query, 0, level, FALSE)
              PROVE  params[0].query = query /\ params[0].page = 0 /\ params[0].level = level
            BY <3>1 DEF Params
        <3> QED
            BY <1>1, <3>1
    <2>4. ParamsUpTo(url, 0, params[0])
        BY <1>1, <2>1, <2>2, <2>3 DEF ParamsUpTo
    <2> QED
        BY <2>2, <2>4
<1>3. ASSUME NEW n \in 0 .. N - 1, n \in Done
      PROVE  n + 1 \in Done
    <2>1. n + 1 \in 1 .. N /\ n + 1 \in 0 .. N /\ (n + 1) - 1 = n
        BY <1>0
    <2>2. params[n + 1] = NextParam(params[n], url.params[n + 1])
        BY <1>1, <2>1
    <2>3. CASE ParamsUpTo(url, n, params[n])
        <3>1. n \in 0 .. Len(url.params) - 1
            OBVIOUS
        <3> HIDE DEF N
        <3>2. Right(n + 1)
            BY <2>2, <2>3, <3>1, ParamIsRead
        <3> QED
            BY <2>1, <3>2
    <2>4. CASE params[n].bad = TRUE /\ ~Numbers(url)
        <3>1. params[n].bad
            BY <2>4
        <3>2. params[n + 1] = params[n]
            BY <2>2, <3>1 DEF NextParam
        <3> QED
            BY <2>1, <2>4, <3>2
    <2> QED
        BY <1>3, <2>3, <2>4
<1>4. Right(N)
    <2>1. \A n \in 0 .. N - 1 : n \in Done => n + 1 \in Done
        BY <1>3
    <2>2. N \in 0 .. N
        BY <1>0
    <2>3. \A n \in 0 .. N : n \in Done
        <3> HIDE DEF Done, N
        <3> QED
            BY <1>0, <1>2, <2>1, UpToBound
    <2> QED
        BY <2>2, <2>3
<1> QED
    BY <1>1, <1>4

\* What handle_search makes of a url.
LEMMA UrlIsAsked ==
    ASSUME NEW url, IsUrl(url), NEW params, params = ParamsOf(url)
    PROVE  IF Numbers(url)
             THEN /\ params.bad = FALSE
                  /\ IsQuery(params.query) <=> Asked(url)
                  /\ Asked(url) => params.query = LastValue(url, "q")
                  /\ params.page = Page(url) /\ params.level = Level(url)
             ELSE params.bad = TRUE
<1> DEFINE N == Len(url.params)
<1>1. ParamsUpTo(url, N, params) \/ (params.bad = TRUE /\ ~Numbers(url))
    BY UrlIsRead
<1> SUFFICES ASSUME ParamsUpTo(url, N, params)
             PROVE  /\ Numbers(url) /\ params.bad = FALSE
                    /\ IsQuery(params.query) <=> Asked(url)
                    /\ Asked(url) => params.query = LastValue(url, "q")
                    /\ params.page = Page(url) /\ params.level = Level(url)
    BY <1>1
<1>2. /\ params = Params(params.query, params.page, params.level, FALSE)
      /\ \A i \in 1 .. N : NumberAt(url, i)
      /\ params.query = IF LastUpTo(url, "q", N) = 0 THEN "" ELSE Value(url, "q", N)
      /\ params.page = IF LastUpTo(url, "page", N) = 0 THEN 0 ELSE Reads.u32[Value(url, "page", N)]
      /\ params.level = IF LastUpTo(url, "safesearch", N) = 0 THEN config.safe_search
                        ELSE Reads.u8[Value(url, "safesearch", N)]
    BY DEF ParamsUpTo
<1>3. Numbers(url)
    <2>1. \A key : \A i \in Values(url, key) : i \in 1 .. N /\ url.params[i].key = key
        BY ValuePlaces DEF Values
    <2> QED
        BY <1>2, <2>1 DEF Numbers, NumberAt
<1>4. params.bad = FALSE
    <2>1. PICK query, page, level : params = Params(query, page, level, FALSE)
        BY <1>2
    <2> QED
        BY <2>1 DEF Params
<1>5. ASSUME NEW key
      PROVE  IF Values(url, key) = {} THEN LastUpTo(url, key, N) = 0
             ELSE LastUpTo(url, key, N) # 0 /\ Value(url, key, N) = LastValue(url, key)
    <2> DEFINE places == Values(url, key)
               greatest == CHOOSE i \in places : \A j \in places : j <= i
    <2>1. N \in Nat /\ places \in SUBSET (1 .. N)
        BY ValuePlaces
    <2>2. LastValue(url, key) = url.params[greatest].value
        BY DEF LastValue
    <2>3. Value(url, key, N) = url.params[Latest(places, N)].value /\ LastUpTo(url, key, N) = Latest(places, N)
        BY DEF Value, LastUpTo
    <2> HIDE DEF N, places
    <2>4. IF places = {} THEN Latest(places, N) = 0
          ELSE Latest(places, N) # 0 /\ Latest(places, N) = greatest
        BY <2>1, LatestOfAll
    <2> HIDE DEF greatest
    <2>5. IF places = {} THEN LastUpTo(url, key, N) = 0
          ELSE LastUpTo(url, key, N) # 0 /\ Value(url, key, N) = LastValue(url, key)
        BY <2>2, <2>3, <2>4
    <2> QED
        BY <2>5 DEF places
<1>6. IF Values(url, "q") = {} THEN params.query = "" ELSE params.query = LastValue(url, "q")
    BY <1>2, <1>5
<1>7. IsQuery(params.query) <=> Asked(url)
    BY <1>6, ReadsAssumption DEF IsQuery, Asked
<1>8. Asked(url) => params.query = LastValue(url, "q")
    BY <1>6 DEF Asked
<1>9. params.page = Page(url) /\ params.level = Level(url)
    BY <1>2, <1>5 DEF Page, Level
<1> QED
    BY <1>3, <1>4, <1>7, <1>8, <1>9

-----------------------------------------------------------------------------
(* The api-only server.                                                    *)

\* The fetch that a url and the configuration ask for.
Fetch(url) ==
    [query |-> Reads.query[LastValue(url, "q")], page |-> Page(url), level |-> Level(url),
     engines |-> Enabled]

\* What AnswersMatchRequests says of one answer.
RightAnswer(answer) ==
    LET url == answer.url
    IN  CASE Endpoint(url) = "none" -> answer.status = 404
          [] Endpoint(url) = "/healthz" -> answer.status = 200
          [] Endpoint(url) = "/search" ->
               /\ answer.status = 400 <=> Fault(url) # "none"
               /\ answer.status = 400 => answer.code = Fault(url)
               /\ answer.status = 500 => config.engines \cap KnownEngines = {}
               /\ answer.status = 200 => answer.fetched = Fetch(url)

\* A request under way asks for what its url says.
Follows(r) ==
    /\ r.at # "none" => r.url \in Urls
    /\ r.at = "aggregating" =>
         /\ Endpoint(r.url) = "/search" /\ Fault(r.url) = "none"
         /\ r.fetched = Fetch(r.url)
    /\ r.at = "answered" => RightAnswer(r)

ApiInvariant ==
    /\ api = [env |-> api.env, args |-> api.args, at |-> api.at, config |-> api.config]
    /\ api.at # "off" => api.env \in Envs /\ api.args \in ArgLists
    /\ ApiConfigInEffect
    /\ DOMAIN request = Requests
    /\ api.at # "serving" => \A c \in Requests : request[c].at = "none"
    /\ \A c \in Requests : Follows(request[c])

\* A level that is served is a number, and one of the three without list files.
LEMMA LevelIsNumber ==
    ASSUME ApiInvariant, api.at = "serving", NEW url, IsUrl(url), Fault(url) = "none"
    PROVE  Level(url) \in Nat /\ ~(Level(url) > 2) /\ Numbers(url) /\ Asked(url)
<1>1. Numbers(url) /\ Asked(url) /\ ~(Level(url) > 2)
    BY DEF Fault
<1>2. CASE Values(url, "safesearch") = {}
    <2>1. /\ api.env \in Envs /\ api.args \in ArgLists
          /\ WellFormed(api.args) /\ EnvParses(api.env)
          /\ \A o \in DOMAIN Options : config[o] = Preferred(api.env, api.args, o)
        BY DEF ApiInvariant, ApiConfigInEffect, EnvParses
    <2>2. api.args \in Seq(Texts)
        BY <2>1, ArgListsAssumption
    <2>3. Preferred(api.env, api.args, "safe_search") \in Nat
        BY <2>1, <2>2, NumbersInForce
    <2>4. config.safe_search = Preferred(api.env, api.args, "safe_search")
        BY <2>1, OptionTypes
    <2> QED
        BY <1>1, <1>2, <2>3, <2>4 DEF Level
<1>3. CASE Values(url, "safesearch") # {}
    <2> DEFINE places == Values(url, "safesearch")
               greatest == CHOOSE i \in places : \A j \in places : j <= i
    <2>1. greatest \in places
        <3>1. places \in SUBSET (1 .. Len(url.params)) /\ Len(url.params) \in Nat
            BY ValuePlaces
        <3> HIDE DEF places
        <3> QED
            BY <1>3, <3>1, LatestOfAll DEF places
    <2>2. LastValue(url, "safesearch") = url.params[greatest].value
        BY DEF LastValue
    <2> HIDE DEF greatest
    <2>3. LastValue(url, "safesearch") \in DOMAIN Reads.u8
        BY <1>1, <2>1, <2>2 DEF Numbers
    <2>4. Reads.u8[LastValue(url, "safesearch")] \in 0 .. 255
        BY <2>3, ReadsAssumption
    <2>5. \A value \in 0 .. 255 : value \in Nat
        OBVIOUS
    <2> QED
        BY <1>1, <1>3, <2>4, <2>5 DEF Level
<1> QED
    BY <1>2, <1>3

\* What a request is answered depends on the process alone.
LEMMA FollowsStays ==
    ASSUME api' = api, NEW r
    PROVE  Follows(r)' <=> Follows(r)
<1>1. config' = config
    BY DEF config
<1>2. Level(r.url)' = Level(r.url) /\ Enabled' = Enabled /\ Page(r.url)' = Page(r.url)
    BY <1>1 DEF Level, Enabled, Page
<1>3. Numbers(r.url)' <=> Numbers(r.url)
    BY DEF Numbers
<1>4. Asked(r.url)' <=> Asked(r.url)
    BY DEF Asked
<1>5. Fault(r.url)' = Fault(r.url)
    BY <1>2, <1>3, <1>4 DEF Fault
<1>6. Fetch(r.url)' = Fetch(r.url)
    BY <1>2 DEF Fetch
<1>7. RightAnswer(r)' <=> RightAnswer(r)
    BY <1>1, <1>5, <1>6 DEF RightAnswer
<1> QED
    BY <1>5, <1>6, <1>7 DEF Follows

\* A step of one thread, which changes neither the process nor another request.
LEMMA RequestMoves ==
    ASSUME ApiInvariant, api' = api, api.at = "serving", NEW c \in Requests, NEW r, Follows(r),
           request' = [request EXCEPT ![c] = r]
    PROVE  ApiInvariant'
<1>1. \A d \in Requests : request'[d] = IF d = c THEN r ELSE request[d]
    BY DEF ApiInvariant
<1>2. ASSUME NEW d \in Requests
      PROVE  Follows(request[d])'
    <2>1. Follows(request'[d])
        BY <1>1 DEF ApiInvariant
    <2> QED
        BY <2>1, FollowsStays
<1>3. ApiConfigInEffect'
    BY DEF ApiInvariant, ApiConfigInEffect, config
<1>4. DOMAIN request' = Requests
    BY DEF ApiInvariant
<1> QED
    BY <1>2, <1>3, <1>4 DEF ApiInvariant

LEMMA ApiInitHolds == Init => ApiInvariant
<1> SUFFICES ASSUME Init
             PROVE  ApiInvariant
    OBVIOUS
<1>1. request = [c \in Requests |-> NoRequest]
    BY DEF Init, ApiInit, ApiOff
<1>2. \A c \in Requests : request[c] = NoRequest /\ request[c].at = "none"
    BY <1>1 DEF NoRequest
<1>3. \A c \in Requests : Follows(request[c])
    BY <1>2 DEF Follows
<1>4. CASE ApiOff
    <2>1. api.at = "off" /\ api = [env |-> api.env, args |-> api.args, at |-> api.at, config |-> api.config]
        BY <1>4 DEF ApiOff
    <2> QED
        BY <1>1, <1>2, <1>3, <2>1 DEF ApiInvariant, ApiConfigInEffect
<1>5. CASE ApiInit
    <2>1. api \in [env: Envs, args: ArgLists, at: {"started"}, config: {NoConfig}]
        BY <1>5 DEF ApiInit
    <2>2. /\ api.at = "started" /\ api.env \in Envs /\ api.args \in ArgLists
          /\ api = [env |-> api.env, args |-> api.args, at |-> api.at, config |-> api.config]
        BY <2>1
    <2> QED
        BY <1>1, <1>2, <1>3, <2>2 DEF ApiInvariant, ApiConfigInEffect
<1> QED
    BY <1>4, <1>5 DEF Init

LEMMA ReadConfigKeeps ==
    ASSUME ApiInvariant, ReadConfig
    PROVE  ApiInvariant'
<1> DEFINE env == api.env
           args == api.args
           result == from_env_and_args(env, args)
           at == CASE result.end = "ok" -> "configured"
                   [] result.end \in {"HelpRequested", "version"} -> "exit_0"
                   [] OTHER -> "exit_2"
<1>1. /\ api = [env |-> env, args |-> args, at |-> api.at, config |-> api.config]
      /\ api.at = "started" /\ request' = request
      /\ api' = [api EXCEPT !.config = result, !.at = at]
    BY DEF ApiInvariant, ReadConfig
<1>2. env \in Envs /\ args \in ArgLists
    BY <1>1 DEF ApiInvariant
<1>3. IsEnv(env) /\ args \in Seq(Texts)
    BY <1>2, EnvsAssumption, ArgListsAssumption DEF IsEnv
<1>4. /\ result.end = "ok" =>
           /\ EnvParses(env) /\ WellFormed(args) /\ SoundInForce(env, args)
           /\ \A option \in DOMAIN Options : result.values[option] = Preferred(env, args, option)
      /\ result.end \in {"HelpRequested", "version"} =>
           \E i \in DOMAIN args : args[i] \in {"--help", "-h", "--version", "-V"}
      /\ result.end \notin {"ok", "HelpRequested", "version"} =>
           ~(EnvParses(env) /\ WellFormed(args) /\ SoundInForce(env, args))
    BY <1>3, ConfigIsInEffect
<1>5. \/ at = "configured" /\ result.end = "ok"
      \/ at = "exit_0" /\ result.end \in {"HelpRequested", "version"}
      \/ at = "exit_2" /\ result.end \notin {"ok", "HelpRequested", "version"}
    <2> HIDE DEF result
    <2> QED
        OBVIOUS
<1> HIDE DEF result, at
<1>6. api' = [env |-> env, args |-> args, at |-> at, config |-> result]
    BY <1>1
<1> HIDE DEF env, args
<1>7. api'.env = env /\ api'.args = args /\ api'.at = at /\ api'.config = result /\ config' = result.values
    BY <1>6 DEF config
<1>8. ApiConfigInEffect'
    BY <1>4, <1>5, <1>7 DEF ApiConfigInEffect, EnvParses, SoundInForce
<1>9. \A c \in Requests : request'[c].at = "none"
    BY <1>1 DEF ApiInvariant
<1>10. \A c \in Requests : Follows(request[c])'
    BY <1>9 DEF Follows
<1> QED
    BY <1>1, <1>2, <1>5, <1>6, <1>7, <1>8, <1>9, <1>10 DEF ApiInvariant

LEMMA BindKeeps ==
    ASSUME ApiInvariant, BindApi
    PROVE  ApiInvariant'
<1>1. PICK how \in {"serving", "exit_1"} : api' = [api EXCEPT !.at = how]
    BY DEF BindApi
<1>2. /\ api' = [env |-> api.env, args |-> api.args, at |-> how, config |-> api.config]
      /\ api.at = "configured" /\ request' = request
    BY <1>1 DEF ApiInvariant, BindApi
<1>3. api'.env = api.env /\ api'.args = api.args /\ api'.at = how /\ api'.config = api.config
    BY <1>2
<1>4. ApiConfigInEffect'
    BY <1>2, <1>3 DEF ApiInvariant, ApiConfigInEffect, config
<1>5. \A c \in Requests : request'[c].at = "none"
    BY <1>2 DEF ApiInvariant
<1>6. \A c \in Requests : Follows(request[c])'
    BY <1>5 DEF Follows
<1> QED
    BY <1>2, <1>3, <1>4, <1>5, <1>6 DEF ApiInvariant

LEMMA ReceiveKeeps ==
    ASSUME ApiInvariant, NEW c \in Requests, Receive(c)
    PROVE  ApiInvariant'
<1>1. PICK url \in Urls : request' = [request EXCEPT ![c] = [at |-> "received", url |-> url]]
    BY DEF Receive
<1> DEFINE r == [at |-> "received", url |-> url]
<1>2. r.at = "received" /\ r.url = url
    OBVIOUS
<1> HIDE DEF r
<1>3. Follows(r)
    BY <1>2 DEF Follows
<1> QED
    BY <1>1, <1>3, RequestMoves DEF Receive, r

LEMMA RouteKeeps ==
    ASSUME ApiInvariant, NEW c \in Requests, route(c)
    PROVE  ApiInvariant'
<1> DEFINE url == request[c].url
<1>1. /\ request[c].at = "received" /\ api' = api /\ api.at = "serving"
      /\ url \in Urls
    BY DEF route, ApiInvariant, Follows
<1>2. IsUrl(url)
    BY <1>1, UrlsAssumption DEF IsUrl
<1> HIDE DEF url
<1>3. ASSUME NEW status, NEW code, Respond(c, status, code),
             \A answer : /\ answer.url = url /\ answer.status = status /\ answer.code = code
                         => RightAnswer(answer)
      PROVE  ApiInvariant'
    <2> DEFINE answer == [at |-> "answered", url |-> url, status |-> status, code |-> code,
                          fetched |-> NotFetched]
    <2>1. request' = [request EXCEPT ![c] = answer]
        BY <1>3 DEF Respond, url
    <2>2. answer.at = "answered" /\ answer.url = url /\ answer.status = status /\ answer.code = code
        OBVIOUS
    <2> HIDE DEF answer
    <2>3. Follows(answer)
        BY <1>1, <1>3, <2>2 DEF Follows
    <2> QED
        BY <1>1, <2>1, <2>3, RequestMoves
<1>4. CASE Endpoint(url) = "/healthz"
    <2>1. Respond(c, 200, "ok")
        BY <1>4 DEF route, url
    <2>2. \A answer : answer.url = url /\ answer.status = 200 => RightAnswer(answer)
        BY <1>4 DEF RightAnswer
    <2> QED
        BY <1>3, <2>1, <2>2
<1>5. CASE Endpoint(url) = "none"
    <2>1. Respond(c, 404, "not_found")
        BY <1>5 DEF route, url
    <2>2. \A answer : answer.url = url /\ answer.status = 404 => RightAnswer(answer)
        BY <1>5 DEF RightAnswer
    <2> QED
        BY <1>3, <2>1, <2>2
<1>6. CASE Endpoint(url) = "/search"
    <2> DEFINE params == ParamsOf(url)
    <2>1. handle_search(c)
        BY <1>6 DEF route, url
    <2>2. IF Numbers(url)
            THEN /\ params.bad = FALSE
                 /\ IsQuery(params.query) <=> Asked(url)
                 /\ Asked(url) => params.query = LastValue(url, "q")
                 /\ params.page = Page(url) /\ params.level = Level(url)
            ELSE params.bad = TRUE
        BY <1>2, UrlIsAsked
    <2>3. IF params.bad THEN Respond(c, 400, "bad_request")
          ELSE IF ~IsQuery(params.query) THEN Respond(c, 400, "empty_query")
          ELSE IF params.level > 2 THEN Respond(c, 400, "bad_request")
          ELSE IF Enabled = {} THEN Respond(c, 500, "no_engines")
          ELSE request' = [request EXCEPT ![c] =
                 [at |-> "aggregating", url |-> url,
                  fetched |-> [query |-> Reads.query[params.query], page |-> params.page,
                               level |-> params.level, engines |-> Enabled]]]
        BY <2>1 DEF handle_search, url
    <2> HIDE DEF params
    <2>4. ASSUME NEW code, Fault(url) = code, code # "none", Respond(c, 400, code)
          PROVE  ApiInvariant'
        <3>1. \A answer : answer.url = url /\ answer.status = 400 /\ answer.code = code
                          => RightAnswer(answer)
            BY <1>6, <2>4 DEF RightAnswer
        <3> QED
            BY <1>3, <2>4, <3>1
    <2>5. CASE ~Numbers(url)
        <3>1. Respond(c, 400, "bad_request") /\ Fault(url) = "bad_request"
            BY <2>2, <2>3, <2>5 DEF Fault
        <3> QED
            BY <2>4, <3>1
    <2>6. CASE Numbers(url) /\ ~Asked(url)
        <3>1. Respond(c, 400, "empty_query") /\ Fault(url) = "empty_query"
            BY <2>2, <2>3, <2>6 DEF Fault
        <3> QED
            BY <2>4, <3>1
    <2>7. CASE Numbers(url) /\ Asked(url) /\ Level(url) > 2
        <3>1. Respond(c, 400, "bad_request") /\ Fault(url) = "bad_request"
            BY <2>2, <2>3, <2>7 DEF Fault
        <3> QED
            BY <2>4, <3>1
    <2>8. CASE Numbers(url) /\ Asked(url) /\ ~(Level(url) > 2)
        <3>1. Fault(url) = "none"
            BY <2>8 DEF Fault
        <3>2. CASE Enabled = {}
            <4>1. Respond(c, 500, "no_engines")
                BY <2>2, <2>3, <2>8, <3>2
            <4>2. \A answer : answer.url = url /\ answer.status = 500 => RightAnswer(answer)
                BY <1>6, <3>1, <3>2 DEF RightAnswer, Enabled
            <4> QED
                BY <1>3, <4>1, <4>2
        <3>3. CASE Enabled # {}
            <4> DEFINE r == [at |-> "aggregating", url |-> url, fetched |-> Fetch(url)]
            <4>1. request' = [request EXCEPT ![c] = r]
                BY <2>2, <2>3, <2>8, <3>3 DEF Fetch
            <4>2. r.at = "aggregating" /\ r.url = url /\ r.fetched = Fetch(url)
                OBVIOUS
            <4> HIDE DEF r
            <4>3. Follows(r)
                BY <1>1, <1>6, <3>1, <4>2 DEF Follows
            <4> QED
                BY <1>1, <4>1, <4>3, RequestMoves
        <3> QED
            BY <3>2, <3>3
    <2> QED
        BY <2>5, <2>6, <2>7, <2>8
<1>7. Endpoint(url) \in {"/healthz", "/search", "none"}
    BY DEF Endpoint
<1> QED
    BY <1>4, <1>5, <1>6, <1>7

LEMMA AggregatedKeeps ==
    ASSUME ApiInvariant, NEW c \in Requests, Aggregated(c)
    PROVE  ApiInvariant'
<1> DEFINE url == request[c].url
<1>1. /\ request[c].at = "aggregating" /\ api' = api /\ api.at = "serving" /\ url \in Urls
      /\ Endpoint(url) = "/search" /\ Fault(url) = "none" /\ request[c].fetched = Fetch(url)
    BY DEF Aggregated, ApiInvariant, Follows
<1>2. Level(url) \in Nat /\ ~(Level(url) > 2)
    <2>1. IsUrl(url)
        BY <1>1, UrlsAssumption DEF IsUrl
    <2> HIDE DEF url
    <2> QED
        BY <1>1, <2>1, LevelIsNumber
<1>3. AggregateEnds(request[c].fetched.level) = {"results"}
    <2>1. request[c].fetched.level = Level(url)
        BY <1>1 DEF Fetch
    <2> HIDE DEF url
    <2>2. ~(Level(url) >= 3)
        BY <1>2
    <2> QED
        BY <2>1, <2>2 DEF AggregateEnds
<1>4. PICK failed \in SUBSET request[c].fetched.engines :
         request' = [request EXCEPT ![c] =
           [at |-> "answered", url |-> url, fetched |-> request[c].fetched, failed |-> failed,
            status |-> 200, code |-> "ok"]]
    BY <1>3 DEF Aggregated
<1> DEFINE r == [at |-> "answered", url |-> url, fetched |-> request[c].fetched, failed |-> failed,
                 status |-> 200, code |-> "ok"]
<1>5. r.at = "answered" /\ r.url = url /\ r.fetched = Fetch(url) /\ r.status = 200
    BY <1>1
<1>6. request' = [request EXCEPT ![c] = r]
    BY <1>4
<1> HIDE DEF r, url
<1>7. Follows(r)
    BY <1>1, <1>5 DEF Follows, RightAnswer
<1> QED
    BY <1>1, <1>6, <1>7, RequestMoves

LEMMA ApiStepKeeps == ApiInvariant /\ [Next]_vars => ApiInvariant'
<1> SUFFICES ASSUME ApiInvariant, [Next]_vars
             PROVE  ApiInvariant'
    OBVIOUS
<1>1. CASE UNCHANGED apiVars
    <2>1. api' = api /\ request' = request
        BY <1>1 DEF apiVars
    <2>2. \A c \in Requests : Follows(request'[c])
        BY <2>1 DEF ApiInvariant
    <2>3. \A c \in Requests : Follows(request[c])'
        BY <2>1, <2>2, FollowsStays
    <2>4. ApiConfigInEffect'
        BY <2>1 DEF ApiInvariant, ApiConfigInEffect, config
    <2> QED
        BY <2>1, <2>3, <2>4 DEF ApiInvariant
<1>2. CASE ApiNext
    BY <1>2, ReadConfigKeeps, BindKeeps, ReceiveKeeps, RouteKeeps, AggregatedKeeps DEF ApiNext
<1> QED
    BY <1>1, <1>2 DEF Next, vars

LEMMA ApiInvariantHolds == Spec => []ApiInvariant
BY ApiInitHolds, ApiStepKeeps, PTL DEF Spec

LEMMA InvariantAnswers == ApiInvariant => AnswersMatchRequests
<1> SUFFICES ASSUME ApiInvariant, NEW c \in Requests, request[c].at = "answered"
             PROVE  RightAnswer(request[c])
    BY DEF AnswersMatchRequests, RightAnswer, Fetch
<1> QED
    BY DEF ApiInvariant, Follows

-----------------------------------------------------------------------------
\* Limiter: with every burst, period and number of workers, and after any time, a
\* worker has admitted at most the burst and a request a period of every peer, and
\* refuses a peer only after a whole burst.
THEOREM LimiterIsExact == Spec => []WorkersLimitPeers
BY InvariantHolds, InvariantLimits, PTL

\* Configuration: whatever config.lua holds and wherever it lies, the server that
\* serves does so with options in bounds, read from the first place that has it.
THEOREM ConfigIsSound == Spec => []ServedConfigIsSound
BY InvariantHolds, InvariantSound, PTL

\* Flag, else environment, else default: whatever the environment and however long
\* the command line, the api-only server serves with the last value of every flag,
\* and refuses to start only for what from_env_and_args names as errors.
THEOREM ApiConfigIsInEffect == Spec => []ApiConfigInEffect
BY ApiInvariantHolds, PTL DEF ApiInvariant

\* Answers: to a url of any number of parameters, repeated or not, handle_search
\* gives the status of what happened, and 200 only for the fetch that the last
\* values and the configuration ask for.
THEOREM AnswersAreRight == Spec => []AnswersMatchRequests
BY ApiInvariantHolds, InvariantAnswers, PTL
=============================================================================

--------------------------- MODULE CalendarProofs ---------------------------
(***************************************************************************)
(* What processCalendar does to a calendar, for any e-mails: the searches  *)
(* of the multimap find what is there, an e-mail leaves a calendar of the  *)
(* same kind of entries, and the end of the multimap is used as an event   *)
(* in one case only, once edits are restricted to locations; and then the  *)
(* last line for each date tells its earliest event.  Then the same of the *)
(* calendar of Assignment1, whose list is such a calendar read backwards.  *)
(***************************************************************************)
EXTENDS FilterCalendar, SequenceTheorems, FiniteSetTheorems, WellFoundedInduction, TLAPS

\* A set of numbers has a least one.
LEMMA Smallest ==
  ASSUME NEW T \in SUBSET Nat, T # {}
  PROVE  Min(T) \in T /\ \A m \in T : Min(T) <= m
<1> DEFINE Below == OpToRel(<, Nat)
<1>1. IsWellFoundedOn(Below, Nat)
  BY NatLessThanWellFounded
<1>2. \A m, n \in Nat : <<m, n>> \in Below <=> m < n
  BY DEF OpToRel
<1>3. PICK n \in T : \A m \in T : ~ (<<m, n>> \in Below)
  <2> HIDE DEF Below
  <2> QED BY <1>1, WFMin
<1>4. \A m \in T : ~ (m < n)
  BY <1>2, <1>3
<1> HIDE DEF Below
<1>5. \A m \in T : n <= m
  BY <1>4
<1> QED BY <1>5 DEF Min

-----------------------------------------------------------------------------
\* Searches.

\* The search for the first entry with a property, given by where it holds.
LEMMA FirstOf ==
  ASSUME NEW n \in Nat, NEW I \in SUBSET (1 .. n), NEW i,
         i = IF I # {} THEN Min(I) ELSE 0
  PROVE  /\ i = 0 <=> I = {}
         /\ i # 0 => i \in I
<1>1. I \in SUBSET Nat
  OBVIOUS
<1>2. I # {} => Min(I) \in I
  BY <1>1, Smallest
<1>3. 0 \notin I
  OBVIOUS
<1> QED BY <1>2, <1>3

LEMMA FindFinds ==
  ASSUME NEW S, NEW c \in Seq(S), NEW d
  PROVE  /\ Find(c, d) = 0 <=> \A i \in 1 .. Len(c) : c[i].key # d
         /\ Find(c, d) # 0 => Find(c, d) \in 1 .. Len(c)
<1> DEFINE I == {i \in 1 .. Len(c) : c[i].key = d}
<1>1. Find(c, d) = IF I # {} THEN Min(I) ELSE 0
  BY DEF Find, SelectInSeq
<1>2. Len(c) \in Nat /\ I \in SUBSET (1 .. Len(c))
  BY LenProperties
<1>3. (Find(c, d) = 0 <=> I = {}) /\ (Find(c, d) # 0 => Find(c, d) \in I)
  BY <1>1, <1>2, FirstOf
<1> QED BY <1>3

LEMMA TitleFinds ==
  ASSUME NEW S, NEW c \in Seq(S), NEW t
  PROVE  LET i == SearchEventByTitle(c, t) IN
         i # 0 => i \in 1 .. Len(c) /\ c[i].event.title = t
<1> DEFINE I == {i \in 1 .. Len(c) : c[i].event.title = t}
           j == SearchEventByTitle(c, t)
<1>1. j = IF I # {} THEN Min(I) ELSE 0
  BY DEF SearchEventByTitle, SelectInSeq
<1>2. Len(c) \in Nat /\ I \in SUBSET (1 .. Len(c))
  BY LenProperties
<1>3. j # 0 => j \in I
  <2> HIDE DEF j, I
  <2> QED BY <1>1, <1>2, FirstOf
<1> QED BY <1>3

LEMMA EventFinds ==
  ASSUME NEW S, NEW c \in Seq(S), NEW e
  PROVE  LET i == searchEventByDateTitleTime(c, e) IN
         i # 0 => i \in 1 .. Len(c) /\ c[i].event.date = e.date
<1> DEFINE I == {i \in 1 .. Len(c) : /\ c[i].event.time = e.time
                                     /\ c[i].event.title = e.title
                                     /\ c[i].event.date = e.date}
           j == searchEventByDateTitleTime(c, e)
<1>1. j = IF I # {} THEN Min(I) ELSE 0
  BY DEF searchEventByDateTitleTime, SelectInSeq
<1>2. Len(c) \in Nat /\ I \in SUBSET (1 .. Len(c))
  BY LenProperties
<1>3. j # 0 => j \in I
  <2> HIDE DEF j, I
  <2> QED BY <1>1, <1>2, FirstOf
<1> QED BY <1>3

-----------------------------------------------------------------------------
\* Edits of the multimap.

\* A sequence is one of the elements it has.
LEMMA Narrow ==
  ASSUME NEW A, NEW S, NEW c \in Seq(A), \A i \in 1 .. Len(c) : c[i] \in S
  PROVE  c \in Seq(S)
<1>1. Len(c) \in Nat /\ c \in [1 .. Len(c) -> A]
  BY LenProperties
<1>2. c \in [1 .. Len(c) -> S]
  BY <1>1
<1> QED BY <1>1, <1>2, SeqDef

LEMMA InsertKeeps ==
  ASSUME NEW S, NEW c \in Seq(S), NEW n \in 0 .. Len(c), NEW x \in S
  PROVE  InsertAt(c, 1 + n, x) \in Seq(S)
<1>1. Len(c) \in Nat /\ \A i \in 1 .. Len(c) : c[i] \in S
  BY LenProperties, ElementOfSeq
<1>2. SubSeq(c, 1, (1 + n) - 1) \in Seq(S) /\ SubSeq(c, 1 + n, Len(c)) \in Seq(S)
  <2>1. (\A i \in 1 .. n : c[i] \in S) /\ (1 + n) - 1 = n /\ n \in Int /\ 1 \in Int
    BY <1>1
  <2>2. (\A i \in 1 + n .. Len(c) : c[i] \in S) /\ 1 + n \in Int /\ Len(c) \in Int
    BY <1>1
  <2> QED BY <2>1, <2>2, SubSeqProperties
<1>3. <<x>> \in Seq(S)
  OBVIOUS
<1> QED BY <1>2, <1>3, ConcatProperties DEF InsertAt

LEMMA RemoveKeeps ==
  ASSUME NEW S, NEW c \in Seq(S), NEW i \in 1 .. Len(c)
  PROVE  RemoveAt(c, i) \in Seq(S)
<1>1. Len(c) \in Nat /\ \A j \in 1 .. Len(c) : c[j] \in S
  BY LenProperties, ElementOfSeq
<1>2. SubSeq(c, 1, i - 1) \in Seq(S) /\ SubSeq(c, i + 1, Len(c)) \in Seq(S)
  <2>1. (\A j \in 1 .. i - 1 : c[j] \in S) /\ i - 1 \in Int /\ 1 \in Int
    BY <1>1
  <2>2. (\A j \in i + 1 .. Len(c) : c[j] \in S) /\ i + 1 \in Int /\ Len(c) \in Int
    BY <1>1
  <2> QED BY <2>1, <2>2, SubSeqProperties
<1> QED BY <1>2, ConcatProperties DEF RemoveAt

\* The entries that sort before a new one are some of the calendar's.
LEMMA Before ==
  ASSUME NEW S, NEW c \in Seq(S), NEW d
  PROVE  Cardinality({i \in DOMAIN c : c[i].key <= d}) \in 0 .. Len(c)
<1> DEFINE I == {i \in DOMAIN c : c[i].key <= d}
<1>1. DOMAIN c = 1 .. Len(c) /\ Len(c) \in Nat
  BY LenProperties
<1>2. IsFiniteSet(1 .. Len(c)) /\ Cardinality(1 .. Len(c)) = Len(c)
  <2>1. 1 \in Int /\ Len(c) \in Int
    BY <1>1
  <2>2. Cardinality(1 .. Len(c)) = IF 1 > Len(c) THEN 0 ELSE Len(c) - 1 + 1
    BY <2>1, FS_Interval
  <2>3. IsFiniteSet(1 .. Len(c))
    BY <2>1, FS_Interval
  <2> DEFINE n == Len(c)
             m == Cardinality(1 .. n)
  <2>4. n \in Nat /\ m = IF 1 > n THEN 0 ELSE n - 1 + 1
    BY <1>1, <2>2
  <2> HIDE DEF m, n
  <2>5. m = n
    BY <2>4
  <2> QED BY <2>3, <2>5 DEF m, n
<1>3. I \subseteq 1 .. Len(c)
  BY <1>1
<1>4. Cardinality(I) \in Nat /\ Cardinality(I) <= Len(c)
  <2> HIDE DEF I
  <2> QED BY <1>2, <1>3, FS_Subset, FS_CardinalityType
<1> QED BY <1>1, <1>4

LEMMA EmplaceKeeps ==
  ASSUME NEW S, NEW c \in Seq(S), NEW e, [key |-> e.date, event |-> e] \in S
  PROVE  Emplace(c, e) \in Seq(S)
<1> DEFINE n == Cardinality({i \in DOMAIN c : c[i].key <= e.date})
<1>1. n \in 0 .. Len(c)
  BY Before
<1> HIDE DEF n
<1>2. InsertAt(c, 1 + n, [key |-> e.date, event |-> e]) \in Seq(S)
  BY <1>1, InsertKeeps
<1> QED BY <1>2 DEF Emplace, n

-----------------------------------------------------------------------------
\* The three actions and the kind of entries.

\* What is known of an effect.
LEMMA Effects ==
  /\ \A c, l : Effect(c, l).defined = TRUE /\ Effect(c, l).calendar = c
  /\ Undefined.defined = FALSE
BY DEF Effect, Undefined

\* An e-mail leaves a calendar whose entries are of the same kind, if a new entry
\* for the e-mail is, and an entry that an edit changes to it.
LEMMA ProcessKeeps ==
  ASSUME NEW S, NEW c \in Seq(S), NEW e, NEW safe,
         [key |-> e.date, event |-> e] \in S,
         e.action = "X" =>
           \A i \in 1 .. Len(c) :
             c[i].event.title = e.title => [c[i] EXCEPT !.event = e] \in S,
         processCalendar(c, e, safe).defined
  PROVE  processCalendar(c, e, safe).calendar \in Seq(S)
<1> DEFINE Good(f) == f.defined => f.calendar \in Seq(S)
<1>1. Good(CreateEvent(c, e))
  BY EmplaceKeeps, Effects DEF CreateEvent
<1>2. e.action = "X" => Good(EditEvent(c, e))
  <2> SUFFICES ASSUME e.action = "X" PROVE Good(EditEvent(c, e))
    OBVIOUS
  <2> DEFINE i == SearchEventByTitle(c, e.title)
             after == [c EXCEPT ![i].event = e]
  <2>1. CASE i = 0
    BY <2>1, Effects DEF EditEvent
  <2>2. CASE i # 0
    <3>1. i \in 1 .. Len(c) /\ c[i].event.title = e.title
      BY <2>2, TitleFinds
    <3>2. [c[i] EXCEPT !.event = e] \in S
      BY <3>1
    <3>3. after = [c EXCEPT ![i] = [c[i] EXCEPT !.event = e]]
      OBVIOUS
    <3>4. after \in Seq(S)
      <4> HIDE DEF i, after
      <4> QED BY <3>1, <3>2, <3>3, ExceptSeq
    <3>5. EditEvent(c, e) = IF Find(after, e.date) = 0 THEN Undefined
                            ELSE Effect(after, IF searchEarliestEventByDate(after, e.date) = e
                                                 THEN <<Line(e)>> ELSE <<>>)
      BY <2>2 DEF EditEvent
    <3> HIDE DEF i, after
    <3> QED BY <3>4, <3>5, Effects
  <2> QED BY <2>1, <2>2
<1>3. Good(DeleteEvent(c, e, safe))
  <2> DEFINE i == searchEventByDateTitleTime(c, e)
             after == RemoveAt(c, i)
  <2>1. CASE i = 0 \/ Find(c, e.date) = 0
    BY <2>1, Effects DEF DeleteEvent
  <2>2. CASE i # 0 /\ Find(c, e.date) # 0
    <3>1. i \in 1 .. Len(c)
      BY <2>2, EventFinds
    <3>2. after \in Seq(S)
      BY <3>1, RemoveKeeps
    <3>3. DeleteEvent(c, e, safe) = Undefined \/ \E l : DeleteEvent(c, e, safe) = Effect(after, l)
      BY <2>2 DEF DeleteEvent
    <3> HIDE DEF i, after
    <3> QED BY <3>2, <3>3, Effects
  <2> QED BY <2>1, <2>2
<1>4. Good(Effect(c, <<>>))
  BY Effects
<1> HIDE DEF Good
<1>5. Good(processCalendar(c, e, safe))
  BY <1>1, <1>2, <1>3, <1>4 DEF processCalendar
<1> QED BY <1>5 DEF Good

\* Entries of e-mails, under the date of one of them.
Entries(E) == [key : {e.date : e \in E}, event : E]

\* The calendar holds e-mails that came, and keys that are dates of theirs.
LEMMA ProcessTyped ==
  ASSUME NEW E, NEW c \in Seq(Entries(E)), NEW e \in E, NEW safe,
         processCalendar(c, e, safe).defined
  PROVE  processCalendar(c, e, safe).calendar \in Seq(Entries(E))
<1> DEFINE S == Entries(E)
<1>1. [key |-> e.date, event |-> e] \in S
  BY DEF Entries
<1>2. ASSUME NEW i \in 1 .. Len(c)
      PROVE  [c[i] EXCEPT !.event = e] \in S
  <2>1. c[i] \in S
    BY <1>2, ElementOfSeq
  <2> QED BY <2>1 DEF Entries
<1> HIDE DEF S
<1>3. c \in Seq(S)
  BY DEF S
<1>4. processCalendar(c, e, safe).calendar \in Seq(S)
  BY <1>1, <1>2, <1>3, ProcessKeeps
<1> QED BY <1>4 DEF S

\* With entries filed under the dates of their events, and edits that change no
\* date, the end of the multimap is used as an event only to delete an event that
\* is not there.
LEMMA UndefinedOnlyDeleting ==
  ASSUME NEW K, NEW E, NEW c \in Seq([key : K, event : E]), NEW e,
         \A i \in 1 .. Len(c) : c[i].key = c[i].event.date,
         e.action = "X" =>
           \A i \in 1 .. Len(c) : c[i].event.title = e.title => c[i].event.date = e.date,
         ~ processCalendar(c, e, TRUE).defined
  PROVE  e.action = "D" /\ searchEventByDateTitleTime(c, e) = 0
<1>1. CreateEvent(c, e).defined
  BY Effects DEF CreateEvent
<1>2. e.action = "X" => EditEvent(c, e).defined
  <2> SUFFICES ASSUME e.action = "X" PROVE EditEvent(c, e).defined
    OBVIOUS
  <2> DEFINE i == SearchEventByTitle(c, e.title)
             after == [c EXCEPT ![i].event = e]
  <2>1. CASE i = 0
    BY <2>1, Effects DEF EditEvent
  <2>2. CASE i # 0
    <3>1. i \in 1 .. Len(c) /\ c[i].event.title = e.title
      BY <2>2, TitleFinds
    <3>2. c[i].key = e.date
      BY <3>1
    <3>3. after = [c EXCEPT ![i] = [c[i] EXCEPT !.event = e]]
      OBVIOUS
    <3> DEFINE T == [key : K, event : E \union {e}]
    <3>4. c[i] \in [key : K, event : E] /\ c \in Seq(T)
      <4>1. \A j \in 1 .. Len(c) : c[j] \in [key : K, event : E]
        BY ElementOfSeq
      <4>2. \A j \in 1 .. Len(c) : c[j] \in T
        BY <4>1
      <4> HIDE DEF i, T
      <4> QED BY <3>1, <4>1, <4>2, Narrow
    <3>5. [c[i] EXCEPT !.event = e] \in T /\ [c[i] EXCEPT !.event = e].key = c[i].key
      <4> HIDE DEF i
      <4> QED BY <3>4
    <3>6. after \in Seq(T) /\ Len(after) = Len(c) /\ after[i].key = e.date
      <4> HIDE DEF i, after, T
      <4> QED BY <3>1, <3>2, <3>3, <3>4, <3>5, ExceptSeq
    <3>7. Find(after, e.date) # 0
      <4> HIDE DEF i, after, T
      <4> QED BY <3>1, <3>6, FindFinds
    <3> QED BY <2>2, <3>7, Effects DEF EditEvent
  <2> QED BY <2>1, <2>2
<1>3. ASSUME searchEventByDateTitleTime(c, e) # 0
      PROVE  DeleteEvent(c, e, TRUE).defined
  <2> DEFINE i == searchEventByDateTitleTime(c, e)
             after == RemoveAt(c, i)
  <2>1. i \in 1 .. Len(c) /\ c[i].key = e.date
    BY <1>3, EventFinds
  <2>2. Find(c, e.date) # 0
    BY <2>1, FindFinds
  <2>3. ~ SearchFails(after, e.date, TRUE)
    BY DEF SearchFails
  <2>4. \E l : DeleteEvent(c, e, TRUE) = Effect(after, l)
    BY <1>3, <2>2, <2>3 DEF DeleteEvent
  <2> QED BY <2>4, Effects
<1>4. Effect(c, <<>>).defined
  BY Effects
<1> QED BY <1>1, <1>2, <1>3, <1>4 DEF processCalendar

-----------------------------------------------------------------------------
\* The earliest event of a date.

\* A set of numbers that has zero and each successor has every number.
LEMMA Induction ==
  ASSUME NEW T, 0 \in T, \A n \in Nat : n \in T => n + 1 \in T
  PROVE  \A n \in Nat : n \in T
<1> DEFINE Out == {n \in Nat : n \notin T}
           n == Min(Out)
<1>1. SUFFICES ASSUME Out # {} PROVE FALSE
  OBVIOUS
<1>2. n \in Out /\ \A m \in Out : n <= m
  <2>1. Out \in SUBSET Nat
    OBVIOUS
  <2> HIDE DEF Out
  <2> QED BY <1>1, <2>1, Smallest
<1>3. n \in Nat /\ n # 0 /\ n \notin T
  BY <1>2
<1> HIDE DEF n
<1>4. n - 1 \in Nat /\ (n - 1) + 1 = n /\ n - 1 < n
  BY <1>3
<1>5. n - 1 \in T
  BY <1>2, <1>4
<1> QED BY <1>3, <1>4, <1>5

\* The last of the places 1 .. n, if it is one of s.
LEMMA LastPlace ==
  ASSUME NEW n \in Nat, NEW s \in SUBSET (1 .. n), n \in s
  PROVE  Max(s) = n
<1>1. \A y \in s : n >= y
  OBVIOUS
<1>2. \A x \in s : (\A y \in s : x >= y) => x = n
  OBVIOUS
<1> QED BY <1>1, <1>2 DEF Max

\* One step of the search.
Picked(d, earliest, x) ==
  IF x.event.date = d /\ ~ CompareTime(earliest.time, x.event.time)
    THEN x.event ELSE earliest

\* g is the search of the library's fold, over the places in s.
Searched(g, c, d, s) ==
  IF s = {} THEN c[Find(c, d)].event ELSE Picked(d, g[s \ {Max(s)}], c[Max(s)])

Searches(g, c, d, n) == \A s \in SUBSET (1 .. n) : g[s] = Searched(g, c, d, s)

Folded(g, c, d) == g = [s \in SUBSET DOMAIN c |-> Searched(g, c, d, s)]

\* The fold's recursion has a solution.
LEMMA FoldExists ==
  ASSUME NEW S, NEW c \in Seq(S), NEW d
  PROVE  \E g : Folded(g, c, d)
<1> DEFINE T == {n \in Nat : \E g : Searches(g, c, d, n)}
<1>1. 0 \in T
  <2> DEFINE g == [s \in SUBSET (1 .. 0) |-> c[Find(c, d)].event]
  <2>1. \A s \in SUBSET (1 .. 0) : s = {} /\ g[s] = c[Find(c, d)].event
    OBVIOUS
  <2> HIDE DEF g
  <2>2. Searches(g, c, d, 0)
    BY <2>1 DEF Searches, Searched
  <2> QED BY <2>2
<1>2. ASSUME NEW n \in Nat, n \in T PROVE n + 1 \in T
  <2>1. PICK g : Searches(g, c, d, n)
    BY <1>2
  <2> DEFINE h == [s \in SUBSET (1 .. n + 1) |->
                     IF n + 1 \in s THEN Picked(d, g[s \ {n + 1}], c[n + 1]) ELSE g[s]]
  <2>2. ASSUME NEW s \in SUBSET (1 .. n) PROVE h[s] = g[s] /\ s \ {Max(s)} \in SUBSET (1 .. n)
    <3>1. s \in SUBSET (1 .. n + 1) /\ n + 1 \notin s
      OBVIOUS
    <3> QED BY <3>1
  <2>3. ASSUME NEW s \in SUBSET (1 .. n + 1) PROVE h[s] = Searched(h, c, d, s)
    <3>1. CASE n + 1 \in s
      <4>1. Max(s) = n + 1
        BY <3>1, LastPlace
      <4>2. s \ {n + 1} \in SUBSET (1 .. n) /\ s # {}
        BY <3>1
      <4>3. h[s \ {n + 1}] = g[s \ {n + 1}]
        BY <2>2, <4>2
      <4>4. h[s] = Picked(d, g[s \ {n + 1}], c[n + 1])
        BY <3>1
      <4> HIDE DEF h
      <4> QED BY <4>1, <4>2, <4>3, <4>4 DEF Searched
    <3>2. CASE n + 1 \notin s
      <4>1. s \in SUBSET (1 .. n)
        BY <3>2
      <4>2. h[s] = g[s] /\ h[s \ {Max(s)}] = g[s \ {Max(s)}]
        BY <2>2, <4>1
      <4>3. g[s] = Searched(g, c, d, s)
        BY <2>1, <4>1 DEF Searches
      <4> HIDE DEF h
      <4> QED BY <4>2, <4>3 DEF Searched
    <3> QED BY <3>1, <3>2
  <2> HIDE DEF h
  <2>4. Searches(h, c, d, n + 1)
    BY <2>3 DEF Searches
  <2> QED BY <2>4
<1>3. \A n \in Nat : n \in T
  <2> HIDE DEF T
  <2> QED BY <1>1, <1>2, Induction
<1>4. Len(c) \in Nat /\ DOMAIN c = 1 .. Len(c)
  BY LenProperties
<1>5. PICK g : Searches(g, c, d, Len(c))
  BY <1>3, <1>4
<1> DEFINE h == [s \in SUBSET DOMAIN c |-> g[s]]
<1>6. ASSUME NEW s \in SUBSET DOMAIN c PROVE h[s] = Searched(h, c, d, s)
  <2>1. h[s] = g[s] /\ h[s \ {Max(s)}] = g[s \ {Max(s)}]
    OBVIOUS
  <2>2. g[s] = Searched(g, c, d, s)
    BY <1>4, <1>5 DEF Searches
  <2> HIDE DEF h
  <2> QED BY <2>1, <2>2 DEF Searched
<1>7. h = [s \in SUBSET DOMAIN c |-> h[s]]
  OBVIOUS
<1> HIDE DEF h
<1>8. h = [s \in SUBSET DOMAIN c |-> Searched(h, c, d, s)]
  BY <1>6, <1>7
<1> QED BY <1>8 DEF Folded

LEMMA FoldSearches ==
  ASSUME NEW S, NEW c \in Seq(S), NEW d
  PROVE  \E g : /\ searchEarliestEventByDate(c, d) = g[1 .. Len(c)]
                /\ Searches(g, c, d, Len(c))
<1> DEFINE g == CHOOSE h : Folded(h, c, d)
<1>1. DOMAIN c = 1 .. Len(c)
  BY LenProperties
<1>2. searchEarliestEventByDate(c, d) = g[DOMAIN c]
  BY DEF searchEarliestEventByDate, FoldLeft, MapThenFoldSet, Folded, Searched, Picked
<1>3. Folded(g, c, d)
  BY FoldExists
<1> HIDE DEF g
<1>4. Searches(g, c, d, Len(c))
  BY <1>1, <1>3 DEF Folded, Searches
<1> QED BY <1>1, <1>2, <1>4

\* The search starts at the first entry of a key.
LEMMA FindFirst ==
  ASSUME NEW S, NEW c \in Seq(S), NEW d, Find(c, d) # 0
  PROVE  /\ Find(c, d) \in 1 .. Len(c) /\ c[Find(c, d)].key = d
         /\ \A k \in 1 .. Len(c) : c[k].key = d => Find(c, d) <= k
<1> DEFINE I == {i \in 1 .. Len(c) : c[i].key = d}
<1>1. Find(c, d) = IF I # {} THEN Min(I) ELSE 0
  BY DEF Find, SelectInSeq
<1>2. I \in SUBSET Nat
  OBVIOUS
<1>3. I # {} /\ Find(c, d) = Min(I)
  BY <1>1
<1>4. Find(c, d) \in I /\ \A m \in I : Find(c, d) <= m
  <2> HIDE DEF I
  <2> QED BY <1>2, <1>3, Smallest
<1> QED BY <1>4

\* Every entry is filed under the date of its event, and has a time.
Keyed(c) ==
  \A i \in 1 .. Len(c) : c[i].key = c[i].event.date /\ c[i].event.time \in Int

\* Among the first n entries, the j-th is the earliest of date d, the last of them.
IsEarliest(c, d, n, j) ==
  /\ j \in 1 .. n /\ c[j].event.date = d
  /\ \A k \in 1 .. n :
       c[k].event.date = d =>
         /\ c[j].event.time <= c[k].event.time
         /\ k > j => c[j].event.time < c[k].event.time

\* What the search has found among the first n entries.
FoundAmong(c, d, n, e) ==
  \/ e = c[Find(c, d)].event /\ \A k \in 1 .. n : c[k].event.date # d
  \/ \E j : IsEarliest(c, d, n, j) /\ e = c[j].event

LEMMA FoundNext ==
  ASSUME NEW S, NEW c \in Seq(S), NEW d, Keyed(c), Find(c, d) # 0,
         NEW n \in Nat, n + 1 <= Len(c), NEW e, FoundAmong(c, d, n, e)
  PROVE  FoundAmong(c, d, n + 1, Picked(d, e, c[n + 1]))
<1> DEFINE x == c[n + 1].event
           f == Find(c, d)
<1>1. Len(c) \in Nat /\ n + 1 \in 1 .. Len(c)
  BY LenProperties
<1>2. x.time \in Int /\ c[n + 1].key = x.date
  BY <1>1 DEF Keyed
<1>3. /\ f \in 1 .. Len(c) /\ c[f].event.date = d /\ c[f].event.time \in Int
      /\ \A k \in 1 .. Len(c) : c[k].event.date = d => f <= k
  <2> HIDE DEF f
  <2>1. f \in 1 .. Len(c) /\ c[f].key = d /\ \A k \in 1 .. Len(c) : c[k].key = d => f <= k
    BY FindFirst DEF f
  <2> QED BY <2>1 DEF Keyed
<1>4. Picked(d, e, c[n + 1]) = IF x.date = d /\ ~ (e.time < x.time) THEN x ELSE e
  BY DEF Picked, CompareTime
<1> HIDE DEF x, f
<1>5. CASE e = c[f].event /\ \A k \in 1 .. n : c[k].event.date # d
  <2>1. CASE x.date # d
    <3>1. \A k \in 1 .. n + 1 : c[k].event.date # d
      BY <1>5, <2>1 DEF x
    <3> QED BY <1>4, <1>5, <2>1, <3>1 DEF FoundAmong, f
  <2>2. CASE x.date = d
    <3>1. f <= n + 1 /\ f > n
      BY <1>1, <1>3, <1>5, <2>2 DEF x
    <3>2. f = n + 1
      BY <1>1, <1>3, <3>1
    <3>3. e = x /\ Picked(d, e, c[n + 1]) = x
      BY <1>4, <1>5, <3>2 DEF x
    <3>4. \A k \in 1 .. n + 1 : c[k].event.date = d => k = n + 1
      BY <1>5
    <3>5. n + 1 \in 1 .. n + 1 /\ x.time <= x.time
      BY <1>2
    <3>6. IsEarliest(c, d, n + 1, n + 1)
      BY <2>2, <3>4, <3>5 DEF IsEarliest, x
    <3> QED BY <3>3, <3>6 DEF FoundAmong, x
  <2> QED BY <2>1, <2>2
<1>6. ASSUME NEW j, IsEarliest(c, d, n, j), e = c[j].event
      PROVE  FoundAmong(c, d, n + 1, Picked(d, e, c[n + 1]))
  <2>1. /\ j \in 1 .. n /\ e.date = d /\ e.time \in Int
        /\ \A k \in 1 .. n : c[k].event.date = d =>
             /\ c[k].event.time \in Int /\ e.time <= c[k].event.time
             /\ k > j => e.time < c[k].event.time
    BY <1>1, <1>6 DEF IsEarliest, Keyed
  <2>2. CASE x.date = d /\ ~ (e.time < x.time)
    <3>1. x.time <= e.time
      BY <1>2, <2>1, <2>2
    <3>2. ASSUME NEW k \in 1 .. n + 1, c[k].event.date = d
          PROVE  x.time <= c[k].event.time /\ (k > n + 1 => x.time < c[k].event.time)
      <4>1. CASE k = n + 1
        BY <1>2, <4>1 DEF x
      <4>2. CASE k # n + 1
        <5>1. k \in 1 .. n
          BY <4>2
        <5>2. c[k].event.time \in Int /\ e.time <= c[k].event.time
          BY <2>1, <3>2, <5>1
        <5>3. x.time <= c[k].event.time
          BY <1>2, <2>1, <3>1, <5>2
        <5> QED BY <5>1, <5>3
      <4> QED BY <4>1, <4>2
    <3>3. n + 1 \in 1 .. n + 1
      OBVIOUS
    <3>4. IsEarliest(c, d, n + 1, n + 1)
      BY <2>2, <3>2, <3>3 DEF IsEarliest, x
    <3> QED BY <1>4, <2>2, <3>4 DEF FoundAmong, x
  <2>3. CASE ~ (x.date = d /\ ~ (e.time < x.time))
    <3>1. ASSUME NEW k \in 1 .. n + 1, c[k].event.date = d
          PROVE  e.time <= c[k].event.time /\ (k > j => e.time < c[k].event.time)
      <4>1. CASE k = n + 1
        <5>1. e.time < x.time
          BY <2>3, <3>1, <4>1 DEF x
        <5>2. e.time <= x.time
          BY <1>2, <2>1, <5>1
        <5> QED BY <4>1, <5>1, <5>2 DEF x
      <4>2. CASE k # n + 1
        <5>1. k \in 1 .. n
          BY <4>2
        <5> QED BY <2>1, <3>1, <5>1
      <4> QED BY <4>1, <4>2
    <3>2. j \in 1 .. n + 1
      BY <2>1
    <3>3. IsEarliest(c, d, n + 1, j)
      BY <1>6, <2>1, <3>1, <3>2 DEF IsEarliest
    <3> QED BY <1>4, <1>6, <2>3, <3>3 DEF FoundAmong
  <2> QED BY <2>2, <2>3
<1> QED BY <1>5, <1>6 DEF FoundAmong, f

\* The search finds the earliest event of a date that has one.
LEMMA EarliestFound ==
  ASSUME NEW S, NEW c \in Seq(S), NEW d, Keyed(c), Find(c, d) # 0
  PROVE  \E j : IsEarliest(c, d, Len(c), j) /\ searchEarliestEventByDate(c, d) = c[j].event
<1>1. PICK g : searchEarliestEventByDate(c, d) = g[1 .. Len(c)] /\ Searches(g, c, d, Len(c))
  BY FoldSearches
<1>2. Len(c) \in Nat
  BY LenProperties
<1> DEFINE T == {n \in Nat : n <= Len(c) => FoundAmong(c, d, n, g[1 .. n])}
<1>3. 0 \in T
  <2>1. 1 .. 0 = {} /\ {} \in SUBSET (1 .. Len(c)) /\ \A k \in 1 .. 0 : FALSE
    OBVIOUS
  <2>2. g[1 .. 0] = c[Find(c, d)].event
    BY <1>1, <2>1 DEF Searches, Searched
  <2> QED BY <2>1, <2>2 DEF FoundAmong
<1>4. ASSUME NEW n \in Nat, n \in T PROVE n + 1 \in T
  <2> SUFFICES ASSUME n + 1 <= Len(c) PROVE FoundAmong(c, d, n + 1, g[1 .. n + 1])
    OBVIOUS
  <2>1. n <= Len(c)
    BY <1>2
  <2>2. /\ 1 .. n + 1 \in SUBSET (1 .. Len(c)) /\ 1 .. n + 1 # {} /\ n + 1 \in 1 .. n + 1
        /\ (1 .. n + 1) \ {n + 1} = 1 .. n
    BY <1>2
  <2>3. Max(1 .. n + 1) = n + 1
    BY <2>2, LastPlace
  <2>4. g[1 .. n + 1] = Picked(d, g[1 .. n], c[n + 1])
    BY <1>1, <2>2, <2>3 DEF Searches, Searched
  <2>5. FoundAmong(c, d, n, g[1 .. n])
    BY <1>4, <2>1
  <2> QED BY <2>4, <2>5, FoundNext
<1>5. Len(c) \in T
  <2>1. \A n \in Nat : n \in T
    <3> HIDE DEF T
    <3> QED BY <1>3, <1>4, Induction
  <2> QED BY <1>2, <2>1
<1>6. FoundAmong(c, d, Len(c), g[1 .. Len(c)])
  BY <1>2, <1>5
<1>7. Find(c, d) \in 1 .. Len(c) /\ c[Find(c, d)].event.date = d
  BY FindFirst DEF Keyed
<1> QED BY <1>1, <1>6, <1>7 DEF FoundAmong

-----------------------------------------------------------------------------
\* One entry more or less.

\* c is a without its p-th entry, where k-th of a has become the Back(p, k)-th.
Lacks(c, a, p) ==
  /\ p \in 1 .. Len(a) /\ Len(a) = Len(c) + 1
  /\ \A k \in 1 .. Len(c) : c[k] = a[IF k < p THEN k ELSE k + 1]

Back(p, k) == IF k < p THEN k ELSE k - 1

\* The first n entries, and those after them.
LEMMA FirstPart ==
  ASSUME NEW S, NEW c \in Seq(S), NEW n \in 0 .. Len(c)
  PROVE  LET s == SubSeq(c, 1, n) IN
         s \in Seq(S) /\ Len(s) = n /\ \A i \in 1 .. n : s[i] = c[i]
<1> DEFINE s == SubSeq(c, 1, n)
<1>1. Len(c) \in Nat /\ n \in Nat /\ n \in Int /\ 1 \in Int
  BY LenProperties
<1>2. \A i \in 1 .. n : i \in 1 .. Len(c)
  BY <1>1
<1>3. \A i \in 1 .. n : c[i] \in S
  BY <1>2, ElementOfSeq
<1>4. /\ s \in Seq(S) /\ Len(s) = IF 1 <= n THEN n - 1 + 1 ELSE 0
      /\ \A i \in 1 .. n - 1 + 1 : s[i] = c[1 + i - 1]
  BY <1>1, <1>3, SubSeqProperties
<1> HIDE DEF s
<1>5. Len(s) = n
  BY <1>1, <1>4
<1>6. ASSUME NEW i \in 1 .. n PROVE s[i] = c[i]
  <2>1. i \in 1 .. n - 1 + 1 /\ 1 + i - 1 = i
    BY <1>1
  <2> QED BY <1>4, <2>1
<1> QED BY <1>4, <1>5, <1>6 DEF s

LEMMA LastPart ==
  ASSUME NEW S, NEW c \in Seq(S), NEW n \in 0 .. Len(c)
  PROVE  LET s == SubSeq(c, n + 1, Len(c)) IN
         s \in Seq(S) /\ Len(s) = Len(c) - n /\ \A i \in 1 .. Len(c) - n : s[i] = c[n + i]
<1> DEFINE s == SubSeq(c, n + 1, Len(c))
<1>1. Len(c) \in Nat /\ n \in Nat /\ n + 1 \in Int /\ Len(c) \in Int
  BY LenProperties
<1>2. \A i \in n + 1 .. Len(c) : i \in 1 .. Len(c)
  BY <1>1
<1>3. \A i \in n + 1 .. Len(c) : c[i] \in S
  BY <1>2, ElementOfSeq
<1>4. /\ s \in Seq(S)
      /\ Len(s) = IF n + 1 <= Len(c) THEN Len(c) - (n + 1) + 1 ELSE 0
      /\ \A i \in 1 .. Len(c) - (n + 1) + 1 : s[i] = c[n + 1 + i - 1]
  BY <1>1, <1>3, SubSeqProperties
<1> HIDE DEF s
<1>5. Len(s) = Len(c) - n
  <2>1. n <= Len(c)
    OBVIOUS
  <2>2. CASE n + 1 <= Len(c)
    BY <1>1, <1>4, <2>2
  <2>3. CASE ~ (n + 1 <= Len(c))
    <3>1. Len(s) = 0
      BY <1>4, <2>3
    <3>2. Len(c) - n = 0
      BY <1>1, <2>1, <2>3
    <3> QED BY <3>1, <3>2
  <2> QED BY <2>2, <2>3
<1>6. ASSUME NEW i \in 1 .. Len(c) - n PROVE s[i] = c[n + i]
  <2>1. i \in 1 .. Len(c) - (n + 1) + 1 /\ n + 1 + i - 1 = n + i
    BY <1>1
  <2> QED BY <1>4, <2>1
<1> QED BY <1>4, <1>5, <1>6 DEF s

\* Two sequences joined.
LEMMA Joined ==
  ASSUME NEW S, NEW s \in Seq(S), NEW t \in Seq(S), NEW k, k = Len(s), NEW l, l = Len(t)
  PROVE  /\ s \o t \in Seq(S) /\ Len(s \o t) = k + l
         /\ \A i \in 1 .. k : (s \o t)[i] = s[i]
         /\ \A i \in 1 .. l : (s \o t)[k + i] = t[i]
<1> DEFINE u == s \o t
<1>1. k \in Nat /\ l \in Nat
  BY LenProperties
<1>2. /\ u \in Seq(S) /\ Len(u) = k + l
      /\ \A i \in 1 .. k + l : u[i] = IF i <= k THEN s[i] ELSE t[i - k]
  BY ConcatProperties
<1> HIDE DEF u
<1>3. ASSUME NEW i \in 1 .. k PROVE u[i] = s[i]
  <2>1. i \in 1 .. k + l /\ i <= k
    BY <1>1
  <2> QED BY <1>2, <2>1
<1>4. ASSUME NEW i \in 1 .. l PROVE u[k + i] = t[i]
  <2>1. k + i \in 1 .. k + l /\ ~ (k + i <= k) /\ k + i - k = i
    BY <1>1
  <2> QED BY <1>2, <2>1
<1> QED BY <1>2, <1>3, <1>4 DEF u

LEMMA EmplaceLacks ==
  ASSUME NEW S, NEW c \in Seq(S), NEW e, [key |-> e.date, event |-> e] \in S
  PROVE  LET a == Emplace(c, e) IN
         \E p : Lacks(c, a, p) /\ a[p] = [key |-> e.date, event |-> e]
<1> DEFINE x == [key |-> e.date, event |-> e]
           n == Cardinality({i \in DOMAIN c : c[i].key <= e.date})
           l == SubSeq(c, 1, n)
           r == SubSeq(c, n + 1, Len(c))
           m == l \o <<x>>
           a == m \o r
<1>1. n \in 0 .. Len(c) /\ Len(c) \in Nat
  BY Before, LenProperties
<1> HIDE DEF n, x
<1>2. Emplace(c, e) = a
  <2>1. (1 + n) - 1 = n /\ 1 + n = n + 1
    BY <1>1
  <2>2. Emplace(c, e) = SubSeq(c, 1, (1 + n) - 1) \o <<x>> \o SubSeq(c, 1 + n, Len(c))
    BY DEF Emplace, InsertAt, n, x
  <2> QED BY <2>1, <2>2
<1>3. l \in Seq(S) /\ Len(l) = n /\ \A i \in 1 .. n : l[i] = c[i]
  BY <1>1, FirstPart
<1>4. r \in Seq(S) /\ Len(r) = Len(c) - n /\ \A i \in 1 .. Len(c) - n : r[i] = c[n + i]
  BY <1>1, LastPart
<1> HIDE DEF l, r
<1>5. <<x>> \in Seq(S) /\ Len(<<x>>) = 1 /\ <<x>>[1] = x
  BY DEF x
<1>6. /\ m \in Seq(S) /\ Len(m) = n + 1 /\ \A i \in 1 .. n : m[i] = l[i]
      /\ \A i \in 1 .. 1 : m[n + i] = <<x>>[i]
  BY <1>3, <1>5, Joined
<1> HIDE DEF m
<1>7. /\ Len(a) = n + 1 + (Len(c) - n) /\ \A i \in 1 .. n + 1 : a[i] = m[i]
      /\ \A i \in 1 .. Len(c) - n : a[n + 1 + i] = r[i]
  <2> DEFINE k == n + 1
             j == Len(c) - n
  <2>1. m \in Seq(S) /\ r \in Seq(S) /\ k = Len(m) /\ j = Len(r)
    BY <1>4, <1>6
  <2> HIDE DEF k, j
  <2>2. /\ Len(a) = k + j /\ \A i \in 1 .. k : a[i] = m[i]
        /\ \A i \in 1 .. j : a[k + i] = r[i]
    BY <2>1, Joined
  <2> QED BY <2>2 DEF k, j
<1> HIDE DEF a
<1>8. Len(a) = Len(c) + 1 /\ n + 1 \in 1 .. n + 1 /\ n + 1 \in 1 .. Len(c) + 1 /\ 1 \in 1 .. 1
  BY <1>1, <1>7
<1>9. a[n + 1] = x
  BY <1>5, <1>6, <1>7, <1>8
<1>10. ASSUME NEW k \in 1 .. Len(c) PROVE c[k] = a[IF k < n + 1 THEN k ELSE k + 1]
  <2>1. CASE k < n + 1
    <3>1. k \in 1 .. n /\ k \in 1 .. n + 1
      BY <1>1, <2>1
    <3> QED BY <1>3, <1>6, <1>7, <2>1, <3>1
  <2>2. CASE ~ (k < n + 1)
    <3>1. k - n \in 1 .. Len(c) - n /\ n + 1 + (k - n) = k + 1 /\ n + (k - n) = k
      BY <1>1, <2>2
    <3>2. a[n + 1 + (k - n)] = r[k - n] /\ r[k - n] = c[n + (k - n)]
      BY <1>4, <1>7, <3>1
    <3> QED BY <2>2, <3>1, <3>2
  <2> QED BY <2>1, <2>2
<1>11. Lacks(c, a, n + 1)
  BY <1>8, <1>10 DEF Lacks
<1> QED BY <1>2, <1>9, <1>11 DEF x

LEMMA RemoveLacks ==
  ASSUME NEW S, NEW c \in Seq(S), NEW i \in 1 .. Len(c)
  PROVE  Lacks(RemoveAt(c, i), c, i)
<1> DEFINE l == SubSeq(c, 1, i - 1)
           r == SubSeq(c, i + 1, Len(c))
           a == l \o r
<1>1. /\ Len(c) \in Nat /\ i \in Nat /\ i \in 0 .. Len(c) /\ i - 1 \in 0 .. Len(c)
  BY LenProperties
<1>2. RemoveAt(c, i) = a
  BY DEF RemoveAt
<1>3. l \in Seq(S) /\ Len(l) = i - 1 /\ \A k \in 1 .. i - 1 : l[k] = c[k]
  <2> DEFINE n == i - 1
  <2>1. n \in 0 .. Len(c)
    BY <1>1
  <2> HIDE DEF n
  <2>2. LET s == SubSeq(c, 1, n) IN
        s \in Seq(S) /\ Len(s) = n /\ \A k \in 1 .. n : s[k] = c[k]
    BY <2>1, FirstPart
  <2> QED BY <2>2 DEF n
<1>4. r \in Seq(S) /\ Len(r) = Len(c) - i /\ \A k \in 1 .. Len(c) - i : r[k] = c[i + k]
  BY <1>1, LastPart
<1> HIDE DEF l, r
<1>5. /\ Len(a) = i - 1 + (Len(c) - i) /\ \A k \in 1 .. i - 1 : a[k] = l[k]
      /\ \A k \in 1 .. Len(c) - i : a[i - 1 + k] = r[k]
  <2> DEFINE n == i - 1
             m == Len(c) - i
  <2>1. l \in Seq(S) /\ r \in Seq(S) /\ n = Len(l) /\ m = Len(r)
    BY <1>3, <1>4
  <2> HIDE DEF n, m
  <2>2. /\ Len(a) = n + m /\ \A k \in 1 .. n : a[k] = l[k]
        /\ \A k \in 1 .. m : a[n + k] = r[k]
    BY <2>1, Joined
  <2> QED BY <2>2 DEF n, m
<1> HIDE DEF a
<1>6. Len(c) = Len(a) + 1
  BY <1>1, <1>5
<1>7. ASSUME NEW k \in 1 .. Len(a) PROVE a[k] = c[IF k < i THEN k ELSE k + 1]
  <2>1. CASE k < i
    <3>1. k \in 1 .. i - 1
      BY <1>1, <2>1
    <3> QED BY <1>3, <1>5, <2>1, <3>1
  <2>2. CASE ~ (k < i)
    <3>1. /\ k - (i - 1) \in 1 .. Len(c) - i /\ i + (k - (i - 1)) = k + 1
          /\ i - 1 + (k - (i - 1)) = k
      BY <1>1, <1>6, <2>2
    <3>2. a[k] = r[k - (i - 1)] /\ r[k - (i - 1)] = c[i + (k - (i - 1))]
      BY <1>4, <1>5, <3>1
    <3> QED BY <2>2, <3>1, <3>2
  <2> QED BY <2>1, <2>2
<1> QED BY <1>2, <1>6, <1>7 DEF Lacks

\* There is one at most.
LEMMA OneEarliest ==
  ASSUME NEW c, NEW d, NEW n \in Nat, n <= Len(c), Len(c) \in Nat, Keyed(c),
         NEW j, IsEarliest(c, d, n, j), NEW k, IsEarliest(c, d, n, k)
  PROVE  j = k
<1>1. /\ j \in 1 .. Len(c) /\ k \in 1 .. Len(c)
      /\ c[j].event.time \in Int /\ c[k].event.time \in Int
  BY DEF Keyed, IsEarliest
<1>2. /\ c[j].event.time <= c[k].event.time /\ c[k].event.time <= c[j].event.time
      /\ k > j => c[j].event.time < c[k].event.time
      /\ j > k => c[k].event.time < c[j].event.time
  BY DEF IsEarliest
<1>3. ~ (k > j) /\ ~ (j > k)
  BY <1>1, <1>2
<1> QED BY <1>1, <1>3

\* The earliest event is still there and still the earliest without another entry.
LEMMA EarliestLacks ==
  ASSUME NEW c, NEW a, NEW p, Len(c) \in Nat, Lacks(c, a, p), NEW d, NEW j,
         IsEarliest(a, d, Len(a), j), j # p
  PROVE  IsEarliest(c, d, Len(c), Back(p, j)) /\ c[Back(p, j)] = a[j]
<1> DEFINE b == Back(p, j)
<1>1. p \in 1 .. Len(c) + 1 /\ j \in 1 .. Len(c) + 1 /\ Len(a) = Len(c) + 1
  BY DEF Lacks, IsEarliest
<1>2. b \in 1 .. Len(c) /\ (IF b < p THEN b ELSE b + 1) = j
  BY <1>1 DEF Back
<1>3. c[b] = a[j]
  BY <1>2 DEF Lacks
<1>4. ASSUME NEW k \in 1 .. Len(c), c[k].event.date = d
      PROVE  /\ c[b].event.time <= c[k].event.time
             /\ k > b => c[b].event.time < c[k].event.time
  <2> DEFINE m == IF k < p THEN k ELSE k + 1
  <2>1. m \in 1 .. Len(a) /\ (k > b => m > j)
    BY <1>1, <1>2
  <2>2. c[k] = a[m]
    BY DEF Lacks
  <2> HIDE DEF m, b
  <2> QED BY <1>3, <1>4, <2>1, <2>2 DEF IsEarliest
<1>5. c[b].event.date = d
  BY <1>3 DEF IsEarliest
<1> HIDE DEF b
<1>6. IsEarliest(c, d, Len(c), b)
  BY <1>2, <1>4, <1>5 DEF IsEarliest
<1> QED BY <1>3, <1>6 DEF b

-----------------------------------------------------------------------------
\* What the lines printed tell of the calendar.

\* No entry of c is of date d.
Bare(c, d) == \A i \in 1 .. Len(c) : c[i].event.date # d

\* The last line of o for date d is l.
LastFor(o, d, l) ==
  \E n \in 1 .. Len(o) :
    o[n] = l /\ o[n].date = d /\ \A m \in 1 .. Len(o) : m > n => o[m].date # d

\* The last line for date d tells its earliest event, or that none is left.
Told(c, o, d) ==
  IF Bare(c, d)
    THEN (\A n \in 1 .. Len(o) : o[n].date # d) \/ LastFor(o, d, NotAvailable(d))
    ELSE \E j : IsEarliest(c, d, Len(c), j) /\ LastFor(o, d, Line(c[j].event))

\* The earliest event of date d is the same in both, if there is one.
Alike(c, a, d) ==
  \/ Bare(c, d) /\ Bare(a, d)
  \/ \E j, k : /\ IsEarliest(c, d, Len(c), j) /\ IsEarliest(a, d, Len(a), k)
               /\ c[j].event = a[k].event

\* Nothing is printed and nothing has to be.
LEMMA ToldStill ==
  ASSUME NEW c, NEW a, NEW o, NEW d, Len(c) \in Nat, Len(a) \in Nat, Keyed(c),
         Alike(c, a, d), Told(c, o, d)
  PROVE  Told(a, o, d)
<1>1. CASE Bare(c, d) /\ Bare(a, d)
  BY <1>1 DEF Told
<1>2. ASSUME NEW j, NEW k, IsEarliest(c, d, Len(c), j), IsEarliest(a, d, Len(a), k),
             c[j].event = a[k].event
      PROVE  Told(a, o, d)
  <2>1. ~ Bare(c, d) /\ ~ Bare(a, d)
    BY <1>2 DEF IsEarliest, Bare
  <2>2. PICK m : IsEarliest(c, d, Len(c), m) /\ LastFor(o, d, Line(c[m].event))
    BY <2>1 DEF Told
  <2>3. m = j
    BY <1>2, <2>2, OneEarliest
  <2> QED BY <1>2, <2>1, <2>2, <2>3 DEF Told
<1> QED BY <1>1, <1>2 DEF Alike

\* A line is printed.
LEMMA Printed ==
  ASSUME NEW L, NEW o \in Seq(L), NEW l \in L
  PROVE  LET q == o \o <<l>> IN
         /\ q \in Seq(L) /\ Len(q) = Len(o) + 1 /\ q[Len(o) + 1] = l
         /\ \A n \in 1 .. Len(o) : q[n] = o[n]
<1>1. <<l>> \in Seq(L) /\ Len(<<l>>) = 1 /\ <<l>>[1] = l
  OBVIOUS
<1> DEFINE q == o \o <<l>>
           n == Len(o)
<1>2. n = Len(o) /\ n \in Nat
  BY LenProperties
<1> HIDE DEF n
<1>3. /\ q \in Seq(L) /\ Len(q) = n + 1 /\ \A i \in 1 .. n : q[i] = o[i]
      /\ \A i \in 1 .. 1 : q[n + i] = <<l>>[i]
  BY <1>1, <1>2, Joined
<1> HIDE DEF q
<1>4. 1 \in 1 .. 1
  OBVIOUS
<1>5. q[n + 1] = l
  BY <1>1, <1>3, <1>4
<1> QED BY <1>3, <1>5 DEF q, n

LEMMA PrintedOther ==
  ASSUME NEW L, NEW o \in Seq(L), NEW l \in L, NEW c, NEW d, l.date # d, Told(c, o, d)
  PROVE  Told(c, o \o <<l>>, d)
<1> DEFINE q == o \o <<l>>
           n == Len(o)
<1>1. /\ Len(q) = n + 1 /\ q[n + 1] = l /\ n \in Nat
      /\ \A i \in 1 .. n : q[i] = o[i]
  BY Printed, LenProperties
<1> HIDE DEF q
<1>2. ASSUME NEW x, LastFor(o, d, x) PROVE LastFor(q, d, x)
  <2>1. PICK k \in 1 .. n : o[k] = x /\ o[k].date = d /\ \A m \in 1 .. n : m > k => o[m].date # d
    BY <1>2 DEF LastFor
  <2>2. k \in 1 .. n + 1 /\ q[k] = x /\ q[k].date = d
    BY <1>1, <2>1
  <2>3. ASSUME NEW m \in 1 .. n + 1, m > k PROVE q[m].date # d
    <3>1. CASE m = n + 1
      BY <1>1, <3>1
    <3>2. CASE m # n + 1
      <4>1. m \in 1 .. n
        BY <1>1, <3>2
      <4>2. q[m] = o[m] /\ o[m].date # d
        BY <1>1, <2>1, <2>3, <4>1
      <4> QED BY <4>2
    <3> QED BY <3>1, <3>2
  <2> HIDE DEF n
  <2> QED BY <1>1, <2>2, <2>3 DEF LastFor
<1>3. ASSUME \A k \in 1 .. n : o[k].date # d PROVE \A k \in 1 .. Len(q) : q[k].date # d
  <2> SUFFICES ASSUME NEW k \in 1 .. n + 1 PROVE q[k].date # d
    BY <1>1
  <2>1. CASE k = n + 1
    BY <1>1, <2>1
  <2>2. CASE k # n + 1
    <3>1. k \in 1 .. n
      BY <1>1, <2>2
    <3> QED BY <1>1, <1>3, <3>1
  <2> QED BY <2>1, <2>2
<1>4. CASE Bare(c, d)
  BY <1>2, <1>3, <1>4 DEF Told, q
<1>5. CASE ~ Bare(c, d)
  BY <1>2, <1>5 DEF Told, q
<1> QED BY <1>4, <1>5

LEMMA PrintedLast ==
  ASSUME NEW L, NEW o \in Seq(L), NEW l \in L
  PROVE  LastFor(o \o <<l>>, l.date, l)
<1> DEFINE q == o \o <<l>>
           n == Len(o)
<1>1. Len(q) = n + 1 /\ q[n + 1] = l /\ n \in Nat
  BY Printed, LenProperties
<1> HIDE DEF q, n
<1>2. n + 1 \in 1 .. n + 1 /\ \A m \in 1 .. n + 1 : ~ (m > n + 1)
  BY <1>1
<1> QED BY <1>1, <1>2 DEF LastFor, q

\* What is printed is the earliest event, or that there is none.
LEMMA ToldNow ==
  ASSUME NEW L, NEW o \in Seq(L), NEW c, NEW d, NEW l \in L, l.date = d,
         \/ Bare(c, d) /\ l = NotAvailable(d)
         \/ ~ Bare(c, d) /\ \E j : IsEarliest(c, d, Len(c), j) /\ l = Line(c[j].event)
  PROVE  Told(c, o \o <<l>>, d)
<1>1. LastFor(o \o <<l>>, d, l)
  BY PrintedLast
<1> QED BY <1>1 DEF Told

\* With every entry filed under the date of its event, the search for a date tells
\* whether there is one.
LEMMA FindBare ==
  ASSUME NEW S, NEW c \in Seq(S), NEW d, Keyed(c)
  PROVE  Find(c, d) = 0 <=> Bare(c, d)
BY FindFinds DEF Keyed, Bare

\* A calendar without one of its entries.
LEMMA AlikeWithout ==
  ASSUME NEW S, NEW c \in Seq(S), NEW a \in Seq(S), Keyed(c), Keyed(a), NEW p,
         Lacks(c, a, p), NEW d,
         \A j : IsEarliest(a, d, Len(a), j) => j # p
  PROVE  Alike(c, a, d) /\ Alike(a, c, d)
<1>1. Len(c) \in Nat /\ Len(a) \in Nat
  BY LenProperties
<1>2. CASE Bare(a, d)
  <2>1. ASSUME NEW k \in 1 .. Len(c) PROVE c[k].event.date # d
    <3> DEFINE m == IF k < p THEN k ELSE k + 1
    <3>1. m \in 1 .. Len(a) /\ c[k] = a[m]
      BY <1>1 DEF Lacks
    <3> QED BY <1>2, <3>1 DEF Bare
  <2>2. Bare(c, d)
    BY <2>1 DEF Bare
  <2> QED BY <1>2, <2>2 DEF Alike
<1>3. CASE ~ Bare(a, d)
  <2>1. Find(a, d) # 0
    BY <1>3, FindBare
  <2>2. PICK j : IsEarliest(a, d, Len(a), j)
    BY <2>1, EarliestFound
  <2>3. IsEarliest(c, d, Len(c), Back(p, j)) /\ c[Back(p, j)] = a[j]
    BY <1>1, <2>2, EarliestLacks
  <2> QED BY <2>2, <2>3 DEF Alike
<1> QED BY <1>2, <1>3

-----------------------------------------------------------------------------
\* The three actions and what they print.

\* The entries that e-mails make, the lines about them, and their dates.
Filings(E) == {[key |-> e.date, event |-> e] : e \in E}
Lines(E) == {Line(e) : e \in E} \union {NotAvailable(e.date) : e \in E}
Dates(E) == {e.date : e \in E}

LEMMA FilingsKeyed ==
  ASSUME NEW E, \A e \in E : e.time \in Int, NEW c \in Seq(Filings(E))
  PROVE  Keyed(c) /\ \A i \in 1 .. Len(c) : c[i].event \in E
<1>1. \A i \in 1 .. Len(c) : c[i] \in Filings(E)
  BY ElementOfSeq
<1> QED BY <1>1 DEF Filings, Keyed

\* After the effect f what was printed last is right for every date.
Tells(f, o, E) ==
  /\ o \o f.lines \in Seq(Lines(E))
  /\ \A d \in Dates(E) : Told(f.calendar, o \o f.lines, d)

LEMMA EffectLines ==
  \A c, l : Effect(c, l).lines = l /\ Effect(c, l).calendar = c
BY DEF Effect

LEMMA TellsNothing ==
  ASSUME NEW E, NEW o \in Seq(Lines(E)), NEW a, \A d \in Dates(E) : Told(a, o, d)
  PROVE  Tells(Effect(a, <<>>), o, E)
<1>1. o \o <<>> = o
  BY ConcatEmptySeq
<1> QED BY <1>1, EffectLines DEF Tells

LEMMA TellsLine ==
  ASSUME NEW E, NEW o \in Seq(Lines(E)), NEW a, NEW l \in Lines(E),
         \A d \in Dates(E) : d # l.date => Told(a, o, d),
         \/ Bare(a, l.date) /\ l = NotAvailable(l.date)
         \/ ~ Bare(a, l.date) /\ \E j : IsEarliest(a, l.date, Len(a), j) /\ l = Line(a[j].event)
  PROVE  Tells(Effect(a, <<l>>), o, E)
<1> DEFINE q == o \o <<l>>
<1>1. q \in Seq(Lines(E))
  BY Printed
<1>2. ASSUME NEW d \in Dates(E) PROVE Told(a, q, d)
  <2>1. CASE d = l.date
    BY <2>1, ToldNow
  <2>2. CASE d # l.date
    <3>1. Told(a, o, d)
      BY <2>2
    <3> QED BY <2>2, <3>1, PrintedOther
  <2> QED BY <2>1, <2>2
<1> HIDE DEF q
<1>3. Effect(a, <<l>>).lines = <<l>> /\ Effect(a, <<l>>).calendar = a
  BY EffectLines
<1> QED BY <1>1, <1>2, <1>3 DEF Tells, q

\* A new event is announced if it is the earliest.
LEMMA CreateTells ==
  ASSUME NEW E, \A e \in E : e.time \in Int, NEW c \in Seq(Filings(E)),
         NEW o \in Seq(Lines(E)), \A d \in Dates(E) : Told(c, o, d), NEW e \in E
  PROVE  Tells(CreateEvent(c, e), o, E)
<1> DEFINE S == Filings(E)
           x == [key |-> e.date, event |-> e]
           a == Emplace(c, e)
<1>1. x \in S
  BY DEF Filings
<1>2. a \in Seq(S)
  BY <1>1, EmplaceKeeps
<1>3. PICK p : Lacks(c, a, p) /\ a[p] = x
  BY <1>1, EmplaceLacks
<1>4. Keyed(c) /\ Keyed(a) /\ Len(c) \in Nat /\ Len(a) \in Nat
  BY <1>2, FilingsKeyed, LenProperties
<1>5. p \in 1 .. Len(a) /\ a[p].event = e
  BY <1>3 DEF Lacks
<1>6. CreateEvent(c, e) =
        Effect(a, IF Find(c, e.date) = 0 \/ searchEarliestEventByDate(a, e.date) = e
                    THEN <<Line(e)>> ELSE <<>>)
  BY DEF CreateEvent
<1> HIDE DEF S, a, x
<1>7. ASSUME NEW d \in Dates(E), \A j : IsEarliest(a, d, Len(a), j) => j # p
      PROVE  Told(a, o, d)
  <2>1. Alike(c, a, d)
    BY <1>2, <1>3, <1>4, <1>7, AlikeWithout DEF S
  <2>2. Told(c, o, d)
    OBVIOUS
  <2> QED BY <1>4, <2>1, <2>2, ToldStill
<1>8. ASSUME NEW d \in Dates(E), d # e.date PROVE Told(a, o, d)
  <2>1. \A j : IsEarliest(a, d, Len(a), j) => j # p
    BY <1>5, <1>8 DEF IsEarliest
  <2> QED BY <1>7, <2>1
<1>9. ~ Bare(a, e.date) /\ Find(a, e.date) # 0
  <2>1. ~ Bare(a, e.date)
    BY <1>5 DEF Bare
  <2> QED BY <1>2, <1>4, <2>1, FindBare
<1>10. PICK j : /\ IsEarliest(a, e.date, Len(a), j)
                /\ searchEarliestEventByDate(a, e.date) = a[j].event
  BY <1>2, <1>4, <1>9, EarliestFound
<1>11. CASE Find(c, e.date) = 0 \/ searchEarliestEventByDate(a, e.date) = e
  <2>1. a[j].event = e
    <3>1. CASE searchEarliestEventByDate(a, e.date) = e
      BY <1>10, <3>1
    <3>2. CASE Find(c, e.date) = 0
      <4>1. Bare(c, e.date)
        BY <1>4, <3>2, FindBare
      <4>2. ASSUME j # p PROVE FALSE
        <5>1. IsEarliest(c, e.date, Len(c), Back(p, j))
          BY <1>3, <1>4, <1>10, <4>2, EarliestLacks
        <5> QED BY <4>1, <5>1 DEF IsEarliest, Bare
      <4> QED BY <1>5, <4>2
    <3> QED BY <1>11, <3>1, <3>2
  <2> DEFINE l == Line(e)
  <2>2. l \in Lines(E) /\ l.date = e.date
    BY DEF Lines, Line
  <2>3. l = Line(a[j].event)
    BY <2>1
  <2> HIDE DEF l
  <2>4. Tells(Effect(a, <<l>>), o, E)
    BY <1>8, <1>9, <1>10, <2>2, <2>3, TellsLine
  <2> QED BY <1>6, <1>11, <2>4 DEF l
<1>12. CASE ~ (Find(c, e.date) = 0 \/ searchEarliestEventByDate(a, e.date) = e)
  <2>1. j # p
    BY <1>5, <1>10, <1>12
  <2>2. \A k : IsEarliest(a, e.date, Len(a), k) => k # p
    <3> SUFFICES ASSUME NEW k, IsEarliest(a, e.date, Len(a), k) PROVE k # p
      OBVIOUS
    <3>1. Len(a) <= Len(a)
      BY <1>4
    <3>2. k = j
      BY <1>4, <1>10, <3>1, OneEarliest
    <3> QED BY <2>1, <3>2
  <2>3. \A d \in Dates(E) : Told(a, o, d)
    BY <1>7, <1>8, <2>2
  <2>4. Tells(Effect(a, <<>>), o, E)
    BY <2>3, TellsNothing
  <2> QED BY <1>6, <1>12, <2>4
<1> QED BY <1>11, <1>12

\* An event changed is announced if it is the earliest.
LEMMA EditTells ==
  ASSUME NEW E, \A e \in E : e.time \in Int, NEW c \in Seq(Filings(E)),
         NEW o \in Seq(Lines(E)), \A d \in Dates(E) : Told(c, o, d), NEW e \in E,
         \A i \in 1 .. Len(c) :
           c[i].event.title = e.title
             => c[i].event.date = e.date /\ c[i].event.time = e.time
  PROVE  Tells(EditEvent(c, e), o, E)
<1> DEFINE i == SearchEventByTitle(c, e.title)
           a == [c EXCEPT ![i].event = e]
           x == [key |-> e.date, event |-> e]
<1>1. CASE i = 0
  <2>1. EditEvent(c, e) = Effect(c, <<>>)
    BY <1>1 DEF EditEvent
  <2> QED BY <2>1, TellsNothing
<1>2. CASE i # 0
  <2>1. i \in 1 .. Len(c) /\ c[i].event.title = e.title
    BY <1>2, TitleFinds
  <2>2. /\ c[i].event.date = e.date /\ c[i].event.time = e.time
        /\ \A k \in 1 .. Len(c) : c[k] \in Filings(E)
    BY <2>1, ElementOfSeq
  <2>3. Keyed(c) /\ Len(c) \in Nat
    BY FilingsKeyed, LenProperties
  <2>4. [c[i] EXCEPT !.event = e] = x
    <3>1. \E f \in E : c[i] = [key |-> f.date, event |-> f]
      BY <2>1, <2>2 DEF Filings
    <3> HIDE DEF i
    <3> QED BY <2>2, <3>1
  <2>5. a = [c EXCEPT ![i] = x]
    BY <2>4
  <2>6. EditEvent(c, e) = IF Find(a, e.date) = 0 THEN Undefined
                          ELSE Effect(a, IF searchEarliestEventByDate(a, e.date) = e
                                           THEN <<Line(e)>> ELSE <<>>)
    BY <1>2 DEF EditEvent
  <2>7. x \in Filings(E) /\ x.event = e
    BY DEF Filings
  <2> HIDE DEF i, a, x
  <2>8. /\ a \in Seq(Filings(E)) /\ Len(a) = Len(c)
        /\ \A k \in 1 .. Len(c) : a[k] = IF k = i THEN x ELSE c[k]
    BY <2>1, <2>5, <2>7, ExceptSeq
  <2>9. \A k \in 1 .. Len(c) : /\ a[k].event.date = c[k].event.date
                               /\ a[k].event.time = c[k].event.time
                               /\ k # i => a[k].event = c[k].event
    BY <2>2, <2>7, <2>8
  <2>10. Keyed(a)
    BY <2>8, FilingsKeyed
  <2>11. ASSUME NEW d PROVE /\ Bare(a, d) <=> Bare(c, d)
                            /\ \A j : IsEarliest(a, d, Len(a), j) <=> IsEarliest(c, d, Len(c), j)
    <3>1. Bare(a, d) <=> Bare(c, d)
      BY <2>8, <2>9 DEF Bare
    <3>2. ASSUME NEW j PROVE IsEarliest(a, d, Len(a), j) <=> IsEarliest(c, d, Len(c), j)
      BY <2>8, <2>9 DEF IsEarliest
    <3> QED BY <3>1, <3>2
  <2>12. ASSUME NEW d \in Dates(E), \A j : IsEarliest(a, d, Len(a), j) => j # i
         PROVE  Told(a, o, d)
    <3>1. Alike(c, a, d)
      <4>1. CASE Bare(a, d)
        BY <2>11, <4>1 DEF Alike
      <4>2. CASE ~ Bare(a, d)
        <5>1. Find(a, d) # 0
          BY <2>8, <2>10, <4>2, FindBare
        <5>2. PICK j : IsEarliest(a, d, Len(a), j)
          BY <2>8, <2>10, <5>1, EarliestFound
        <5>3. IsEarliest(c, d, Len(c), j) /\ j # i
          BY <2>11, <2>12, <5>2
        <5>4. j \in 1 .. Len(c)
          BY <5>3 DEF IsEarliest
        <5>5. c[j].event = a[j].event
          BY <2>9, <5>3, <5>4
        <5> QED BY <5>2, <5>3, <5>5 DEF Alike
      <4> QED BY <4>1, <4>2
    <3>2. Told(c, o, d)
      OBVIOUS
    <3> QED BY <2>3, <2>8, <3>1, <3>2, ToldStill
  <2>13. ASSUME NEW d \in Dates(E), d # e.date PROVE Told(a, o, d)
    <3>1. \A j : IsEarliest(a, d, Len(a), j) => j # i
      BY <2>1, <2>2, <2>9, <2>13 DEF IsEarliest
    <3> QED BY <2>12, <3>1
  <2>14. ~ Bare(a, e.date) /\ Find(a, e.date) # 0
    <3>1. ~ Bare(a, e.date)
      BY <2>1, <2>2, <2>11 DEF Bare
    <3> QED BY <2>8, <2>10, <3>1, FindBare
  <2>15. PICK j : /\ IsEarliest(a, e.date, Len(a), j)
                  /\ searchEarliestEventByDate(a, e.date) = a[j].event
    BY <2>8, <2>10, <2>14, EarliestFound
  <2>16. CASE searchEarliestEventByDate(a, e.date) = e
    <3> DEFINE l == Line(e)
    <3>1. l \in Lines(E) /\ l.date = e.date
      BY DEF Lines, Line
    <3>2. l = Line(a[j].event)
      BY <2>15, <2>16
    <3> HIDE DEF l
    <3>3. Tells(Effect(a, <<l>>), o, E)
      BY <2>13, <2>14, <2>15, <3>1, <3>2, TellsLine
    <3> QED BY <2>6, <2>14, <2>16, <3>3 DEF l
  <2>17. CASE searchEarliestEventByDate(a, e.date) # e
    <3>1. j # i
      BY <2>1, <2>7, <2>8, <2>15, <2>17
    <3>2. \A k : IsEarliest(a, e.date, Len(a), k) => k # i
      <4> SUFFICES ASSUME NEW k, IsEarliest(a, e.date, Len(a), k) PROVE k # i
        OBVIOUS
      <4>1. Len(a) <= Len(a) /\ Len(a) \in Nat
        BY <2>3, <2>8
      <4>2. k = j
        BY <2>10, <2>15, <4>1, OneEarliest
      <4> QED BY <3>1, <4>2
    <3>3. \A d \in Dates(E) : Told(a, o, d)
      BY <2>12, <2>13, <3>2
    <3>4. Tells(Effect(a, <<>>), o, E)
      BY <3>3, TellsNothing
    <3> QED BY <2>6, <2>14, <2>17, <3>4
  <2> QED BY <2>16, <2>17
<1> QED BY <1>1, <1>2

\* What follows the earliest event is announced if that is deleted.
LEMMA DeleteTells ==
  ASSUME NEW E, \A e \in E : e.time \in Int, NEW c \in Seq(Filings(E)),
         NEW o \in Seq(Lines(E)), \A d \in Dates(E) : Told(c, o, d), NEW e \in E,
         DeleteEvent(c, e, TRUE).defined
  PROVE  Tells(DeleteEvent(c, e, TRUE), o, E)
<1> DEFINE S == Filings(E)
           i == searchEventByDateTitleTime(c, e)
           a == RemoveAt(c, i)
           d == e.date
           first == searchEarliestEventByDate(c, d)
<1>1. i # 0 /\ Find(c, d) # 0
  <2>1. CASE i = 0 \/ Find(c, d) = 0
    <3>1. DeleteEvent(c, e, TRUE) = Undefined
      BY <2>1 DEF DeleteEvent
    <3> QED BY <3>1, Effects
  <2> QED BY <2>1
<1>2. i \in 1 .. Len(c) /\ c[i].event.date = d
  BY <1>1, EventFinds
<1>3. DeleteEvent(c, e, TRUE) =
        Effect(a, IF first = c[i].event THEN NextEarliest(a, d)
                  ELSE IF Find(a, d) = 0 THEN <<NotAvailable(d)>> ELSE <<>>)
  BY <1>1 DEF DeleteEvent, SearchFails
<1> HIDE DEF i
<1>4. a \in Seq(S) /\ Lacks(a, c, i)
  BY <1>2, RemoveKeeps, RemoveLacks
<1>5. Keyed(c) /\ Keyed(a) /\ Len(c) \in Nat /\ Len(a) \in Nat
  BY <1>4, FilingsKeyed, LenProperties
<1>6. PICK j : IsEarliest(c, d, Len(c), j) /\ first = c[j].event
  BY <1>1, <1>5, EarliestFound
<1> HIDE DEF a, first, S
<1>7. ASSUME NEW b \in Dates(E), \A k : IsEarliest(c, b, Len(c), k) => k # i
      PROVE  Told(a, o, b)
  <2>1. Alike(c, a, b)
    BY <1>4, <1>5, <1>7, AlikeWithout DEF S
  <2>2. Told(c, o, b)
    OBVIOUS
  <2> QED BY <1>5, <2>1, <2>2, ToldStill
<1>8. ASSUME NEW b \in Dates(E), b # d PROVE Told(a, o, b)
  <2>1. \A k : IsEarliest(c, b, Len(c), k) => k # i
    BY <1>2, <1>8 DEF IsEarliest
  <2> QED BY <1>7, <2>1
<1>9. CASE first = c[i].event
  <2>1. CASE Find(a, d) = 0
    <3> DEFINE l == NotAvailable(d)
    <3>1. l \in Lines(E) /\ l.date = d
      BY DEF Lines, NotAvailable
    <3>2. Bare(a, d) /\ l = NotAvailable(l.date)
      BY <1>4, <1>5, <2>1, <3>1, FindBare
    <3>3. NextEarliest(a, d) = <<l>>
      BY <2>1 DEF NextEarliest
    <3> HIDE DEF l
    <3>4. Tells(Effect(a, <<l>>), o, E)
      BY <1>8, <3>1, <3>2, TellsLine
    <3> QED BY <1>3, <1>9, <3>3, <3>4
  <2>2. CASE Find(a, d) # 0
    <3>1. PICK k : IsEarliest(a, d, Len(a), k) /\ searchEarliestEventByDate(a, d) = a[k].event
      BY <1>4, <1>5, <2>2, EarliestFound
    <3> DEFINE l == Line(a[k].event)
    <3>2. k \in 1 .. Len(a) /\ a[k].event \in E /\ a[k].event.date = d
      BY <1>4, <3>1, FilingsKeyed DEF IsEarliest, S
    <3>3. l \in Lines(E) /\ l.date = d
      BY <3>2 DEF Lines, Line
    <3>4. ~ Bare(a, d)
      BY <3>2 DEF Bare
    <3>5. NextEarliest(a, d) = <<l>>
      BY <2>2, <3>1 DEF NextEarliest
    <3>6. \E m : IsEarliest(a, d, Len(a), m) /\ l = Line(a[m].event)
      BY <3>1
    <3> HIDE DEF l
    <3>7. Tells(Effect(a, <<l>>), o, E)
      BY <1>8, <3>3, <3>4, <3>6, TellsLine
    <3> QED BY <1>3, <1>9, <3>5, <3>7
  <2> QED BY <2>1, <2>2
<1>10. CASE first # c[i].event
  <2>1. j # i
    BY <1>6, <1>10
  <2>2. \A k : IsEarliest(c, d, Len(c), k) => k # i
    <3> SUFFICES ASSUME NEW k, IsEarliest(c, d, Len(c), k) PROVE k # i
      OBVIOUS
    <3>1. Len(c) <= Len(c)
      BY <1>5
    <3>2. k = j
      BY <1>5, <1>6, <3>1, OneEarliest
    <3> QED BY <2>1, <3>2
  <2>3. \A b \in Dates(E) : Told(a, o, b)
    BY <1>7, <1>8, <2>2
  <2>4. IsEarliest(a, d, Len(a), Back(i, j))
    BY <1>4, <1>5, <1>6, <2>1, EarliestLacks
  <2>5. Find(a, d) # 0
    <3>1. ~ Bare(a, d)
      BY <2>4 DEF IsEarliest, Bare
    <3> QED BY <1>4, <1>5, <3>1, FindBare
  <2>6. Tells(Effect(a, <<>>), o, E)
    BY <2>3, TellsNothing
  <2> QED BY <1>3, <1>10, <2>5, <2>6
<1> QED BY <1>9, <1>10

\* However an e-mail is processed, each date's last line stays right, if an edit
\* changes neither the date nor the time of the event it finds.
LEMMA ProcessTells ==
  ASSUME NEW E, \A e \in E : e.time \in Int, NEW c \in Seq(Filings(E)),
         NEW o \in Seq(Lines(E)), \A d \in Dates(E) : Told(c, o, d), NEW e \in E,
         e.action = "X" =>
           \A i \in 1 .. Len(c) :
             c[i].event.title = e.title
               => c[i].event.date = e.date /\ c[i].event.time = e.time,
         processCalendar(c, e, TRUE).defined
  PROVE  Tells(processCalendar(c, e, TRUE), o, E)
<1>1. CASE e.action = "C"
  <2>1. Tells(CreateEvent(c, e), o, E)
    BY CreateTells
  <2> QED BY <1>1, <2>1 DEF processCalendar
<1>2. CASE e.action = "X"
  <2>1. Tells(EditEvent(c, e), o, E)
    BY <1>2, EditTells
  <2> QED BY <1>2, <2>1 DEF processCalendar
<1>3. CASE e.action = "D"
  <2>1. processCalendar(c, e, TRUE) = DeleteEvent(c, e, TRUE)
    BY <1>3 DEF processCalendar
  <2> QED BY <2>1, DeleteTells
<1>4. CASE e.action \notin {"C", "X", "D"}
  <2>1. processCalendar(c, e, TRUE) = Effect(c, <<>>)
    BY <1>4 DEF processCalendar
  <2> QED BY <2>1, TellsNothing
<1> QED BY <1>1, <1>2, <1>3, <1>4
-----------------------------------------------------------------------------
\* A set of numbers up to n has a greatest one.
LEMMA Largest ==
  ASSUME NEW n \in Nat, NEW s \in SUBSET (1 .. n), s # {}
  PROVE  Max(s) \in s
<1> DEFINE T == {n - k : k \in s}
<1>1. T \in SUBSET Nat /\ T # {}
  <2>1. \A k \in s : n - k \in Nat
    OBVIOUS
  <2>2. PICK k : k \in s
    OBVIOUS
  <2>3. n - k \in T
    BY <2>2
  <2> QED BY <2>1, <2>3
<1>2. Min(T) \in T /\ \A m \in T : Min(T) <= m
  <2> HIDE DEF T
  <2> QED BY <1>1, Smallest
<1>3. PICK k \in s : Min(T) = n - k
  BY <1>2
<1>4. ASSUME NEW y \in s PROVE k >= y
  <2>1. n - k <= n - y
    BY <1>2, <1>3
  <2> QED BY <2>1
<1> QED BY <1>4 DEF Max

-----------------------------------------------------------------------------
\* Folds of a sequence, as the library computes them.

\* g folds the places 1 .. n by F, starting from b.
FoldsBy(g, F, b, n) ==
  \A s \in SUBSET (1 .. n) : g[s] = IF s = {} THEN b ELSE F[Max(s)][g[s \ {Max(s)}]]

FoldSolvable(R, F, b, n) == \E g \in [SUBSET (1 .. n) -> R] : FoldsBy(g, F, b, n)

\* The recursion has a solution.
LEMMA FoldSolved ==
  ASSUME NEW R, NEW b \in R, NEW n \in Nat, NEW F \in [1 .. n -> [R -> R]]
  PROVE  FoldSolvable(R, F, b, n)
<1> DEFINE T == {m \in Nat : m <= n => FoldSolvable(R, F, b, m)}
<1>1. 0 \in T
  <2> DEFINE g == [s \in SUBSET (1 .. 0) |-> b]
  <2>1. \A s \in SUBSET (1 .. 0) : s = {} /\ g[s] = b
    OBVIOUS
  <2>2. g \in [SUBSET (1 .. 0) -> R]
    OBVIOUS
  <2> HIDE DEF g
  <2>3. FoldsBy(g, F, b, 0)
    BY <2>1 DEF FoldsBy
  <2> QED BY <2>2, <2>3 DEF FoldSolvable
<1>2. ASSUME NEW m \in Nat, m \in T PROVE m + 1 \in T
  <2> SUFFICES ASSUME m + 1 <= n
               PROVE  FoldSolvable(R, F, b, m + 1)
    OBVIOUS
  <2>1. PICK g \in [SUBSET (1 .. m) -> R] : FoldsBy(g, F, b, m)
    <3>1. m <= n
      OBVIOUS
    <3> QED BY <1>2, <3>1 DEF FoldSolvable
  <2> DEFINE h == [s \in SUBSET (1 .. m + 1) |->
                     IF m + 1 \in s THEN F[m + 1][g[s \ {m + 1}]] ELSE g[s]]
  <2>2. ASSUME NEW s \in SUBSET (1 .. m) PROVE h[s] = g[s] /\ s \ {Max(s)} \in SUBSET (1 .. m)
    <3>1. s \in SUBSET (1 .. m + 1) /\ m + 1 \notin s
      OBVIOUS
    <3> QED BY <3>1
  <2>3. h \in [SUBSET (1 .. m + 1) -> R]
    <3>1. ASSUME NEW s \in SUBSET (1 .. m + 1) PROVE h[s] \in R
      <4>1. CASE m + 1 \in s
        <5>1. s \ {m + 1} \in SUBSET (1 .. m) /\ m + 1 \in 1 .. n
          OBVIOUS
        <5>2. g[s \ {m + 1}] \in R
          BY <5>1
        <5>3. h[s] = F[m + 1][g[s \ {m + 1}]]
          BY <4>1
        <5> HIDE DEF h
        <5> QED BY <5>1, <5>2, <5>3
      <4>2. CASE m + 1 \notin s
        <5>1. s \in SUBSET (1 .. m) /\ h[s] = g[s]
          BY <4>2
        <5> HIDE DEF h
        <5> QED BY <5>1
      <4> QED BY <4>1, <4>2
    <3>2. h = [s \in SUBSET (1 .. m + 1) |-> h[s]]
      OBVIOUS
    <3> HIDE DEF h
    <3> QED BY <3>1, <3>2
  <2>4. ASSUME NEW s \in SUBSET (1 .. m + 1)
        PROVE  h[s] = IF s = {} THEN b ELSE F[Max(s)][h[s \ {Max(s)}]]
    <3>1. CASE m + 1 \in s
      <4>1. Max(s) = m + 1
        BY <3>1, LastPlace
      <4>2. s \ {m + 1} \in SUBSET (1 .. m) /\ s # {}
        BY <3>1
      <4>3. h[s \ {m + 1}] = g[s \ {m + 1}]
        BY <2>2, <4>2
      <4>4. h[s] = F[m + 1][g[s \ {m + 1}]]
        BY <3>1
      <4> HIDE DEF h
      <4> QED BY <4>1, <4>2, <4>3, <4>4
    <3>2. CASE m + 1 \notin s
      <4>1. s \in SUBSET (1 .. m)
        BY <3>2
      <4>2. h[s] = g[s] /\ h[s \ {Max(s)}] = g[s \ {Max(s)}]
        BY <2>2, <4>1
      <4> HIDE DEF h
      <4> QED BY <2>1, <4>1, <4>2 DEF FoldsBy
    <3> QED BY <3>1, <3>2
  <2> HIDE DEF h
  <2>5. FoldsBy(h, F, b, m + 1)
    BY <2>4 DEF FoldsBy
  <2> QED BY <2>3, <2>5 DEF FoldSolvable
<1>3. \A m \in Nat : m \in T
  <2> HIDE DEF T
  <2> QED BY <1>1, <1>2, Induction
<1> QED BY <1>3

\* The places are taken one after the other.
LEMMA Interval ==
  ASSUME NEW n \in Nat, NEW m \in Nat, m + 1 <= n
  PROVE  /\ 1 .. m + 1 \in SUBSET (1 .. n) /\ 1 .. m + 1 # {}
         /\ (1 .. m + 1) \ {m + 1} = 1 .. m /\ Max(1 .. m + 1) = m + 1
<1>1. 1 .. m + 1 \in SUBSET (1 .. n) /\ 1 .. m + 1 # {} /\ m + 1 \in 1 .. m + 1
  OBVIOUS
<1>2. (1 .. m + 1) \ {m + 1} = 1 .. m
  OBVIOUS
<1>3. Max(1 .. m + 1) = m + 1
  BY <1>1, LastPlace
<1> QED BY <1>1, <1>2, <1>3

-----------------------------------------------------------------------------
\* The search of Assignment1 for the earliest event of a date.

\* One step of the search.
Sooner(d, earliest, e) ==
  IF e.date = d /\ isTimeEarlier(e.time, earliest.time) THEN e ELSE earliest

SoonerBy(h, list, d) ==
  h = [s \in SUBSET DOMAIN list |->
         IF s = {} THEN list[SearchDate(list, d)]
         ELSE Sooner(d, h[s \ {Max(s)}], list[Max(s)])]

\* g goes through the list from its front.
GoesThrough(g, list, d) ==
  /\ g[1 .. 0] = list[SearchDate(list, d)]
  /\ \A m \in Nat :
       m + 1 <= Len(list) => g[1 .. m + 1] = Sooner(d, g[1 .. m], list[m + 1])

LEMMA SoonerTakes ==
  ASSUME NEW E, NEW list \in Seq(E), NEW d, list[SearchDate(list, d)] \in E
  PROVE  /\ EarliestEvent(list, d) \in E
         /\ \E g : EarliestEvent(list, d) = g[1 .. Len(list)] /\ GoesThrough(g, list, d)
<1> DEFINE n == Len(list)
           b == list[SearchDate(list, d)]
           F == [k \in 1 .. n |-> [e \in E |-> Sooner(d, e, list[k])]]
           h == CHOOSE f : SoonerBy(f, list, d)
<1>1. n \in Nat /\ DOMAIN list = 1 .. n /\ \A k \in 1 .. n : list[k] \in E
  BY LenProperties, ElementOfSeq
<1>2. EarliestEvent(list, d) = h[DOMAIN list]
  BY DEF EarliestEvent, FoldLeft, MapThenFoldSet, SoonerBy, Sooner
<1>3. \A e \in E, k \in 1 .. n : F[k][e] = Sooner(d, e, list[k]) /\ Sooner(d, e, list[k]) \in E
  BY <1>1 DEF Sooner
<1>4. F \in [1 .. n -> [E -> E]]
  BY <1>1 DEF Sooner
<1> HIDE DEF F, n, h, b
<1>5. PICK g \in [SUBSET (1 .. n) -> E] : FoldsBy(g, F, b, n)
  <2>1. b \in E
    BY DEF b
  <2> QED BY <1>1, <1>4, <2>1, FoldSolved DEF FoldSolvable
<1>6. SoonerBy(g, list, d)
  <2>1. ASSUME NEW s \in SUBSET (1 .. n)
        PROVE  g[s] = IF s = {} THEN b ELSE Sooner(d, g[s \ {Max(s)}], list[Max(s)])
    <3>1. CASE s # {}
      <4>1. Max(s) \in 1 .. n
        <5>1. Max(s) \in s
          BY <1>1, <3>1, Largest
        <5> QED BY <5>1
      <4>2. g[s \ {Max(s)}] \in E
        OBVIOUS
      <4> QED BY <1>3, <1>5, <3>1, <4>1, <4>2 DEF FoldsBy
    <3> QED BY <1>5, <3>1 DEF FoldsBy
  <2> QED BY <1>1, <2>1 DEF SoonerBy, b
<1>7. SoonerBy(h, list, d)
  BY <1>6 DEF h
<1>8. h[1 .. 0] = b
  <2>1. 1 .. 0 = {} /\ {} \in SUBSET (1 .. n)
    OBVIOUS
  <2> QED BY <1>1, <1>7, <2>1 DEF SoonerBy, b
<1>9. ASSUME NEW m \in Nat, m + 1 <= n
      PROVE  h[1 .. m + 1] = Sooner(d, h[1 .. m], list[m + 1])
  <2> DEFINE s == 1 .. m + 1
  <2>1. s \in SUBSET (1 .. n) /\ s # {} /\ s \ {m + 1} = 1 .. m /\ Max(s) = m + 1
    BY <1>1, <1>9, Interval
  <2> HIDE DEF s
  <2>2. h[s] = Sooner(d, h[s \ {Max(s)}], list[Max(s)])
    BY <1>1, <1>7, <2>1 DEF SoonerBy
  <2> QED BY <2>1, <2>2 DEF s
<1>10. h[1 .. n] \in E
  <2> DEFINE T == {m \in Nat : m <= n => h[1 .. m] \in E}
  <2>1. 0 \in T
    BY <1>8 DEF b
  <2>2. ASSUME NEW m \in Nat, m \in T PROVE m + 1 \in T
    BY <1>1, <1>3, <1>9, <2>2
  <2>3. \A m \in Nat : m \in T
    <3> HIDE DEF T
    <3> QED BY <2>1, <2>2, Induction
  <2> QED BY <1>1, <2>3
<1>11. GoesThrough(h, list, d)
  BY <1>8, <1>9 DEF GoesThrough, n, b
<1> QED BY <1>1, <1>2, <1>10, <1>11 DEF n

\* Among the events of E the earlier has no greater minute.
MinutesAlike(E) ==
  \A e, f \in E : e.time < f.time => Minute(e.time) <= Minute(f.time)

\* Then the comparison of Assignment1 compares.
LEMMA Compared ==
  ASSUME NEW t \in Int, NEW u \in Int, t < u => Minute(t) <= Minute(u),
         u < t => Minute(u) <= Minute(t)
  PROVE  isTimeEarlier(t, u) <=> t < u
<1>1. /\ Hour(t) \in Int /\ Minute(t) \in Int /\ t = 60 * Hour(t) + Minute(t)
      /\ Minute(t) \in 0 .. 59
  BY DEF Hour, Minute
<1>2. /\ Hour(u) \in Int /\ Minute(u) \in Int /\ u = 60 * Hour(u) + Minute(u)
      /\ Minute(u) \in 0 .. 59
  BY DEF Hour, Minute
<1> QED BY <1>1, <1>2 DEF isTimeEarlier

\* The searches of Assignment1.
LEMMA DateFinds ==
  ASSUME NEW S, NEW list \in Seq(S), NEW d
  PROVE  LET i == SearchDate(list, d) IN
         /\ i = 0 => \A k \in 1 .. Len(list) : list[k].date # d
         /\ i # 0 => /\ i \in 1 .. Len(list) /\ list[i].date = d
                     /\ \A k \in 1 .. Len(list) : list[k].date = d => i <= k
<1> DEFINE I == {k \in 1 .. Len(list) : list[k].date = d}
           i == SearchDate(list, d)
<1>1. I \in SUBSET Nat /\ i = IF I # {} THEN Min(I) ELSE 0
  BY DEF SearchDate, SelectInSeq
<1>2. I # {} => i \in I /\ \A m \in I : i <= m
  <2> HIDE DEF I, i
  <2> QED BY <1>1, Smallest
<1>3. I = {} => i = 0
  BY <1>1
<1>4. 0 \notin I
  OBVIOUS
<1> HIDE DEF i
<1> QED BY <1>2, <1>3, <1>4 DEF i

LEMMA ListTitleFinds ==
  ASSUME NEW S, NEW list \in Seq(S), NEW t
  PROVE  LET i == SearchTitle(list, t) IN
         i # 0 => i \in 1 .. Len(list) /\ list[i].title = t
<1> DEFINE I == {k \in 1 .. Len(list) : list[k].title = t}
           i == SearchTitle(list, t)
<1>1. i = IF I # {} THEN Min(I) ELSE 0
  BY DEF SearchTitle, SelectInSeq
<1>2. Len(list) \in Nat /\ I \in SUBSET (1 .. Len(list))
  BY LenProperties
<1>3. i # 0 => i \in I
  <2> HIDE DEF i, I
  <2> QED BY <1>1, <1>2, FirstOf
<1> QED BY <1>3

LEMMA ListEventFinds ==
  ASSUME NEW S, NEW list \in Seq(S), NEW e
  PROVE  LET i == Search_EventByTitle_Date_Time(list, e) IN
         i # 0 => i \in 1 .. Len(list) /\ list[i].date = e.date
<1> DEFINE I == {k \in 1 .. Len(list) : /\ list[k].title = e.title
                                        /\ list[k].date = e.date
                                        /\ list[k].time = e.time}
           i == Search_EventByTitle_Date_Time(list, e)
<1>1. i = IF I # {} THEN Min(I) ELSE 0
  BY DEF Search_EventByTitle_Date_Time, SelectInSeq
<1>2. Len(list) \in Nat /\ I \in SUBSET (1 .. Len(list))
  BY LenProperties
<1>3. i # 0 => i \in I
  <2> HIDE DEF i, I
  <2> QED BY <1>1, <1>2, FirstOf
<1> QED BY <1>3

\* Among the first n events of the list, the j-th is the earliest of date d, the first
\* of them.
IsFirst(list, d, n, j) ==
  /\ j \in 1 .. n /\ list[j].date = d
  /\ \A k \in 1 .. n :
       list[k].date = d =>
         /\ list[j].time <= list[k].time
         /\ k < j => list[j].time < list[k].time

\* What the search has found among the first n events.
SoughtAmong(list, d, n, e) ==
  \/ e = list[SearchDate(list, d)] /\ \A k \in 1 .. n : list[k].date # d
  \/ \E j : IsFirst(list, d, n, j) /\ e = list[j]

LEMMA SoughtNext ==
  ASSUME NEW E, \A e \in E : e.time \in Int, MinutesAlike(E), NEW list \in Seq(E), NEW d,
         SearchDate(list, d) # 0, NEW n \in Nat, n + 1 <= Len(list),
         NEW e, SoughtAmong(list, d, n, e)
  PROVE  SoughtAmong(list, d, n + 1, Sooner(d, e, list[n + 1]))
<1> DEFINE x == list[n + 1]
           f == SearchDate(list, d)
<1>1. /\ Len(list) \in Nat /\ n + 1 \in 1 .. Len(list)
      /\ \A k \in 1 .. Len(list) : list[k] \in E /\ list[k].time \in Int
  BY LenProperties, ElementOfSeq
<1>2. /\ f \in 1 .. Len(list) /\ list[f].date = d
      /\ \A k \in 1 .. Len(list) : list[k].date = d => f <= k
  BY DateFinds
<1>3. Sooner(d, e, x) = IF x.date = d /\ isTimeEarlier(x.time, e.time) THEN x ELSE e
  BY DEF Sooner
<1>4. x \in E /\ x.time \in Int
  BY <1>1
<1> HIDE DEF x, f
<1>5. CASE e = list[f] /\ \A k \in 1 .. n : list[k].date # d
  <2>1. CASE x.date # d
    <3>1. \A k \in 1 .. n + 1 : list[k].date # d
      BY <1>5, <2>1 DEF x
    <3>2. Sooner(d, e, x) = e
      BY <1>3, <2>1
    <3> QED BY <1>5, <3>1, <3>2 DEF SoughtAmong, x, f
  <2>2. CASE x.date = d
    <3>1. f <= n + 1 /\ f > n
      BY <1>1, <1>2, <1>5, <2>2 DEF x
    <3>2. f = n + 1
      BY <1>1, <1>2, <3>1
    <3>3. Sooner(d, e, x) = x
      BY <1>3, <1>5, <3>2 DEF x
    <3>4. \A k \in 1 .. n + 1 : list[k].date = d => k = n + 1
      BY <1>5
    <3>5. n + 1 \in 1 .. n + 1 /\ x.time <= x.time
      BY <1>4
    <3>6. IsFirst(list, d, n + 1, n + 1)
      BY <2>2, <3>4, <3>5 DEF IsFirst, x
    <3> QED BY <3>3, <3>6 DEF SoughtAmong, x
  <2> QED BY <2>1, <2>2
<1>6. ASSUME NEW j, IsFirst(list, d, n, j), e = list[j]
      PROVE  SoughtAmong(list, d, n + 1, Sooner(d, e, x))
  <2>1. /\ j \in 1 .. n /\ e \in E /\ e.date = d /\ e.time \in Int
        /\ \A k \in 1 .. n : list[k].date = d =>
             /\ list[k].time \in Int /\ e.time <= list[k].time
             /\ k < j => e.time < list[k].time
    BY <1>1, <1>6 DEF IsFirst
  <2>2. isTimeEarlier(x.time, e.time) <=> x.time < e.time
    BY <1>4, <2>1, Compared DEF MinutesAlike
  <2>3. CASE x.date = d /\ x.time < e.time
    <3>1. ASSUME NEW k \in 1 .. n + 1, list[k].date = d
          PROVE  x.time <= list[k].time /\ (k < n + 1 => x.time < list[k].time)
      <4>1. CASE k = n + 1
        BY <1>4, <4>1 DEF x
      <4>2. CASE k # n + 1
        <5>1. k \in 1 .. n
          BY <4>2
        <5>2. list[k].time \in Int /\ e.time <= list[k].time
          BY <2>1, <3>1, <5>1
        <5> QED BY <1>4, <2>1, <2>3, <5>2
      <4> QED BY <4>1, <4>2
    <3>2. n + 1 \in 1 .. n + 1
      OBVIOUS
    <3>3. IsFirst(list, d, n + 1, n + 1)
      BY <2>3, <3>1, <3>2 DEF IsFirst, x
    <3>4. Sooner(d, e, x) = x
      BY <1>3, <2>2, <2>3
    <3> QED BY <3>3, <3>4 DEF SoughtAmong, x
  <2>4. CASE ~ (x.date = d /\ x.time < e.time)
    <3>1. ASSUME NEW k \in 1 .. n + 1, list[k].date = d
          PROVE  e.time <= list[k].time /\ (k < j => e.time < list[k].time)
      <4>1. CASE k = n + 1
        <5>1. e.time <= x.time
          BY <1>4, <2>1, <2>4, <3>1, <4>1 DEF x
        <5>2. ~ (k < j)
          BY <2>1, <4>1
        <5> QED BY <4>1, <5>1, <5>2 DEF x
      <4>2. CASE k # n + 1
        <5>1. k \in 1 .. n
          BY <4>2
        <5> QED BY <2>1, <3>1, <5>1
      <4> QED BY <4>1, <4>2
    <3>2. j \in 1 .. n + 1
      BY <2>1
    <3>3. IsFirst(list, d, n + 1, j)
      BY <1>6, <2>1, <3>1, <3>2 DEF IsFirst
    <3>4. Sooner(d, e, x) = e
      BY <1>3, <2>2, <2>4
    <3> QED BY <1>6, <3>3, <3>4 DEF SoughtAmong
  <2> QED BY <2>3, <2>4
<1> QED BY <1>5, <1>6 DEF SoughtAmong, f, x

\* The search finds the first of the earliest events of a date that has one.
LEMMA EarliestSought ==
  ASSUME NEW E, \A e \in E : e.time \in Int, MinutesAlike(E), NEW list \in Seq(E), NEW d,
         SearchDate(list, d) # 0
  PROVE  \E j : IsFirst(list, d, Len(list), j) /\ EarliestEvent(list, d) = list[j]
<1>1. /\ SearchDate(list, d) \in 1 .. Len(list) /\ list[SearchDate(list, d)].date = d
      /\ Len(list) \in Nat /\ list[SearchDate(list, d)] \in E
  <2>1. SearchDate(list, d) \in 1 .. Len(list) /\ list[SearchDate(list, d)].date = d
    BY DateFinds
  <2> QED BY <2>1, LenProperties, ElementOfSeq
<1>2. PICK g : EarliestEvent(list, d) = g[1 .. Len(list)] /\ GoesThrough(g, list, d)
  BY <1>1, SoonerTakes
<1> DEFINE T == {n \in Nat : n <= Len(list) => SoughtAmong(list, d, n, g[1 .. n])}
<1>3. 0 \in T
  <2>1. \A k \in 1 .. 0 : FALSE
    OBVIOUS
  <2> QED BY <1>2, <2>1 DEF SoughtAmong, GoesThrough
<1>4. ASSUME NEW n \in Nat, n \in T PROVE n + 1 \in T
  <2> SUFFICES ASSUME n + 1 <= Len(list) PROVE SoughtAmong(list, d, n + 1, g[1 .. n + 1])
    OBVIOUS
  <2>1. SoughtAmong(list, d, n, g[1 .. n])
    BY <1>1, <1>4
  <2>2. g[1 .. n + 1] = Sooner(d, g[1 .. n], list[n + 1])
    BY <1>2 DEF GoesThrough
  <2> QED BY <2>1, <2>2, SoughtNext
<1>5. Len(list) \in T
  <2>1. \A n \in Nat : n \in T
    <3> HIDE DEF T
    <3> QED BY <1>3, <1>4, Induction
  <2> QED BY <1>1, <2>1
<1>6. SoughtAmong(list, d, Len(list), g[1 .. Len(list)])
  BY <1>1, <1>5
<1> QED BY <1>1, <1>2, <1>6 DEF SoughtAmong
-----------------------------------------------------------------------------
\* The list of Assignment1 read backwards is a calendar of Assignment2.

Filing(e) == [key |-> e.date, event |-> e]
Backwards(list) == [i \in 1 .. Len(list) |-> Filing(list[Len(list) + 1 - i])]

LEMMA BackwardsIs ==
  ASSUME NEW E, \A e \in E : e.time \in Int, NEW list \in Seq(E)
  PROVE  /\ Backwards(list) \in Seq(Filings(E)) /\ Len(Backwards(list)) = Len(list)
         /\ Keyed(Backwards(list)) /\ Len(list) \in Nat
         /\ \A i \in 1 .. Len(list) :
              /\ Len(list) + 1 - i \in 1 .. Len(list) /\ list[i] \in E
              /\ Len(list) + 1 - (Len(list) + 1 - i) = i
              /\ Backwards(list)[i] = Filing(list[Len(list) + 1 - i])
              /\ Backwards(list)[i].event = list[Len(list) + 1 - i]
<1> DEFINE n == Len(list)
           c == Backwards(list)
<1>1. n \in Nat /\ \A i \in 1 .. n : list[i] \in E
  BY LenProperties, ElementOfSeq
<1>2. \A i \in 1 .. n : n + 1 - i \in 1 .. n /\ n + 1 - (n + 1 - i) = i
  <2> HIDE DEF n
  <2> QED BY <1>1
<1>3. \A i \in 1 .. n : c[i] = Filing(list[n + 1 - i]) /\ c[i] \in Filings(E)
  <2>1. \A e \in E : Filing(e) \in Filings(E)
    BY DEF Filing, Filings
  <2> QED BY <1>1, <1>2, <2>1 DEF Backwards
<1>4. c \in [1 .. n -> Filings(E)]
  <2>1. c = [i \in 1 .. n |-> Filing(list[n + 1 - i])]
    BY DEF Backwards
  <2> HIDE DEF c, n
  <2> QED BY <1>3, <2>1
<1> HIDE DEF c, n
<1>5. c \in Seq(Filings(E))
  BY <1>1, <1>4, SeqDef
<1>6. Len(c) = n
  BY <1>1, <1>4, <1>5, LenProperties
<1>7. Keyed(c)
  BY <1>5, FilingsKeyed
<1>8. \A i \in 1 .. n : c[i].event = list[n + 1 - i]
  <2>1. \A e : Filing(e).event = e
    BY DEF Filing
  <2> QED BY <1>3, <2>1
<1> QED BY <1>1, <1>2, <1>3, <1>5, <1>6, <1>7, <1>8 DEF c, n

\* The search of Assignment1 finds the calendar's earliest event.
LEMMA EarliestBackwards ==
  ASSUME NEW E, \A e \in E : e.time \in Int, MinutesAlike(E), NEW list \in Seq(E), NEW d
  PROVE  LET c == Backwards(list) IN
         /\ SearchDate(list, d) = 0 <=> Bare(c, d)
         /\ SearchDate(list, d) # 0 =>
              \E j : IsEarliest(c, d, Len(c), j) /\ EarliestEvent(list, d) = c[j].event
<1> DEFINE n == Len(list)
           c == Backwards(list)
<1>1. /\ Len(c) = n /\ n \in Nat
      /\ \A i \in 1 .. n : /\ n + 1 - i \in 1 .. n /\ n + 1 - (n + 1 - i) = i
                           /\ c[i].event = list[n + 1 - i]
  BY BackwardsIs
<1> HIDE DEF c, n
<1>2. \A i \in 1 .. n : c[n + 1 - i].event = list[i]
  BY <1>1
<1>3. SearchDate(list, d) = 0 <=> \A k \in 1 .. n : list[k].date # d
  BY DateFinds DEF n
<1>4. SearchDate(list, d) = 0 <=> Bare(c, d)
  BY <1>1, <1>2, <1>3 DEF Bare
<1>5. ASSUME SearchDate(list, d) # 0
      PROVE  \E j : IsEarliest(c, d, Len(c), j) /\ EarliestEvent(list, d) = c[j].event
  <2>1. PICK j : IsFirst(list, d, n, j) /\ EarliestEvent(list, d) = list[j]
    BY <1>5, EarliestSought DEF n
  <2> DEFINE m == n + 1 - j
  <2>2. j \in 1 .. n /\ list[j].date = d /\ m \in 1 .. n /\ c[m].event = list[j]
    BY <1>1, <1>2, <2>1 DEF IsFirst
  <2>3. ASSUME NEW k \in 1 .. n, c[k].event.date = d
        PROVE  /\ c[m].event.time <= c[k].event.time
               /\ k > m => c[m].event.time < c[k].event.time
    <3> DEFINE l == n + 1 - k
    <3>1. l \in 1 .. n /\ c[k].event = list[l]
      BY <1>1
    <3>2. n \in Int /\ j \in Int /\ k \in Int
      BY <1>1, <2>2
    <3>3. k > m => l < j
      BY <3>2
    <3> HIDE DEF l, m
    <3> QED BY <2>1, <2>2, <2>3, <3>1, <3>3 DEF IsFirst
  <2> HIDE DEF m
  <2>4. IsEarliest(c, d, Len(c), m)
    BY <1>1, <2>2, <2>3 DEF IsEarliest
  <2> QED BY <2>1, <2>2, <2>4
<1> QED BY <1>4, <1>5 DEF c

\* An event that is appended to the list comes first in the calendar.
LEMMA AppendBackwards ==
  ASSUME NEW E, \A e \in E : e.time \in Int, NEW list \in Seq(E), NEW e \in E
  PROVE  LET after == Append(list, e)
             a == Backwards(after)
         IN /\ after \in Seq(E) /\ Lacks(Backwards(list), a, 1) /\ a[1].event = e
<1> DEFINE after == Append(list, e)
           n == Len(list)
           c == Backwards(list)
           a == Backwards(after)
<1>1. /\ after \in Seq(E) /\ Len(after) = n + 1 /\ after[n + 1] = e
      /\ \A i \in 1 .. n : after[i] = list[i]
  BY AppendProperties
<1>2. /\ Len(c) = n /\ n \in Nat
      /\ \A i \in 1 .. n : n + 1 - i \in 1 .. n /\ c[i] = Filing(list[n + 1 - i])
  BY BackwardsIs
<1> HIDE DEF after
<1>3. /\ Len(a) = n + 1
      /\ \A i \in 1 .. n + 1 : a[i] = Filing(after[n + 1 + 1 - i])
  <2> DEFINE m == Len(after)
  <2>1. Len(a) = m /\ \A i \in 1 .. m : a[i] = Filing(after[m + 1 - i])
    BY <1>1, BackwardsIs
  <2>2. m = n + 1
    BY <1>1
  <2> HIDE DEF m, n, a
  <2> QED BY <2>1, <2>2
<1> HIDE DEF n, c, a
<1>4. a[1] = Filing(e)
  <2>1. 1 \in 1 .. n + 1 /\ n + 1 + 1 - 1 = n + 1
    BY <1>2
  <2> QED BY <1>1, <1>3, <2>1
<1>5. ASSUME NEW k \in 1 .. n PROVE c[k] = a[IF k < 1 THEN k ELSE k + 1]
  <2>1. k + 1 \in 1 .. n + 1 /\ n + 1 + 1 - (k + 1) = n + 1 - k /\ ~ (k < 1)
    BY <1>2
  <2>2. a[k + 1] = Filing(after[n + 1 - k])
    BY <1>3, <2>1
  <2> QED BY <1>1, <1>2, <2>1, <2>2
<1>6. 1 \in 1 .. Len(a)
  BY <1>2, <1>3
<1>7. Lacks(c, a, 1)
  BY <1>2, <1>3, <1>5, <1>6 DEF Lacks
<1> QED BY <1>1, <1>4, <1>7 DEF after, c, a, Filing

\* An event that is removed from the list leaves the calendar.
LEMMA RemoveBackwards ==
  ASSUME NEW E, \A e \in E : e.time \in Int, NEW list \in Seq(E), NEW i \in 1 .. Len(list)
  PROVE  LET after == RemoveAt(list, i) IN
         after \in Seq(E) /\ Lacks(Backwards(after), Backwards(list), Len(list) + 1 - i)
<1> DEFINE after == RemoveAt(list, i)
           n == Len(list)
           c == Backwards(list)
           a == Backwards(after)
           p == n + 1 - i
<1>1. after \in Seq(E) /\ Lacks(after, list, i)
  BY RemoveKeeps, RemoveLacks
<1> HIDE DEF after
<1>2. /\ Len(c) = n /\ n \in Nat /\ p \in 1 .. n /\ i \in 1 .. n
      /\ \A k \in 1 .. n : n + 1 - k \in 1 .. n /\ c[k] = Filing(list[n + 1 - k])
  BY BackwardsIs
<1>3. /\ Len(a) = Len(after) /\ Len(after) \in Nat
      /\ \A k \in 1 .. Len(after) : /\ Len(after) + 1 - k \in 1 .. Len(after)
                                    /\ a[k] = Filing(after[Len(after) + 1 - k])
  BY <1>1, BackwardsIs
<1>4. n = Len(after) + 1
  BY <1>1 DEF Lacks
<1> HIDE DEF c, a
<1>5. ASSUME NEW k \in 1 .. Len(after) PROVE a[k] = c[IF k < p THEN k ELSE k + 1]
  <2> DEFINE m == Len(after) + 1 - k
             l == IF k < p THEN k ELSE k + 1
  <2>1. m \in 1 .. Len(after) /\ a[k] = Filing(after[m])
    BY <1>3
  <2>2. after[m] = list[IF m < i THEN m ELSE m + 1]
    <3> HIDE DEF m
    <3> QED BY <1>1, <2>1 DEF Lacks
  <2>3. l \in 1 .. n /\ n + 1 - l = IF m < i THEN m ELSE m + 1
    <3> DEFINE q == Len(after)
    <3>1. q \in Nat /\ n = q + 1 /\ k \in 1 .. q /\ i \in 1 .. n
      BY <1>2, <1>3, <1>4
    <3>2. p = q + 2 - i /\ m = q + 1 - k
      BY <3>1
    <3> HIDE DEF q, n, p, m
    <3>3. CASE k < p
      <4>1. ~ (m < i) /\ k \in 1 .. n /\ n + 1 - k = m + 1
        BY <3>1, <3>2, <3>3
      <4> QED BY <3>3, <4>1
    <3>4. CASE ~ (k < p)
      <4>1. m < i /\ k + 1 \in 1 .. n /\ n + 1 - (k + 1) = m
        BY <3>1, <3>2, <3>4
      <4> QED BY <3>4, <4>1
    <3> QED BY <3>3, <3>4
  <2>4. c[l] = Filing(list[n + 1 - l])
    BY <1>2, <2>3
  <2> HIDE DEF m, l, n
  <2>5. a[k] = c[l]
    BY <2>1, <2>2, <2>3, <2>4
  <2> QED BY <2>5 DEF l
<1> HIDE DEF p, n
<1>6. Lacks(a, c, p)
  BY <1>2, <1>3, <1>4, <1>5 DEF Lacks
<1> QED BY <1>1, <1>6 DEF after, a, c, p, n
-----------------------------------------------------------------------------
\* The three actions of Assignment1 and what they print.

\* After the list and the lines of r what was printed last is right for every date.
Shows(r, o, E) == Tells(Effect(Backwards(r.list), r.lines), o, E)

LEMMA ResultIs ==
  \A list, lines : Result(list, lines).list = list /\ Result(list, lines).lines = lines
BY DEF Result

\* An event has the fields of an e-mail, and its time is a number.
IsEmail(e) ==
  /\ e = [action |-> e.action, title |-> e.title, date |-> e.date, time |-> e.time,
          location |-> e.location]
  /\ e.time \in Int

\* Events that are the same to compareEvents are announced by the same line.
LEMMA SameLines ==
  ASSUME NEW e, IsEmail(e)
  PROVE  SameEvent(e, e) /\ \A f : SameEvent(e, f) => Line(e) = Line(f)
<1>1. PICK x, t, d, h, l :
        e = [action |-> x, title |-> t, date |-> d, time |-> h, location |-> l]
  BY DEF IsEmail
<1>2. \A u : [e EXCEPT !.title = u]
               = [action |-> x, title |-> u, date |-> d, time |-> h, location |-> l]
  BY <1>1
<1>3. ASSUME NEW f, SameEvent(e, f) PROVE Line(e) = Line(f)
  <2>1. f = [action |-> x, title |-> f.title, date |-> d, time |-> h, location |-> l]
    BY <1>2, <1>3 DEF SameEvent
  <2>2. f.date = d /\ f.time = h /\ f.location = l
    BY <2>1
  <2>3. e.date = d /\ e.time = h /\ e.location = l
    BY <1>1
  <2> QED BY <2>2, <2>3 DEF Line
<1>4. SameEvent(e, e)
  <2>1. e.title = t
    BY <1>1
  <2> QED BY <1>1, <1>2, <2>1 DEF SameEvent
<1> QED BY <1>3, <1>4

\* A new event is announced if it is the earliest.
LEMMA CreateShows ==
  ASSUME NEW E, \A e \in E : IsEmail(e), MinutesAlike(E), NEW list \in Seq(E),
         NEW o \in Seq(Lines(E)), \A d \in Dates(E) : Told(Backwards(list), o, d), NEW e \in E
  PROVE  Shows(Create(list, e), o, E)
<1> DEFINE S == Filings(E)
           after == Append(list, e)
           c == Backwards(list)
           a == Backwards(after)
<1>0. \A f \in E : f.time \in Int
  BY DEF IsEmail
<1>1. after \in Seq(E) /\ Lacks(c, a, 1) /\ a[1].event = e
  BY <1>0, AppendBackwards
<1>2. c \in Seq(S) /\ Keyed(c) /\ Len(c) \in Nat
  BY <1>0, BackwardsIs, LenProperties
<1>3. a \in Seq(S) /\ Keyed(a) /\ Len(a) \in Nat
  BY <1>0, <1>1, BackwardsIs, LenProperties
<1>4. /\ SearchDate(list, e.date) = 0 <=> Bare(c, e.date)
      /\ SearchDate(after, e.date) = 0 <=> Bare(a, e.date)
  BY <1>0, <1>1, EarliestBackwards
<1>5. 1 \in 1 .. Len(a)
  BY <1>1 DEF Lacks
<1>6. ~ Bare(a, e.date)
  BY <1>1, <1>5 DEF Bare
<1>7. PICK j : IsEarliest(a, e.date, Len(a), j) /\ EarliestEvent(after, e.date) = a[j].event
  BY <1>0, <1>1, <1>4, <1>6, EarliestBackwards
<1>8. Create(list, e) =
        Result(after, IF SearchDate(list, e.date) = 0
                         \/ SameEvent(EarliestEvent(after, e.date), e)
                        THEN <<Line(e)>> ELSE <<>>)
  BY DEF Create
<1> HIDE DEF S, after, c, a
<1>9. ASSUME NEW d \in Dates(E), \A k : IsEarliest(a, d, Len(a), k) => k # 1
      PROVE  Told(a, o, d)
  <2>1. Alike(c, a, d)
    BY <1>1, <1>2, <1>3, <1>9, AlikeWithout
  <2>2. Told(c, o, d)
    BY DEF c
  <2> QED BY <1>2, <1>3, <2>1, <2>2, ToldStill
<1>10. ASSUME NEW d \in Dates(E), d # e.date PROVE Told(a, o, d)
  <2>1. \A k : IsEarliest(a, d, Len(a), k) => k # 1
    BY <1>1, <1>10 DEF IsEarliest
  <2> QED BY <1>9, <2>1
<1>11. CASE SearchDate(list, e.date) = 0 \/ SameEvent(EarliestEvent(after, e.date), e)
  <2> DEFINE l == Line(e)
  <2>1. l \in Lines(E) /\ l.date = e.date
    BY DEF Lines, Line
  <2>2. l = Line(a[j].event)
    <3>1. CASE SearchDate(list, e.date) = 0
      <4>1. ASSUME j # 1 PROVE FALSE
        <5>1. IsEarliest(c, e.date, Len(c), Back(1, j))
          BY <1>1, <1>2, <1>7, <4>1, EarliestLacks
        <5> QED BY <1>4, <3>1, <5>1 DEF IsEarliest, Bare
      <4> QED BY <1>1, <4>1
    <3>2. CASE SameEvent(EarliestEvent(after, e.date), e)
      <4>1. a[j].event \in E
        BY <1>0, <1>1, <1>7, FilingsKeyed, BackwardsIs DEF IsEarliest, a
      <4> QED BY <1>7, <3>2, <4>1, SameLines
    <3> QED BY <1>11, <3>1, <3>2
  <2> HIDE DEF l
  <2>3. Tells(Effect(a, <<l>>), o, E)
    BY <1>6, <1>7, <1>10, <2>1, <2>2, TellsLine
  <2>4. Create(list, e) = Result(after, <<l>>)
    BY <1>8, <1>11 DEF l
  <2> QED BY <2>3, <2>4, ResultIs DEF Shows, a
<1>12. CASE ~ (SearchDate(list, e.date) = 0 \/ SameEvent(EarliestEvent(after, e.date), e))
  <2>1. j # 1
    <3>1. SameEvent(e, e)
      BY SameLines
    <3> QED BY <1>1, <1>7, <1>12, <3>1
  <2>2. \A k : IsEarliest(a, e.date, Len(a), k) => k # 1
    <3> SUFFICES ASSUME NEW k, IsEarliest(a, e.date, Len(a), k) PROVE k # 1
      OBVIOUS
    <3>1. Len(a) <= Len(a)
      BY <1>3
    <3>2. k = j
      BY <1>3, <1>7, <3>1, OneEarliest
    <3> QED BY <2>1, <3>2
  <2>3. \A d \in Dates(E) : Told(a, o, d)
    BY <1>9, <1>10, <2>2
  <2>4. Tells(Effect(a, <<>>), o, E)
    BY <2>3, TellsNothing
  <2>5. Create(list, e) = Result(after, <<>>)
    BY <1>8, <1>12
  <2> QED BY <2>4, <2>5, ResultIs DEF Shows, a
<1> QED BY <1>11, <1>12
-----------------------------------------------------------------------------
\* An event that is edited in place, its date and time kept.
LEMMA EditBackwards ==
  ASSUME NEW E, \A e \in E : IsEmail(e), NEW list \in Seq(E), NEW e \in E,
         NEW i \in 1 .. Len(list), list[i].date = e.date, list[i].time = e.time
  PROVE  LET after == [list EXCEPT ![i] = e]
             a == Backwards(after)
             c == Backwards(list)
             p == Len(list) + 1 - i
         IN /\ after \in Seq(E) /\ p \in 1 .. Len(c) /\ Len(a) = Len(c) /\ a[p].event = e
            /\ c[p].event = list[i]
            /\ \A k \in 1 .. Len(c) : k # p => a[k].event = c[k].event
            /\ \A d : /\ Bare(a, d) <=> Bare(c, d)
                      /\ \A j : IsEarliest(a, d, Len(a), j) <=> IsEarliest(c, d, Len(c), j)
<1> DEFINE n == Len(list)
           after == [list EXCEPT ![i] = e]
           a == Backwards(after)
           c == Backwards(list)
           p == n + 1 - i
<1>0. \A f \in E : f.time \in Int
  BY DEF IsEmail
<1>1. /\ after \in Seq(E) /\ Len(after) = n
      /\ \A k \in 1 .. n : after[k] = IF k = i THEN e ELSE list[k]
  BY ExceptSeq
<1> HIDE DEF after
<1>2. /\ Len(c) = n /\ n \in Nat /\ p \in 1 .. n /\ n + 1 - p = i
      /\ \A k \in 1 .. n : /\ n + 1 - k \in 1 .. n /\ n + 1 - (n + 1 - k) = k
                           /\ c[k].event = list[n + 1 - k]
  BY <1>0, BackwardsIs
<1>3. Len(a) = n /\ \A k \in 1 .. n : a[k].event = after[n + 1 - k]
  <2> DEFINE m == Len(after)
  <2>1. Len(a) = m /\ \A k \in 1 .. m : a[k].event = after[m + 1 - k]
    BY <1>0, <1>1, BackwardsIs
  <2>2. m = n
    BY <1>1
  <2> HIDE DEF m, n, a
  <2> QED BY <2>1, <2>2
<1> HIDE DEF a, c, n, p
<1>4. a[p].event = e /\ c[p].event = list[i]
  <2>1. i \in 1 .. n
    BY DEF n
  <2> QED BY <1>1, <1>2, <1>3, <2>1
<1>5. ASSUME NEW k \in 1 .. n, k # p PROVE a[k].event = c[k].event
  <2>1. n + 1 - k # i
    <3>1. i = n + 1 - p /\ p \in Int
      BY <1>2
    <3> QED BY <1>2, <1>5, <3>1
  <2> DEFINE m == n + 1 - k
  <2>2. m \in 1 .. n /\ m # i /\ c[k].event = list[m] /\ a[k].event = after[m]
    BY <1>2, <1>3, <2>1
  <2> HIDE DEF m
  <2> QED BY <1>1, <2>2
<1>6. \A k \in 1 .. n : /\ a[k].event.date = c[k].event.date
                        /\ a[k].event.time = c[k].event.time
  BY <1>4, <1>5
<1>7. ASSUME NEW d PROVE /\ Bare(a, d) <=> Bare(c, d)
                         /\ \A j : IsEarliest(a, d, Len(a), j) <=> IsEarliest(c, d, Len(c), j)
  <2>1. Bare(a, d) <=> Bare(c, d)
    BY <1>2, <1>3, <1>6 DEF Bare
  <2>2. ASSUME NEW j PROVE IsEarliest(a, d, Len(a), j) <=> IsEarliest(c, d, Len(c), j)
    BY <1>2, <1>3, <1>6 DEF IsEarliest
  <2> QED BY <2>1, <2>2
<1> QED BY <1>1, <1>2, <1>3, <1>4, <1>5, <1>7 DEF after, a, c, p, n

\* An event changed is announced if its location changes and it is the earliest.
LEMMA EditShows ==
  ASSUME NEW E, \A e \in E : IsEmail(e), MinutesAlike(E), NEW list \in Seq(E),
         NEW o \in Seq(Lines(E)), \A d \in Dates(E) : Told(Backwards(list), o, d), NEW e \in E,
         \A i \in 1 .. Len(list) :
           list[i].title = e.title => list[i].date = e.date /\ list[i].time = e.time
  PROVE  Shows(Edit(list, e), o, E)
<1> DEFINE i == SearchTitle(list, e.title)
           after == [list EXCEPT ![i] = e]
           c == Backwards(list)
           a == Backwards(after)
           p == Len(list) + 1 - i
<1>0. \A f \in E : f.time \in Int
  BY DEF IsEmail
<1>1. CASE i = 0
  <2>1. Edit(list, e) = Result(list, <<>>)
    BY <1>1 DEF Edit
  <2> QED BY <2>1, ResultIs, TellsNothing DEF Shows
<1>2. CASE i # 0
  <2>1. i \in 1 .. Len(list) /\ list[i].date = e.date /\ list[i].time = e.time
    <3>1. i \in 1 .. Len(list) /\ list[i].title = e.title
      BY <1>2, ListTitleFinds
    <3> QED BY <3>1
  <2>2. Edit(list, e) =
          Result(after, IF /\ list[i].location # e.location
                           /\ SameEvent(EarliestEvent(after, e.date), e)
                          THEN <<Line(e)>> ELSE <<>>)
    BY <1>2 DEF Edit
  <2> HIDE DEF i
  <2>3. /\ after \in Seq(E) /\ p \in 1 .. Len(c) /\ Len(a) = Len(c) /\ a[p].event = e
        /\ c[p].event = list[i]
        /\ \A k \in 1 .. Len(c) : k # p => a[k].event = c[k].event
        /\ \A d : /\ Bare(a, d) <=> Bare(c, d)
                  /\ \A j : IsEarliest(a, d, Len(a), j) <=> IsEarliest(c, d, Len(c), j)
    BY <2>1, EditBackwards
  <2> HIDE DEF after, p
  <2>4. Keyed(a) /\ Len(a) \in Nat
    BY <1>0, <2>3, BackwardsIs
  <2>5. SearchDate(after, e.date) = 0 <=> Bare(a, e.date)
    BY <1>0, <2>3, EarliestBackwards
  <2>6. ~ Bare(a, e.date)
    BY <2>3 DEF Bare
  <2>7. PICK j : /\ IsEarliest(a, e.date, Len(a), j)
                 /\ EarliestEvent(after, e.date) = a[j].event
    BY <1>0, <2>3, <2>5, <2>6, EarliestBackwards
  <2>8. \A f \in E : SameEvent(f, e) => Line(f) = Line(e)
    BY SameLines
  <2>9. a[j].event \in E
    BY <1>0, <2>3, <2>7, FilingsKeyed, BackwardsIs DEF IsEarliest
  <2>10. \A d \in Dates(E) : Told(c, o, d)
    OBVIOUS
  <2> HIDE DEF a, c
  <2>11. ASSUME NEW d \in Dates(E),
                \A k : IsEarliest(a, d, Len(a), k) => Line(a[k].event) = Line(c[k].event)
         PROVE  Told(a, o, d)
    <3>1. CASE Bare(a, d)
      BY <2>3, <2>10, <3>1 DEF Told
    <3>2. CASE ~ Bare(a, d)
      <4>1. PICK k : IsEarliest(c, d, Len(c), k) /\ LastFor(o, d, Line(c[k].event))
        BY <2>3, <2>10, <3>2 DEF Told
      <4>2. IsEarliest(a, d, Len(a), k)
        BY <2>3, <4>1
      <4>3. Line(a[k].event) = Line(c[k].event)
        BY <2>11, <4>2
      <4> QED BY <3>2, <4>1, <4>2, <4>3 DEF Told
    <3> QED BY <3>1, <3>2
  <2>12. ASSUME NEW d, NEW k, IsEarliest(a, d, Len(a), k), k # p
         PROVE  Line(a[k].event) = Line(c[k].event)
    <3>1. k \in 1 .. Len(c)
      BY <2>3, <2>12 DEF IsEarliest
    <3> QED BY <2>3, <2>12, <3>1
  <2>13. ASSUME NEW d \in Dates(E), d # e.date PROVE Told(a, o, d)
    <3>1. \A k : IsEarliest(a, d, Len(a), k) => k # p
      BY <2>3, <2>13 DEF IsEarliest
    <3> QED BY <2>11, <2>12, <3>1
  <2>14. CASE /\ list[i].location # e.location
              /\ SameEvent(EarliestEvent(after, e.date), e)
    <3> DEFINE l == Line(e)
    <3>1. l \in Lines(E) /\ l.date = e.date
      BY DEF Lines, Line
    <3>2. l = Line(a[j].event)
      BY <2>7, <2>8, <2>9, <2>14
    <3> HIDE DEF l
    <3>3. Tells(Effect(a, <<l>>), o, E)
      BY <2>6, <2>7, <2>13, <3>1, <3>2, TellsLine
    <3>4. Edit(list, e) = Result(after, <<l>>)
      BY <2>2, <2>14 DEF l
    <3> QED BY <3>3, <3>4, ResultIs DEF Shows, a
  <2>15. CASE ~ (/\ list[i].location # e.location
                 /\ SameEvent(EarliestEvent(after, e.date), e))
    <3>1. ASSUME NEW k, IsEarliest(a, e.date, Len(a), k)
          PROVE  Line(a[k].event) = Line(c[k].event)
      <4>1. CASE k # p
        BY <2>12, <3>1, <4>1
      <4>2. CASE k = p /\ list[i].location = e.location
        BY <2>1, <2>3, <4>2 DEF Line
      <4>3. CASE k = p /\ ~ SameEvent(EarliestEvent(after, e.date), e)
        <5>1. Len(a) <= Len(a)
          BY <2>4
        <5>2. k = j
          BY <2>4, <2>7, <3>1, <5>1, OneEarliest
        <5>3. SameEvent(e, e)
          BY SameLines
        <5> QED BY <2>3, <2>7, <4>3, <5>2, <5>3
      <4> QED BY <2>15, <4>1, <4>2, <4>3
    <3>2. \A d \in Dates(E) : Told(a, o, d)
      BY <2>11, <2>13, <3>1
    <3>3. Tells(Effect(a, <<>>), o, E)
      BY <3>2, TellsNothing
    <3>4. Edit(list, e) = Result(after, <<>>)
      BY <2>2, <2>15
    <3> QED BY <3>3, <3>4, ResultIs DEF Shows, a
  <2> QED BY <2>14, <2>15
<1> QED BY <1>1, <1>2
-----------------------------------------------------------------------------
\* The event that is the earliest of a date, where there is one.
LEMMA EarliestShown ==
  ASSUME NEW E, \A e \in E : IsEmail(e), MinutesAlike(E), NEW list \in Seq(E), NEW d,
         SearchDate(list, d) # 0
  PROVE  LET a == Backwards(list)
             l == Line(EarliestEvent(list, d))
         IN /\ ~ Bare(a, d) /\ l \in Lines(E) /\ l.date = d
            /\ \E j : IsEarliest(a, d, Len(a), j) /\ l = Line(a[j].event)
<1> DEFINE a == Backwards(list)
           l == Line(EarliestEvent(list, d))
<1>0. \A f \in E : f.time \in Int
  BY DEF IsEmail
<1>1. ~ Bare(a, d)
  BY <1>0, EarliestBackwards
<1>2. PICK j : IsEarliest(a, d, Len(a), j) /\ EarliestEvent(list, d) = a[j].event
  BY <1>0, EarliestBackwards
<1>3. j \in 1 .. Len(a) /\ a[j].event.date = d
  BY <1>2 DEF IsEarliest
<1>4. a[j].event \in E
  BY <1>0, <1>3, FilingsKeyed, BackwardsIs
<1>5. l \in Lines(E) /\ l.date = d
  BY <1>2, <1>3, <1>4 DEF Lines, Line
<1> QED BY <1>1, <1>2, <1>5

\* What follows the earliest event is announced if that is deleted.
LEMMA DeleteShows ==
  ASSUME NEW E, \A e \in E : IsEmail(e), MinutesAlike(E), NEW list \in Seq(E),
         NEW o \in Seq(Lines(E)), \A d \in Dates(E) : Told(Backwards(list), o, d), NEW e \in E
  PROVE  Shows(Delete(list, e), o, E)
<1> DEFINE i == Search_EventByTitle_Date_Time(list, e)
           d == e.date
           after == RemoveAt(list, i)
           c == Backwards(list)
           a == Backwards(after)
           p == Len(list) + 1 - i
           first == EarliestEvent(list, d)
           next == EarliestEvent(after, d)
<1>0. \A f \in E : f.time \in Int
  BY DEF IsEmail
<1>1. CASE i = 0
  <2>1. Delete(list, e) = Result(list, <<>>)
    BY <1>1 DEF Delete
  <2> QED BY <2>1, ResultIs, TellsNothing DEF Shows
<1>2. CASE i # 0
  <2>1. i \in 1 .. Len(list) /\ list[i].date = d
    BY <1>2, ListEventFinds
  <2>2. Delete(list, e) =
          Result(after, IF SearchDate(after, d) = 0 THEN <<NotAvailable(d)>>
                        ELSE IF SameEvent(first, list[i]) THEN <<Line(next)>> ELSE <<>>)
    BY <1>2 DEF Delete
  <2> HIDE DEF i
  <2>3. after \in Seq(E) /\ Lacks(a, c, p)
    BY <1>0, <2>1, RemoveBackwards
  <2>4. /\ c \in Seq(Filings(E)) /\ Keyed(c) /\ Len(c) \in Nat /\ list[i] \in E
        /\ p \in 1 .. Len(c) /\ c[p].event = list[i]
    <3>1. /\ c \in Seq(Filings(E)) /\ Keyed(c) /\ Len(c) = Len(list) /\ Len(list) \in Nat
          /\ p \in 1 .. Len(list) /\ list[i] \in E /\ Len(list) + 1 - p = i
      BY <1>0, <2>1, BackwardsIs
    <3> HIDE DEF p
    <3>2. c[p].event = list[Len(list) + 1 - p]
      BY <1>0, <3>1, BackwardsIs
    <3> HIDE DEF c
    <3> QED BY <3>1, <3>2
  <2>5. a \in Seq(Filings(E)) /\ Keyed(a) /\ Len(a) \in Nat
    BY <1>0, <2>3, BackwardsIs
  <2>6. SearchDate(after, d) = 0 <=> Bare(a, d)
    BY <1>0, <2>3, EarliestBackwards
  <2>7. ~ Bare(c, d)
    BY <2>1, <2>4 DEF Bare
  <2>8. PICK j : IsEarliest(c, d, Len(c), j) /\ first = c[j].event
    BY <1>0, <2>7, EarliestBackwards
  <2> HIDE DEF p
  <2>9. ASSUME NEW b \in Dates(E), \A k : IsEarliest(c, b, Len(c), k) => k # p
        PROVE  Told(a, o, b)
    <3>1. Alike(c, a, b)
      <4> HIDE DEF a, c
      <4> QED BY <2>3, <2>4, <2>5, <2>9, AlikeWithout
    <3>2. Told(c, o, b)
      OBVIOUS
    <3> HIDE DEF a, c
    <3> QED BY <2>4, <2>5, <3>1, <3>2, ToldStill
  <2>10. ASSUME NEW b \in Dates(E), b # d PROVE Told(a, o, b)
    <3>1. \A k : IsEarliest(c, b, Len(c), k) => k # p
      BY <2>1, <2>4, <2>10 DEF IsEarliest
    <3> QED BY <2>9, <3>1
  <2>11. CASE SearchDate(after, d) = 0
    <3> DEFINE l == NotAvailable(d)
    <3>1. l \in Lines(E) /\ l.date = d
      BY DEF Lines, NotAvailable
    <3>2. Bare(a, d) /\ l = NotAvailable(l.date)
      BY <2>6, <2>11, <3>1
    <3>3. Delete(list, e) = Result(after, <<l>>)
      BY <2>2, <2>11
    <3> HIDE DEF l
    <3>4. Tells(Effect(a, <<l>>), o, E)
      BY <2>10, <3>1, <3>2, TellsLine
    <3> HIDE DEF after
    <3> QED BY <3>3, <3>4, ResultIs DEF Shows
  <2>12. CASE SearchDate(after, d) # 0 /\ SameEvent(first, list[i])
    <3> DEFINE l == Line(next)
    <3>1. /\ ~ Bare(a, d) /\ l \in Lines(E) /\ l.date = d
          /\ \E k : IsEarliest(a, d, Len(a), k) /\ l = Line(a[k].event)
      BY <2>3, <2>12, EarliestShown
    <3>2. Delete(list, e) = Result(after, <<l>>)
      BY <2>2, <2>12
    <3> HIDE DEF l
    <3>3. Tells(Effect(a, <<l>>), o, E)
      <4> HIDE DEF a
      <4> QED BY <2>10, <3>1, TellsLine
    <3> HIDE DEF after
    <3> QED BY <3>2, <3>3, ResultIs DEF Shows
  <2>13. CASE SearchDate(after, d) # 0 /\ ~ SameEvent(first, list[i])
    <3>1. j # p
      <4>1. SameEvent(list[i], list[i])
        BY <2>4, SameLines
      <4> QED BY <2>4, <2>8, <2>13, <4>1
    <3>2. \A k : IsEarliest(c, d, Len(c), k) => k # p
      <4> SUFFICES ASSUME NEW k, IsEarliest(c, d, Len(c), k) PROVE k # p
        OBVIOUS
      <4>1. Len(c) <= Len(c)
        BY <2>4
      <4>2. k = j
        BY <2>4, <2>8, <4>1, OneEarliest
      <4> QED BY <3>1, <4>2
    <3>3. \A b \in Dates(E) : Told(a, o, b)
      BY <2>9, <2>10, <3>2
    <3>4. Tells(Effect(a, <<>>), o, E)
      BY <3>3, TellsNothing
    <3>5. Delete(list, e) = Result(after, <<>>)
      BY <2>2, <2>13
    <3> HIDE DEF after
    <3> QED BY <3>4, <3>5, ResultIs DEF Shows
  <2> QED BY <2>11, <2>12, <2>13
<1> QED BY <1>1, <1>2

\* However an e-mail is processed, each date's last line stays right, if an edit
\* changes neither the date nor the time of the event it finds.
LEMMA ProcessShows ==
  ASSUME NEW E, \A e \in E : IsEmail(e), MinutesAlike(E), NEW list \in Seq(E),
         NEW o \in Seq(Lines(E)), \A d \in Dates(E) : Told(Backwards(list), o, d), NEW e \in E,
         e.action = "X" =>
           \A i \in 1 .. Len(list) :
             list[i].title = e.title => list[i].date = e.date /\ list[i].time = e.time
  PROVE  Shows(ProcessCalendar(list, e), o, E)
<1>1. CASE e.action = "C"
  <2>1. Shows(Create(list, e), o, E)
    BY CreateShows
  <2> QED BY <1>1, <2>1 DEF ProcessCalendar
<1>2. CASE e.action = "X"
  <2>1. Shows(Edit(list, e), o, E)
    BY <1>2, EditShows
  <2> QED BY <1>2, <2>1 DEF ProcessCalendar
<1>3. CASE e.action = "D"
  <2>1. Shows(Delete(list, e), o, E)
    BY DeleteShows
  <2> QED BY <1>3, <2>1 DEF ProcessCalendar
<1>4. CASE e.action \notin {"C", "X", "D"}
  <2>1. ProcessCalendar(list, e) = Result(list, <<>>)
    BY <1>4 DEF ProcessCalendar
  <2> QED BY <2>1, ResultIs, TellsNothing DEF Shows
<1> QED BY <1>1, <1>2, <1>3, <1>4

\* What an e-mail makes of the list and prints, whatever the times.
LEMMA ProcessListed ==
  ASSUME NEW E, NEW list \in Seq(E), NEW e \in E
  PROVE  LET p == ProcessCalendar(list, e) IN
         /\ p.list \in Seq(E) /\ p.lines \in Seq(Lines(E))
         /\ \A k \in 1 .. Len(p.list) :
              p.list[k] = e \/ \E j \in 1 .. Len(list) : p.list[k] = list[j]
<1>1. Line(e) \in Lines(E) /\ NotAvailable(e.date) \in Lines(E)
  BY DEF Lines
<1>2. /\ <<>> \in Seq(Lines(E)) /\ \A l \in Lines(E) : <<l>> \in Seq(Lines(E))
      /\ Len(list) \in Nat
  BY LenProperties
<1>3. CASE e.action = "C"
  <2> DEFINE after == Append(list, e)
             l == IF SearchDate(list, e.date) = 0 \/ SameEvent(EarliestEvent(after, e.date), e)
                    THEN <<Line(e)>> ELSE <<>>
  <2>1. ProcessCalendar(list, e) = Result(after, l)
    BY <1>3 DEF ProcessCalendar, Create
  <2>2. /\ after \in Seq(E) /\ Len(after) = Len(list) + 1 /\ after[Len(list) + 1] = e
        /\ \A i \in 1 .. Len(list) : after[i] = list[i]
    BY AppendProperties
  <2>3. l \in Seq(Lines(E))
    BY <1>1, <1>2
  <2> HIDE DEF l, after
  <2>4. ASSUME NEW k \in 1 .. Len(after)
        PROVE  after[k] = e \/ \E j \in 1 .. Len(list) : after[k] = list[j]
    <3>1. CASE k = Len(list) + 1
      BY <2>2, <3>1
    <3>2. CASE k # Len(list) + 1
      <4>1. k \in 1 .. Len(list)
        BY <1>2, <2>2, <3>2
      <4> QED BY <2>2, <4>1
    <3> QED BY <3>1, <3>2
  <2> QED BY <2>1, <2>2, <2>3, <2>4, ResultIs
<1>4. CASE e.action = "X"
  <2> DEFINE i == SearchTitle(list, e.title)
             after == [list EXCEPT ![i] = e]
             l == IF /\ list[i].location # e.location
                     /\ SameEvent(EarliestEvent(after, e.date), e)
                    THEN <<Line(e)>> ELSE <<>>
  <2>1. ProcessCalendar(list, e) = IF i = 0 THEN Result(list, <<>>) ELSE Result(after, l)
    BY <1>4 DEF ProcessCalendar, Edit
  <2>2. i # 0 => /\ after \in Seq(E) /\ Len(after) = Len(list)
                 /\ \A k \in 1 .. Len(list) : after[k] = IF k = i THEN e ELSE list[k]
    <3> SUFFICES ASSUME i # 0
                 PROVE  /\ after \in Seq(E) /\ Len(after) = Len(list)
                        /\ \A k \in 1 .. Len(list) : after[k] = IF k = i THEN e ELSE list[k]
      OBVIOUS
    <3>1. i \in 1 .. Len(list)
      BY ListTitleFinds
    <3> HIDE DEF i
    <3> QED BY <3>1, ExceptSeq
  <2>3. l \in Seq(Lines(E))
    BY <1>1, <1>2
  <2> HIDE DEF l, after, i
  <2>4. CASE i = 0
    BY <1>2, <2>1, <2>4, ResultIs
  <2>5. CASE i # 0
    BY <2>1, <2>2, <2>3, <2>5, ResultIs
  <2> QED BY <2>4, <2>5
<1>5. CASE e.action = "D"
  <2> DEFINE i == Search_EventByTitle_Date_Time(list, e)
             after == RemoveAt(list, i)
             next == EarliestEvent(after, e.date)
             l == IF SearchDate(after, e.date) = 0 THEN <<NotAvailable(e.date)>>
                  ELSE IF SameEvent(EarliestEvent(list, e.date), list[i])
                         THEN <<Line(next)>> ELSE <<>>
  <2>1. ProcessCalendar(list, e) = IF i = 0 THEN Result(list, <<>>) ELSE Result(after, l)
    BY <1>5 DEF ProcessCalendar, Delete
  <2>2. CASE i = 0
    BY <1>2, <2>1, <2>2, ResultIs
  <2>3. CASE i # 0
    <3>1. i \in 1 .. Len(list)
      BY <2>3, ListEventFinds
    <3> HIDE DEF i
    <3>2. after \in Seq(E) /\ Lacks(after, list, i)
      BY <3>1, RemoveKeeps, RemoveLacks
    <3> HIDE DEF after
    <3>3. SearchDate(after, e.date) # 0 => Line(next) \in Lines(E)
      <4> SUFFICES ASSUME SearchDate(after, e.date) # 0 PROVE Line(next) \in Lines(E)
        OBVIOUS
      <4>1. SearchDate(after, e.date) \in 1 .. Len(after)
        BY <3>2, DateFinds
      <4>2. after[SearchDate(after, e.date)] \in E
        BY <3>2, <4>1, ElementOfSeq
      <4>3. next \in E
        BY <3>2, <4>2, SoonerTakes
      <4> QED BY <4>3 DEF Lines
    <3>4. l \in Seq(Lines(E))
      BY <1>1, <1>2, <3>3
    <3>5. ASSUME NEW k \in 1 .. Len(after)
          PROVE  \E j \in 1 .. Len(list) : after[k] = list[j]
      <4>1. after[k] = list[IF k < i THEN k ELSE k + 1]
        BY <3>2, <3>5 DEF Lacks
      <4>2. (IF k < i THEN k ELSE k + 1) \in 1 .. Len(list)
        BY <1>2, <3>1, <3>2 DEF Lacks
      <4> QED BY <4>1, <4>2
    <3> HIDE DEF l
    <3> QED BY <2>1, <2>3, <3>2, <3>4, <3>5, ResultIs
  <2> QED BY <2>2, <2>3
<1>6. CASE e.action \notin {"C", "X", "D"}
  <2>1. ProcessCalendar(list, e) = Result(list, <<>>)
    BY <1>6 DEF ProcessCalendar
  <2> QED BY <1>2, <2>1, ResultIs
<1> QED BY <1>3, <1>4, <1>5, <1>6
-----------------------------------------------------------------------------
\* The program of Assignment1 run on a sequence of e-mails.

\* One e-mail more.
Passed(r, e) ==
  Result(ProcessCalendar(r.list, e).list, r.lines \o ProcessCalendar(r.list, e).lines)

PassedBy(h, s) ==
  h = [t \in SUBSET DOMAIN s |->
         IF t = {} THEN Result(<<>>, <<>>) ELSE Passed(h[t \ {Max(t)}], s[Max(t)])]

\* g runs the program on s from its front.
Runs(g, s) ==
  /\ g[1 .. 0] = Result(<<>>, <<>>)
  /\ \A m \in Nat : m + 1 <= Len(s) => g[1 .. m + 1] = Passed(g[1 .. m], s[m + 1])

Results(E) == {Result(list, o) : list \in Seq(E), o \in Seq(Lines(E))}

LEMMA ResultsHave ==
  ASSUME NEW E, NEW list \in Seq(E), NEW o \in Seq(Lines(E))
  PROVE  Result(list, o) \in Results(E)
BY DEF Results

LEMMA PassedKeeps ==
  ASSUME NEW E, NEW r \in Results(E), NEW e \in E
  PROVE  Passed(r, e) \in Results(E)
<1>1. PICK list \in Seq(E), o \in Seq(Lines(E)) : r = Result(list, o)
  BY DEF Results
<1>2. r.list = list /\ r.lines = o
  BY <1>1, ResultIs
<1> DEFINE p == ProcessCalendar(list, e)
<1>3. p.list \in Seq(E) /\ p.lines \in Seq(Lines(E))
  BY ProcessListed
<1>4. o \o p.lines \in Seq(Lines(E))
  <2> HIDE DEF p
  <2> QED BY <1>3, ConcatProperties
<1>5. Passed(r, e) = Result(p.list, o \o p.lines)
  BY <1>2 DEF Passed
<1> DEFINE q == o \o p.lines
           l == p.list
<1> HIDE DEF p
<1>6. l \in Seq(E) /\ q \in Seq(Lines(E))
  BY <1>3, <1>4
<1> HIDE DEF q, l
<1>7. Result(l, q) \in Results(E)
  BY <1>6, ResultsHave
<1> QED BY <1>5, <1>7 DEF q, l

LEMMA FilteredTakes ==
  ASSUME NEW E, NEW s \in Seq(E)
  PROVE  \E g : Filtered(s) = g[1 .. Len(s)] /\ Runs(g, s)
<1> DEFINE n == Len(s)
           R == Results(E)
           b == Result(<<>>, <<>>)
           F == [k \in 1 .. n |-> [r \in R |-> Passed(r, s[k])]]
           h == CHOOSE f : PassedBy(f, s)
<1>1. n \in Nat /\ DOMAIN s = 1 .. n /\ \A k \in 1 .. n : s[k] \in E
  BY LenProperties, ElementOfSeq
<1>2. Filtered(s) = h[DOMAIN s]
  BY DEF Filtered, FoldLeft, MapThenFoldSet, PassedBy, Passed
<1>3. \A r \in R, k \in 1 .. n : Passed(r, s[k]) \in R
  BY <1>1, PassedKeeps
<1>4. \A r \in R, k \in 1 .. n : F[k][r] = Passed(r, s[k])
  OBVIOUS
<1>5. F \in [1 .. n -> [R -> R]]
  BY <1>3
<1>6. b \in R
  <2>1. <<>> \in Seq(E) /\ <<>> \in Seq(Lines(E))
    BY EmptySeq
  <2> QED BY <2>1, ResultsHave
<1> HIDE DEF F, n, h, b, R
<1>7. PICK g \in [SUBSET (1 .. n) -> R] : FoldsBy(g, F, b, n)
  BY <1>1, <1>5, <1>6, FoldSolved DEF FoldSolvable
<1>8. PassedBy(g, s)
  <2>1. ASSUME NEW t \in SUBSET (1 .. n)
        PROVE  g[t] = IF t = {} THEN b ELSE Passed(g[t \ {Max(t)}], s[Max(t)])
    <3>1. CASE t # {}
      <4>1. Max(t) \in 1 .. n
        <5>1. Max(t) \in t
          BY <1>1, <3>1, Largest
        <5> QED BY <5>1
      <4>2. g[t \ {Max(t)}] \in R
        OBVIOUS
      <4> QED BY <1>4, <1>7, <3>1, <4>1, <4>2 DEF FoldsBy
    <3> QED BY <1>7, <3>1 DEF FoldsBy
  <2> QED BY <1>1, <2>1 DEF PassedBy, b
<1>9. PassedBy(h, s)
  BY <1>8 DEF h
<1>10. h[1 .. 0] = b
  <2>1. 1 .. 0 = {} /\ {} \in SUBSET (1 .. n)
    OBVIOUS
  <2> QED BY <1>1, <1>9, <2>1 DEF PassedBy, b
<1>11. ASSUME NEW m \in Nat, m + 1 <= n
       PROVE  h[1 .. m + 1] = Passed(h[1 .. m], s[m + 1])
  <2> DEFINE t == 1 .. m + 1
  <2>1. t \in SUBSET (1 .. n) /\ t # {} /\ t \ {m + 1} = 1 .. m /\ Max(t) = m + 1
    BY <1>1, <1>11, Interval
  <2> HIDE DEF t
  <2>2. h[t] = Passed(h[t \ {Max(t)}], s[Max(t)])
    BY <1>1, <1>9, <2>1 DEF PassedBy
  <2> QED BY <2>1, <2>2 DEF t
<1>12. Runs(h, s)
  BY <1>10, <1>11 DEF Runs, n, b
<1> QED BY <1>1, <1>2, <1>12 DEF n

\* The edits of s change neither date nor time of an event.
OnlyLocationsIn(s) ==
  \A j, k \in 1 .. Len(s) :
    j < k /\ s[k].action = "X" /\ s[j].title = s[k].title
      => s[j].date = s[k].date /\ s[j].time = s[k].time

\* After the first m e-mails of s the last line for each date is right.
RightAfter(s, m, r, E) ==
  /\ r.list \in Seq(E) /\ r.lines \in Seq(Lines(E))
  /\ \A i \in 1 .. Len(r.list) : \E k \in 1 .. m : r.list[i] = s[k]
  /\ \A d \in Dates(E) : Told(Backwards(r.list), r.lines, d)

LEMMA RightFirst ==
  ASSUME NEW E, \A e \in E : IsEmail(e), NEW s
  PROVE  RightAfter(s, 0, Result(<<>>, <<>>), E)
<1>1. <<>> \in Seq(E) /\ <<>> \in Seq(Lines(E)) /\ Len(<<>>) = 0
  BY EmptySeq
<1> DEFINE b == Backwards(<<>>)
<1>2. Len(b) = 0
  <2>1. \A e \in E : e.time \in Int
    BY DEF IsEmail
  <2> QED BY <1>1, <2>1, BackwardsIs
<1> HIDE DEF b
<1>3. \A i \in 1 .. 0 : FALSE
  OBVIOUS
<1>4. ASSUME NEW d PROVE Told(b, <<>>, d)
  BY <1>1, <1>2, <1>3 DEF Told, Bare
<1> QED BY <1>1, <1>3, <1>4, ResultIs DEF RightAfter, b

LEMMA RightNext ==
  ASSUME NEW E, \A e \in E : IsEmail(e), MinutesAlike(E), NEW s \in Seq(E),
         OnlyLocationsIn(s), NEW m \in Nat, m + 1 <= Len(s), NEW r, RightAfter(s, m, r, E)
  PROVE  RightAfter(s, m + 1, Passed(r, s[m + 1]), E)
<1> DEFINE e == s[m + 1]
           list == r.list
           o == r.lines
           p == ProcessCalendar(list, e)
<1>1. Len(s) \in Nat /\ m + 1 \in 1 .. Len(s) /\ e \in E
  BY LenProperties, ElementOfSeq
<1>2. /\ list \in Seq(E) /\ o \in Seq(Lines(E))
      /\ \A i \in 1 .. Len(list) : \E k \in 1 .. m : list[i] = s[k]
      /\ \A d \in Dates(E) : Told(Backwards(list), o, d)
  BY DEF RightAfter
<1>3. e.action = "X" =>
        \A i \in 1 .. Len(list) :
          list[i].title = e.title => list[i].date = e.date /\ list[i].time = e.time
  <2> SUFFICES ASSUME e.action = "X", NEW i \in 1 .. Len(list), list[i].title = e.title
               PROVE  list[i].date = e.date /\ list[i].time = e.time
    OBVIOUS
  <2>1. PICK k \in 1 .. m : list[i] = s[k]
    BY <1>2
  <2>2. k \in 1 .. Len(s) /\ k < m + 1
    BY <1>1
  <2> QED BY <1>1, <2>1, <2>2 DEF OnlyLocationsIn
<1> HIDE DEF e, list, o
<1>4. Shows(p, o, E)
  BY <1>1, <1>2, <1>3, ProcessShows
<1>5. /\ p.list \in Seq(E)
      /\ \A k \in 1 .. Len(p.list) :
           p.list[k] = e \/ \E j \in 1 .. Len(list) : p.list[k] = list[j]
  BY <1>1, <1>2, ProcessListed
<1>6. Passed(r, e) = Result(p.list, o \o p.lines)
  BY DEF Passed, list, o
<1> HIDE DEF p
<1>7. /\ o \o p.lines \in Seq(Lines(E))
      /\ \A d \in Dates(E) : Told(Backwards(p.list), o \o p.lines, d)
  BY <1>4, EffectLines DEF Shows, Tells
<1>8. ASSUME NEW i \in 1 .. Len(p.list) PROVE \E k \in 1 .. m + 1 : p.list[i] = s[k]
  <2>1. CASE p.list[i] = e
    <3>1. m + 1 \in 1 .. m + 1
      OBVIOUS
    <3> QED BY <2>1, <3>1 DEF e
  <2>2. CASE \E j \in 1 .. Len(list) : p.list[i] = list[j]
    <3>1. PICK k \in 1 .. m : p.list[i] = s[k]
      BY <1>2, <2>2
    <3>2. k \in 1 .. m + 1
      OBVIOUS
    <3> QED BY <3>1, <3>2
  <2> QED BY <1>5, <2>1, <2>2
<1> DEFINE q == o \o p.lines
           l == p.list
<1>9. /\ l \in Seq(E) /\ q \in Seq(Lines(E))
      /\ \A i \in 1 .. Len(l) : \E k \in 1 .. m + 1 : l[i] = s[k]
      /\ \A d \in Dates(E) : Told(Backwards(l), q, d)
  BY <1>5, <1>7, <1>8
<1> HIDE DEF q, l
<1>10. RightAfter(s, m + 1, Result(l, q), E)
  <2>1. Result(l, q).list = l /\ Result(l, q).lines = q
    BY ResultIs
  <2> QED BY <1>9, <2>1 DEF RightAfter
<1>11. Passed(r, e) = Result(l, q)
  BY <1>6 DEF q, l
<1> QED BY <1>10, <1>11 DEF e

LEMMA FilteredRight ==
  ASSUME NEW E, \A e \in E : IsEmail(e), MinutesAlike(E), NEW s \in Seq(E), OnlyLocationsIn(s)
  PROVE  RightAfter(s, Len(s), Filtered(s), E)
<1>1. PICK g : Filtered(s) = g[1 .. Len(s)] /\ Runs(g, s)
  BY FilteredTakes
<1>2. Len(s) \in Nat
  BY LenProperties
<1> DEFINE T == {m \in Nat : m <= Len(s) => RightAfter(s, m, g[1 .. m], E)}
<1>3. 0 \in T
  <2>1. RightAfter(s, 0, Result(<<>>, <<>>), E)
    BY RightFirst
  <2> QED BY <1>1, <2>1 DEF Runs
<1>4. ASSUME NEW m \in Nat, m \in T PROVE m + 1 \in T
  <2> SUFFICES ASSUME m + 1 <= Len(s) PROVE RightAfter(s, m + 1, g[1 .. m + 1], E)
    OBVIOUS
  <2>1. RightAfter(s, m, g[1 .. m], E)
    BY <1>2, <1>4
  <2>2. g[1 .. m + 1] = Passed(g[1 .. m], s[m + 1])
    BY <1>1 DEF Runs
  <2> QED BY <2>1, <2>2, RightNext
<1>5. \A m \in Nat : m \in T
  <2> HIDE DEF T
  <2> QED BY <1>3, <1>4, Induction
<1>6. Len(s) \in T
  BY <1>2, <1>5
<1> QED BY <1>1, <1>2, <1>6
=============================================================================

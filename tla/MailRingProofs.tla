--------------------------- MODULE MailRingProofs ---------------------------
(***************************************************************************)
(* Theorems about MailRing for any length of the ring, any e-mails and any *)
(* length of the input: what went in comes out in order, the ring is the   *)
(* list of MailList, the calendar process uses the end of the multimap for *)
(* one reason, and both calendars announce the earliest events.            *)
(***************************************************************************)
EXTENDS MailFilter, CalendarProofs

\* The slot k places after the one at index i.
Place(i, k) == IF i + k < BufferLength THEN i + k ELSE i + k - BufferLength

Slots == 0 .. BufferLength - 1

\* The indexes and the count agree, and the slots between the indexes are full; below
\* its length wherever the reader is not about to compare.
Ring ==
  /\ Shared_Valid_Emails \in [Slots -> Emails \union {NoEmail}]
  /\ Shared_Email_count \in 0 .. BufferLength
  /\ Shared_Buffer_Read \in Slots /\ Shared_Buffer_Write \in Slots
  /\ updater # "undefined" =>
       /\ Shared_Buffer_Write = Place(Shared_Buffer_Read, Shared_Email_count)
       /\ \A k \in 1 .. Shared_Email_count :
            Shared_Valid_Emails[Place(Shared_Buffer_Read, k - 1)] \in Emails

Reading ==
  /\ line \in Emails \union {NoEmail}
  /\ reader # "spin" => Shared_Email_count < BufferLength

\* InOrder, with the types it needs.
Flow ==
  /\ received \in Seq(Emails) /\ processed \in Seq(Emails)
  /\ updater # "undefined" => received = processed \o Unread

-----------------------------------------------------------------------------
\* Indexes and sequences.

LEMMA Remainder ==
  ASSUME NEW b \in Nat \ {0}, NEW a \in 0 .. 2 * b - 1
  PROVE  a % b = IF a < b THEN a ELSE a - b
OBVIOUS

\* The index advances to the next place; places within one turn are different.
LEMMA Places ==
  ASSUME NEW i \in Slots
  PROVE  /\ After(i) = Place(i, 1)
         /\ \A k \in 0 .. BufferLength : Place(i, k) \in Slots
         /\ \A k \in 0 .. BufferLength : (i + k) % BufferLength = Place(i, k)
         /\ \A k \in 0 .. BufferLength - 1 : After(Place(i, k)) = Place(i, k + 1)
         /\ \A k \in 1 .. BufferLength : Place(After(i), k - 1) = Place(i, k)
         /\ \A j, k \in 0 .. BufferLength - 1 : Place(i, j) = Place(i, k) => j = k
<1> USE BufferLengthAssumption DEF Slots
<1>1. ASSUME NEW k \in 0 .. BufferLength
      PROVE  (i + k) % BufferLength = Place(i, k) /\ Place(i, k) \in Slots
  <2> DEFINE a == i + k
  <2>0. a \in 0 .. 2 * BufferLength - 1
    OBVIOUS
  <2>1. a % BufferLength = IF a < BufferLength THEN a ELSE a - BufferLength
    <3> HIDE DEF a
    <3> QED BY <2>0, Remainder
  <2>2. (i + k) % BufferLength = Place(i, k)
    BY <2>1 DEF Place
  <2> QED BY <2>2 DEF Place
<1>2. \A j \in Slots : After(j) = Place(j, 1)
  <2> SUFFICES ASSUME NEW j \in Slots PROVE After(j) = Place(j, 1)
    OBVIOUS
  <2> DEFINE a == j + 1
  <2>1. a % BufferLength = IF a < BufferLength THEN a ELSE a - BufferLength
    BY Remainder
  <2>2. (j + 1) % BufferLength = Place(j, 1)
    BY <2>1 DEF Place
  <2> QED BY <2>2 DEF After
<1>3. ASSUME NEW k \in 0 .. BufferLength - 1
      PROVE  After(Place(i, k)) = Place(i, k + 1)
  BY <1>2, <1>3, <1>1 DEF Place
<1>4. ASSUME NEW k \in 1 .. BufferLength
      PROVE  Place(After(i), k - 1) = Place(i, k)
  BY <1>2, <1>4 DEF Place
<1>5. \A j, k \in 0 .. BufferLength - 1 : Place(i, j) = Place(i, k) => j = k
  BY DEF Place
<1> QED BY <1>1, <1>2, <1>3, <1>4, <1>5

\* The unread e-mails, place by place.
LEMMA UnreadSeq ==
  ASSUME Ring, updater # "undefined"
  PROVE  /\ Unread \in Seq(Emails) /\ Len(Unread) = Shared_Email_count
         /\ \A k \in 1 .. Shared_Email_count :
              Unread[k] = Shared_Valid_Emails[Place(Shared_Buffer_Read, k - 1)]
<1>1. \A k \in 1 .. Shared_Email_count :
        (Shared_Buffer_Read + k - 1) % BufferLength = Place(Shared_Buffer_Read, k - 1)
  <2> SUFFICES ASSUME NEW k \in 1 .. Shared_Email_count
               PROVE  (Shared_Buffer_Read + k - 1) % BufferLength
                        = Place(Shared_Buffer_Read, k - 1)
    OBVIOUS
  <2>1. k - 1 \in 0 .. BufferLength
    BY BufferLengthAssumption DEF Ring
  <2>2. Shared_Buffer_Read + k - 1 = Shared_Buffer_Read + (k - 1)
    BY BufferLengthAssumption DEF Ring, Slots
  <2> QED BY <2>1, <2>2, Places DEF Ring
<1>2. Unread \in [1 .. Shared_Email_count -> Emails]
  BY <1>1 DEF Unread, Ring
<1>3. Unread \in Seq(Emails) /\ Shared_Email_count \in Nat
  BY <1>2, SeqDef, BufferLengthAssumption DEF Ring
<1>4. Len(Unread) = Shared_Email_count
  BY <1>2, <1>3, LenProperties
<1> QED BY <1>1, <1>3, <1>4 DEF Unread

LEMMA UnreadSeqNext ==
  ASSUME Ring', updater' # "undefined"
  PROVE  /\ Unread' \in Seq(Emails) /\ Len(Unread') = Shared_Email_count'
         /\ \A k \in 1 .. Shared_Email_count' :
              Unread'[k] = Shared_Valid_Emails'[Place(Shared_Buffer_Read', k - 1)]
<1>1. \A k \in 1 .. Shared_Email_count' :
        (Shared_Buffer_Read' + k - 1) % BufferLength = Place(Shared_Buffer_Read', k - 1)
  <2> SUFFICES ASSUME NEW k \in 1 .. Shared_Email_count'
               PROVE  (Shared_Buffer_Read' + k - 1) % BufferLength
                        = Place(Shared_Buffer_Read', k - 1)
    OBVIOUS
  <2>1. k - 1 \in 0 .. BufferLength
    BY BufferLengthAssumption DEF Ring
  <2>2. Shared_Buffer_Read' + k - 1 = Shared_Buffer_Read' + (k - 1)
    BY BufferLengthAssumption DEF Ring, Slots
  <2> QED BY <2>1, <2>2, Places DEF Ring
<1>2. Unread' \in [1 .. Shared_Email_count' -> Emails]
  BY <1>1 DEF Unread, Ring
<1>3. Unread' \in Seq(Emails) /\ Shared_Email_count' \in Nat
  BY <1>2, SeqDef, BufferLengthAssumption DEF Ring
<1>4. Len(Unread') = Shared_Email_count'
  BY <1>2, <1>3, LenProperties
<1> QED BY <1>1, <1>3, <1>4 DEF Unread

\* Appending at the end of a concatenation, and moving its middle.
LEMMA AppendAssociative ==
  ASSUME NEW S, NEW s \in Seq(S), NEW t \in Seq(S), NEW e \in S
  PROVE  Append(s \o t, e) = s \o Append(t, e)
<1>1. <<e>> \in Seq(S) /\ s \o t \in Seq(S)
  BY ConcatProperties
<1>2. Append(s \o t, e) = (s \o t) \o <<e>> /\ Append(t, e) = t \o <<e>>
  BY <1>1, AppendIsConcat
<1> QED BY <1>1, <1>2, ConcatAssociative

LEMMA HeadMoves ==
  ASSUME NEW S, NEW s \in Seq(S), NEW t \in Seq(S), t # <<>>
  PROVE  s \o t = Append(s, Head(t)) \o Tail(t)
<1>1. /\ Head(t) \in S /\ Tail(t) \in Seq(S) /\ Head(t) = t[1]
      /\ Len(Tail(t)) = Len(t) - 1 /\ \A i \in 1 .. Len(t) - 1 : Tail(t)[i] = t[i + 1]
      /\ Len(s) \in Nat /\ Len(t) \in Nat \ {0}
  BY HeadTailProperties, LenProperties, EmptySeq
<1>2. /\ Append(s, Head(t)) \in Seq(S) /\ Len(Append(s, Head(t))) = Len(s) + 1
      /\ \A i \in 1 .. Len(s) : Append(s, Head(t))[i] = s[i]
      /\ Append(s, Head(t))[Len(s) + 1] = t[1]
  BY <1>1, AppendProperties
<1> DEFINE l == s \o t
           r == Append(s, Head(t)) \o Tail(t)
<1>3. /\ l \in Seq(S) /\ Len(l) = Len(s) + Len(t)
      /\ \A i \in 1 .. Len(s) + Len(t) : l[i] = IF i <= Len(s) THEN s[i] ELSE t[i - Len(s)]
  BY ConcatProperties
<1>4. /\ r \in Seq(S) /\ Len(r) = Len(s) + 1 + (Len(t) - 1)
      /\ \A i \in 1 .. Len(s) + 1 + (Len(t) - 1) :
           r[i] = IF i <= Len(s) + 1 THEN Append(s, Head(t))[i] ELSE Tail(t)[i - (Len(s) + 1)]
  BY <1>1, <1>2, ConcatProperties
<1>5. ASSUME NEW i \in 1 .. Len(l) PROVE l[i] = r[i]
  <2>1. CASE i <= Len(s)
    BY <1>1, <1>2, <1>3, <1>4, <2>1
  <2>2. CASE i = Len(s) + 1
    BY <1>1, <1>2, <1>3, <1>4, <2>2
  <2>3. CASE i > Len(s) + 1
    <3>1. r[i] = Tail(t)[i - (Len(s) + 1)] /\ l[i] = t[i - Len(s)]
      BY <1>1, <1>3, <1>4, <2>3
    <3>2. i - (Len(s) + 1) \in 1 .. Len(t) - 1 /\ i - (Len(s) + 1) + 1 = i - Len(s)
      BY <1>1, <1>3, <2>3
    <3> QED BY <1>1, <3>1, <3>2
  <2> QED BY <1>1, <1>3, <2>1, <2>2, <2>3
<1>6. Len(l) = Len(r)
  BY <1>1, <1>3, <1>4
<1> QED BY <1>3, <1>4, <1>5, <1>6, SeqEqual

-----------------------------------------------------------------------------
\* The steps.

\* pthread_cond_signal moves a sleeper only.
LEMMA SignalAwake ==
  ASSUME Signal
  PROVE  updater' # "undefined" <=> updater # "undefined"
BY DEF Signal

\* A step that leaves the ring and what went through it alone.
LEMMA RingKept ==
  ASSUME Ring, Flow, UNCHANGED <<ring, received, processed>>,
         updater' # "undefined" => updater # "undefined"
  PROVE  Ring' /\ Flow'
BY DEF Ring, Flow, ring, Unread

\* The reader writes the slot after the last unread one, which is not full.
LEMMA PushStep ==
  ASSUME Ring, Reading, Flow, Push, line # NoEmail
  PROVE  /\ Ring' /\ Flow' /\ Shared_Email_count' = Shared_Email_count + 1
         /\ Unread' = Append(Unread, line)
<1> USE BufferLengthAssumption
<1>1. /\ updater # "undefined" /\ updater' = updater /\ line \in Emails
      /\ Shared_Email_count \in 0 .. BufferLength - 1
      /\ Shared_Valid_Emails' = [Shared_Valid_Emails EXCEPT ![Shared_Buffer_Write] = line]
      /\ Shared_Buffer_Write' = After(Shared_Buffer_Write)
      /\ Shared_Email_count' = Shared_Email_count + 1
      /\ received' = Append(received, line)
      /\ UNCHANGED <<Shared_Buffer_Read, processed>>
  BY DEF Push, Locked, Reading, Ring, updating
<1>2. /\ Shared_Buffer_Write = Place(Shared_Buffer_Read, Shared_Email_count)
      /\ Shared_Buffer_Read \in Slots /\ Shared_Buffer_Write \in Slots
  BY <1>1 DEF Ring
<1>3. Shared_Buffer_Write' = Place(Shared_Buffer_Read', Shared_Email_count')
  BY <1>1, <1>2, Places
<1>4. \A k \in 1 .. Shared_Email_count' :
        Shared_Valid_Emails'[Place(Shared_Buffer_Read', k - 1)] =
          IF k = Shared_Email_count + 1 THEN line
          ELSE Shared_Valid_Emails[Place(Shared_Buffer_Read, k - 1)]
  <2> SUFFICES ASSUME NEW k \in 1 .. Shared_Email_count'
               PROVE  Shared_Valid_Emails'[Place(Shared_Buffer_Read, k - 1)] =
                        IF k = Shared_Email_count + 1 THEN line
                        ELSE Shared_Valid_Emails[Place(Shared_Buffer_Read, k - 1)]
    BY <1>1
  <2>1. k - 1 \in 0 .. BufferLength - 1 /\ Shared_Email_count \in 0 .. BufferLength - 1
    BY <1>1
  <2>2. Place(Shared_Buffer_Read, k - 1) \in Slots
    BY <1>2, <2>1, Places
  <2>3. Place(Shared_Buffer_Read, k - 1) = Shared_Buffer_Write <=> k - 1 = Shared_Email_count
    BY <1>2, <2>1, Places
  <2> QED BY <1>1, <1>2, <2>1, <2>2, <2>3 DEF Ring
<1>5. Ring'
  <2>1. Shared_Email_count' \in 0 .. BufferLength
    BY <1>1
  <2>2. Shared_Buffer_Write' \in Slots
    BY <1>1, <1>2, <1>3, <2>1, Places
  <2>3. Shared_Valid_Emails' \in [Slots -> Emails \union {NoEmail}]
    BY <1>1 DEF Ring
  <2>4. \A k \in 1 .. Shared_Email_count' :
          Shared_Valid_Emails'[Place(Shared_Buffer_Read', k - 1)] \in Emails
    BY <1>1, <1>4 DEF Ring
  <2> QED BY <1>1, <1>2, <1>3, <2>1, <2>2, <2>3, <2>4 DEF Ring
<1>6. Unread' = Append(Unread, line)
  <2>1. /\ Unread \in Seq(Emails) /\ Len(Unread) = Shared_Email_count
        /\ \A k \in 1 .. Shared_Email_count :
             Unread[k] = Shared_Valid_Emails[Place(Shared_Buffer_Read, k - 1)]
    BY <1>1, UnreadSeq
  <2>2. /\ Unread' \in Seq(Emails) /\ Len(Unread') = Shared_Email_count'
        /\ \A k \in 1 .. Shared_Email_count' :
             Unread'[k] = Shared_Valid_Emails'[Place(Shared_Buffer_Read', k - 1)]
    BY <1>1, <1>5, UnreadSeqNext
  <2>3. /\ Append(Unread, line) \in Seq(Emails)
        /\ Len(Append(Unread, line)) = Shared_Email_count + 1
        /\ \A k \in 1 .. Shared_Email_count : Append(Unread, line)[k] = Unread[k]
        /\ Append(Unread, line)[Shared_Email_count + 1] = line
    BY <1>1, <2>1, AppendProperties
  <2>4. ASSUME NEW k \in 1 .. Len(Unread') PROVE Unread'[k] = Append(Unread, line)[k]
    <3>1. /\ k \in 1 .. Shared_Email_count + 1
          /\ Unread'[k] = IF k = Shared_Email_count + 1 THEN line
                          ELSE Shared_Valid_Emails[Place(Shared_Buffer_Read, k - 1)]
      BY <1>1, <1>4, <2>2
    <3>2. CASE k = Shared_Email_count + 1
      BY <2>3, <3>1, <3>2
    <3>3. CASE k \in 1 .. Shared_Email_count
      BY <1>1, <2>1, <2>3, <3>1, <3>3
    <3>4. k = Shared_Email_count + 1 \/ k \in 1 .. Shared_Email_count
      <4>1. Shared_Email_count \in Nat /\ k \in 1 .. Shared_Email_count + 1
        BY <1>1, <3>1
      <4> QED BY <4>1
    <3> QED BY <3>2, <3>3, <3>4
  <2>5. Len(Unread') = Len(Append(Unread, line))
    BY <1>1, <2>2, <2>3
  <2> QED BY <2>2, <2>3, <2>4, <2>5, SeqEqual
<1>7. received' = processed' \o Unread' /\ received' \in Seq(Emails)
  <2>1. Unread \in Seq(Emails) /\ processed \in Seq(Emails) /\ received = processed \o Unread
    BY <1>1, UnreadSeq DEF Flow
  <2>2. Append(processed \o Unread, line) = processed \o Append(Unread, line)
    BY <1>1, <2>1, AppendAssociative
  <2>3. received' \in Seq(Emails)
    BY <1>1, AppendProperties DEF Flow
  <2> QED BY <1>1, <1>6, <2>1, <2>2, <2>3
<1> QED BY <1>1, <1>5, <1>6, <1>7 DEF Flow

\* The calendar process takes the first unread e-mail, and only that one.
LEMMA ProcessStep ==
  ASSUME Ring, Flow, Process, updater # "undefined"
  PROVE  LET email == Shared_Valid_Emails[Shared_Buffer_Read] IN
         /\ Ring' /\ Flow' /\ Shared_Email_count' = Shared_Email_count - 1
         /\ email \in Emails /\ processed' = Append(processed, email)
         /\ Unread # <<>> /\ Head(Unread) = email
         /\ updater' # "undefined" => Unread' = Tail(Unread)
<1> USE BufferLengthAssumption
<1> DEFINE email == Shared_Valid_Emails[Shared_Buffer_Read]
<1>1. /\ Shared_Email_count \in 1 .. BufferLength
      /\ Shared_Email_count' = Shared_Email_count - 1
      /\ Shared_Valid_Emails' = [Shared_Valid_Emails EXCEPT ![Shared_Buffer_Read] = NoEmail]
      /\ UNCHANGED <<Shared_Buffer_Write, received>>
      /\ processed' = Append(processed, email)
      /\ \/ Shared_Buffer_Read' = After(Shared_Buffer_Read) /\ updater' = updater
         \/ updater' = "undefined" /\ Shared_Buffer_Read' = Shared_Buffer_Read
  <2>1. Shared_Email_count \in 1 .. BufferLength
    <3>1. Shared_Email_count > 0
      BY DEF Process
    <3> QED BY <3>1 DEF Ring
  <2>2. /\ Shared_Email_count' = Shared_Email_count - 1
        /\ Shared_Valid_Emails' = [Shared_Valid_Emails EXCEPT ![Shared_Buffer_Read] = NoEmail]
        /\ UNCHANGED <<Shared_Buffer_Write, received>>
    BY DEF Process, reading
  <2>3. /\ processed' = Append(processed, email)
        /\ \/ Shared_Buffer_Read' = After(Shared_Buffer_Read) /\ updater' = updater
           \/ updater' = "undefined" /\ Shared_Buffer_Read' = Shared_Buffer_Read
    BY Zenon DEF Process, Goto
  <2> QED BY <2>1, <2>2, <2>3
<1>2. /\ Shared_Buffer_Write = Place(Shared_Buffer_Read, Shared_Email_count)
      /\ Shared_Buffer_Read \in Slots /\ Shared_Buffer_Write \in Slots
  BY DEF Ring
<1>3. /\ Unread \in Seq(Emails) /\ Len(Unread) = Shared_Email_count
      /\ \A k \in 1 .. Shared_Email_count :
           Unread[k] = Shared_Valid_Emails[Place(Shared_Buffer_Read, k - 1)]
  BY UnreadSeq
<1>4. email = Unread[1] /\ email \in Emails
  <2>1. Place(Shared_Buffer_Read, 1 - 1) = Shared_Buffer_Read
    BY <1>2 DEF Place, Slots
  <2> QED BY <1>1, <1>3, <2>1 DEF Ring
<1>5. Shared_Valid_Emails' \in [Slots -> Emails \union {NoEmail}]
  BY <1>1 DEF Ring
<1>6. processed' \in Seq(Emails) /\ received' \in Seq(Emails)
  BY <1>1, <1>4, AppendProperties DEF Flow
<1>0. Unread # <<>> /\ Head(Unread) = email
  BY <1>1, <1>3, <1>4, EmptySeq
<1>7. CASE updater' = "undefined"
  <2>1. Shared_Buffer_Read' \in Slots
    BY <1>1, <1>2, Places
  <2>2. Shared_Email_count' \in 0 .. BufferLength
    BY <1>1
  <2>3. Ring' /\ Flow'
    BY <1>1, <1>2, <1>5, <1>6, <1>7, <2>1, <2>2 DEF Ring, Flow
  <2> QED BY <1>0, <1>1, <1>4, <1>7, <2>3
<1>8. CASE updater' # "undefined"
  <2>1. Shared_Buffer_Read' = After(Shared_Buffer_Read)
    BY <1>1, <1>8
  <2>2. Shared_Buffer_Read' \in Slots
    BY <1>2, <2>1, Places
  <2>3. \A k \in 1 .. BufferLength :
          Place(Shared_Buffer_Read', k - 1) = Place(Shared_Buffer_Read, k)
    BY <1>2, <2>1, Places
  <2>4. Shared_Buffer_Write' = Place(Shared_Buffer_Read', Shared_Email_count')
    BY <1>1, <1>2, <2>3
  <2>5. \A k \in 1 .. Shared_Email_count' :
          Shared_Valid_Emails'[Place(Shared_Buffer_Read', k - 1)] = Unread[k + 1]
    <3> SUFFICES ASSUME NEW k \in 1 .. Shared_Email_count - 1
                 PROVE  Shared_Valid_Emails'[Place(Shared_Buffer_Read, k)] = Unread[k + 1]
      BY <1>1, <2>3
    <3>1. k \in 1 .. BufferLength - 1 /\ k + 1 \in 1 .. Shared_Email_count /\ (k + 1) - 1 = k
      BY <1>1
    <3>2. Place(Shared_Buffer_Read, 0) = Shared_Buffer_Read
      BY <1>2 DEF Place, Slots
    <3>3. Place(Shared_Buffer_Read, k) \in Slots /\ Place(Shared_Buffer_Read, k) # Shared_Buffer_Read
      <4>1. k \in 0 .. BufferLength - 1 /\ 0 \in 0 .. BufferLength - 1 /\ k # 0
        BY <3>1
      <4> QED BY <1>2, <3>2, <4>1, Places
    <3>4. Unread[k + 1] = Shared_Valid_Emails[Place(Shared_Buffer_Read, k)]
      BY <1>3, <3>1
    <3> QED BY <1>1, <3>3, <3>4 DEF Ring
  <2>6. \A k \in 1 .. Shared_Email_count : Unread[k] \in Emails
    BY <1>3, ElementOfSeq
  <2>7. Ring'
    <3>1. \A k \in 1 .. Shared_Email_count' :
            Shared_Valid_Emails'[Place(Shared_Buffer_Read', k - 1)] \in Emails
      BY <1>1, <2>5, <2>6
    <3>2. Shared_Email_count' \in 0 .. BufferLength
      BY <1>1
    <3> QED BY <1>1, <1>2, <1>5, <2>2, <2>4, <3>1, <3>2 DEF Ring
  <2>8. Unread' = Tail(Unread) /\ Unread # <<>>
    <3>1. Unread # <<>>
      BY <1>1, <1>3, EmptySeq
    <3>2. /\ Tail(Unread) \in Seq(Emails) /\ Len(Tail(Unread)) = Shared_Email_count - 1
          /\ \A k \in 1 .. Shared_Email_count - 1 : Tail(Unread)[k] = Unread[k + 1]
      BY <1>3, <3>1, HeadTailProperties
    <3>3. /\ Unread' \in Seq(Emails) /\ Len(Unread') = Shared_Email_count'
          /\ \A k \in 1 .. Shared_Email_count' :
               Unread'[k] = Shared_Valid_Emails'[Place(Shared_Buffer_Read', k - 1)]
      BY <1>8, <2>7, UnreadSeqNext
    <3>4. \A k \in 1 .. Len(Unread') : Unread'[k] = Tail(Unread)[k]
      BY <1>1, <2>5, <3>2, <3>3
    <3> QED BY <1>1, <3>1, <3>2, <3>3, <3>4, SeqEqual
  <2>9. received' = processed' \o Unread'
    <3>1. processed \in Seq(Emails) /\ received = processed \o Unread
      BY DEF Flow
    <3>2. Head(Unread) = email
      BY <1>4
    <3>3. processed \o Unread = Append(processed, Head(Unread)) \o Tail(Unread)
      BY <1>3, <2>8, <3>1, HeadMoves
    <3> QED BY <1>1, <2>8, <3>1, <3>2, <3>3
  <2>10. Flow'
    BY <1>6, <2>9 DEF Flow
  <2> QED BY <1>0, <1>1, <1>4, <2>7, <2>8, <2>10
<1> QED BY <1>7, <1>8

\* The reader: it tests the count without the mutex, after it has written.
LEMMA ReaderStep ==
  ASSUME Ring, Reading, Flow, ParseValidEmailsThread
  PROVE  Ring' /\ Reading' /\ Flow'
<1> USE BufferLengthAssumption
<1>1. CASE GetLine
  <2>1. /\ line' \in Emails \union {NoEmail} /\ reader = "getline"
        /\ UNCHANGED <<ring, received, processed, updater>>
    BY <1>1 DEF GetLine, updating
  <2> QED BY <2>1, RingKept DEF Reading, ring
<1>2. CASE Push
  <2>1. line' = NoEmail /\ reader' = "spin"
    BY <1>2 DEF Push
  <2>2. CASE line # NoEmail
    BY <1>2, <2>1, <2>2, PushStep DEF Reading
  <2>3. CASE line = NoEmail
    <3>1. UNCHANGED <<ring, received, processed, updater>>
      BY <1>2, <2>3 DEF Push, updating
    <3> QED BY <2>1, <3>1, RingKept DEF Reading
  <2> QED BY <2>2, <2>3
<1>3. CASE Spin
  <2>1. /\ UNCHANGED <<ring, received, processed, line>> /\ reader = "spin"
        /\ updater' # "undefined" => updater # "undefined"
        /\ reader' = "spin" \/ ~Full
    BY <1>3, SignalAwake DEF Spin, updating
  <2>2. Reading'
    BY <2>1 DEF Reading, Ring, ring, Full
  <2> QED BY <2>1, <2>2, RingKept
<1>4. CASE EndOfInput \/ FinalSignal
  <2>1. /\ UNCHANGED <<ring, received, processed, line>> /\ reader # "spin"
        /\ updater' # "undefined" => updater # "undefined"
    BY <1>4, SignalAwake DEF EndOfInput, FinalSignal, LastSignal, updating
  <2>2. Reading'
    BY <2>1 DEF Reading, ring
  <2> QED BY <2>1, <2>2, RingKept
<1> QED BY <1>1, <1>2, <1>3, <1>4 DEF ParseValidEmailsThread

\* The calendar process.
LEMMA UpdaterStep ==
  ASSUME Ring, Reading, Flow, processCalendarThread \/ Spurious
  PROVE  Ring' /\ Reading' /\ Flow'
<1> USE BufferLengthAssumption
<1>1. CASE Process
  <2>1. updater # "undefined" /\ reader' = reader /\ line' = line
    BY <1>1 DEF Process, reading
  <2>2. Ring' /\ Flow' /\ Shared_Email_count' = Shared_Email_count - 1
    BY <1>1, <2>1, ProcessStep
  <2>3. Reading'
    BY <2>1, <2>2 DEF Reading, Ring
  <2> QED BY <2>2, <2>3
<1>2. CASE OuterTest \/ Lock \/ InnerTest \/ Wait \/ Unlock \/ Spurious
  <2>1. /\ UNCHANGED <<ring, received, processed, line, reader>>
        /\ updater # "undefined"
    BY <1>2 DEF OuterTest, Lock, InnerTest, Wait, Unlock, Spurious, reading, updating
  <2>2. Reading'
    BY <2>1 DEF Reading, ring
  <2> QED BY <2>1, <2>2, RingKept
<1> QED BY <1>1, <1>2 DEF processCalendarThread

LEMMA InitRing == Init => Ring /\ Reading /\ Flow
<1> SUFFICES ASSUME Init PROVE Ring /\ Reading /\ Flow
  OBVIOUS
<1>1. Ring
  BY BufferLengthAssumption DEF Init, Ring, Slots, Place
<1>2. Reading
  BY BufferLengthAssumption DEF Init, Reading
<1>3. /\ received = <<>> /\ processed = <<>> /\ <<>> \in Seq(Emails)
      /\ Unread \in Seq(Emails) /\ Len(Unread) = 0
  BY <1>1, UnreadSeq, EmptySeq DEF Init
<1>4. Unread = <<>>
  BY <1>3, EmptySeq
<1>5. <<>> \o <<>> = <<>>
  BY <1>3, ConcatEmptySeq
<1> QED BY <1>1, <1>2, <1>3, <1>4, <1>5 DEF Flow

LEMMA RingStep ==
  ASSUME Ring, Reading, Flow, [Next]_vars
  PROVE  Ring' /\ Reading' /\ Flow'
<1>1. CASE UNCHANGED vars
  <2>1. UNCHANGED <<ring, received, processed, line, reader, updater>>
    BY <1>1 DEF vars, reading, updating
  <2>2. Reading'
    BY <2>1 DEF Reading, ring
  <2> QED BY <2>1, <2>2, RingKept
<1> QED BY <1>1, ReaderStep, UpdaterStep DEF Next

\* For any length of the ring and any input, no e-mail is overwritten, skipped, taken
\* twice or out of order on its way to the calendar process.
THEOREM OrderTheorem == Spec => []InOrder
<1>1. Ring /\ Reading /\ Flow /\ [Next]_vars => Ring' /\ Reading' /\ Flow'
  BY RingStep
<1>2. Ring /\ Reading /\ Flow => InOrder
  BY DEF Flow, InOrder
<1> QED BY <1>1, <1>2, InitRing, PTL DEF Spec

-----------------------------------------------------------------------------
\* The other variables, and the calendar.

Types ==
  /\ Shared_Done \in BOOLEAN
  /\ CalendarFilter \in Seq(Entries(Emails))
  /\ reader \in {"getline", "lock", "spin", "signal", "exited"}
  /\ updater \in {"outer", "lock", "test", "wait", "asleep", "drain", "exited",
                  "undefined"}
  /\ lines \in 0 .. MaxLines

\* What the calendar process does with the e-mail it has taken.
LEMMA Outcomes ==
  ASSUME Process
  PROVE  LET email == Shared_Valid_Emails[Shared_Buffer_Read]
             effect == processCalendar(CalendarFilter, email, TRUE)
         IN \/ /\ effect.defined /\ CalendarFilter' = effect.calendar
               /\ output' = output \o effect.lines /\ updater' = updater
            \/ /\ ~ effect.defined /\ updater' = "undefined"
               /\ CalendarFilter' = CalendarFilter
BY Zenon DEF Process, Goto

LEMMA TypesStep ==
  ASSUME Ring, Flow, Types, [Next]_vars
  PROVE  Types'
<1>1. CASE GetLine
  BY <1>1, MaxLinesAssumption DEF GetLine, Types, updating
<1>2. CASE Push
  BY <1>2 DEF Push, Types, updating
<1>3. CASE Spin
  BY <1>3 DEF Spin, Signal, Types, updating
<1>4. CASE EndOfInput \/ FinalSignal
  BY <1>4 DEF EndOfInput, FinalSignal, LastSignal, Signal, Types, updating
<1>5. CASE OuterTest \/ Lock \/ InnerTest \/ Wait \/ Unlock \/ Spurious
  BY <1>5 DEF OuterTest, Lock, InnerTest, Wait, Unlock, Spurious, Goto, Types,
              reading, updating
<1>6. CASE Process
  <2> DEFINE email == Shared_Valid_Emails[Shared_Buffer_Read]
             effect == processCalendar(CalendarFilter, email, TRUE)
  <2>1. updater # "undefined"
    BY <1>6 DEF Process
  <2>2. email \in Emails
    BY <1>6, <2>1, ProcessStep
  <2>3. effect.defined => effect.calendar \in Seq(Entries(Emails))
    <3> HIDE DEF email
    <3> QED BY <2>2, ProcessTyped DEF Types
  <2>4. CalendarFilter' \in Seq(Entries(Emails)) /\ updater' \in {updater, "undefined"}
    BY <1>6, <2>3, Outcomes, Zenon DEF Types
  <2>5. UNCHANGED <<Shared_Done, reader, lines>>
    BY <1>6 DEF Process, reading
  <2> QED BY <2>4, <2>5 DEF Types
<1>7. CASE UNCHANGED vars
  BY <1>7 DEF vars, reading, updating, Types
<1> QED BY <1>1, <1>2, <1>3, <1>4, <1>5, <1>6, <1>7
        DEF Next, ParseValidEmailsThread, processCalendarThread

\* What is known of every reachable state.
Known == Ring /\ Reading /\ Flow /\ Types

LEMMA KnownAlways == Spec => []Known
<1>1. Init => Types
  <2> SUFFICES ASSUME Init PROVE Types
    OBVIOUS
  <2>1. <<>> \in Seq(Entries(Emails))
    BY EmptySeq
  <2>2. lines \in 0 .. MaxLines
    BY MaxLinesAssumption DEF Init
  <2> QED BY <2>1, <2>2 DEF Init, Types
<1>2. Init => Known
  BY <1>1, InitRing DEF Known
<1>3. Known /\ [Next]_vars => Known'
  BY RingStep, TypesStep DEF Known
<1> QED BY <1>2, <1>3, PTL DEF Spec

\* Every variable has its type, for any length of the ring: the count and the indexes
\* stay within it and the calendar holds e-mails of the input only, each under the
\* date of one of them.
THEOREM TypeTheorem == Spec => []TypeOK
<1>1. Known => TypeOK
  <2> SUFFICES ASSUME Known PROVE TypeOK
    OBVIOUS
  <2>1. DOMAIN CalendarFilter = 1 .. Len(CalendarFilter)
    BY LenProperties DEF Known, Types
  <2>2. \A i \in DOMAIN CalendarFilter :
          /\ CalendarFilter[i].event \in Emails
          /\ CalendarFilter[i].key \in {e.date : e \in Emails}
    <3>1. \A i \in 1 .. Len(CalendarFilter) : CalendarFilter[i] \in Entries(Emails)
      BY ElementOfSeq DEF Known, Types
    <3> QED BY <2>1, <3>1 DEF Entries
  <2> QED BY <2>2 DEF Known, Ring, Slots, Reading, Flow, Types, TypeOK
<1> QED BY <1>1, KnownAlways, PTL

-----------------------------------------------------------------------------
\* The use of the end of the multimap.

\* As long as edits change locations only, every entry of the calendar is an e-mail
\* that was processed, filed under its own date.
FiledAmong(c, p) ==
  \A i \in 1 .. Len(c) :
    c[i].key = c[i].event.date /\ \E j \in 1 .. Len(p) : c[i].event = p[j]

Filed == List!OnlyLocationsEdited => FiledAmong(CalendarFilter, processed)

\* A sequence and the one with an element more.
LEMMA OneMore ==
  ASSUME NEW p \in Seq(Emails), NEW e \in Emails
  PROVE  LET q == Append(p, e) IN
         /\ q \in Seq(Emails) /\ Len(p) \in Nat /\ Len(q) = Len(p) + 1
         /\ DOMAIN q = 1 .. Len(p) + 1 /\ DOMAIN p = 1 .. Len(p)
         /\ q[Len(p) + 1] = e /\ \A j \in 1 .. Len(p) : q[j] = p[j]
         /\ Last(q) = e
<1> DEFINE q == Append(p, e)
<1>1. /\ q \in Seq(Emails) /\ Len(q) = Len(p) + 1 /\ q[Len(p) + 1] = e
      /\ \A j \in 1 .. Len(p) : q[j] = p[j]
  BY AppendProperties
<1>2. Len(p) \in Nat /\ DOMAIN p = 1 .. Len(p) /\ DOMAIN q = 1 .. Len(q)
  BY <1>1, LenProperties
<1> QED BY <1>1, <1>2 DEF Last

\* If the edits with one e-mail more change locations only, so do those before it,
\* and it changes no date or time itself if it is one.
LEMMA OnlyLocations ==
  ASSUME NEW p \in Seq(Emails), processed = p, NEW e \in Emails,
         processed' = Append(p, e), List!OnlyLocationsEdited'
  PROVE  /\ List!OnlyLocationsEdited
         /\ e.action = "X" =>
              \A j \in 1 .. Len(p) :
                p[j].title = e.title => p[j].date = e.date /\ p[j].time = e.time
<1> DEFINE n == Len(p)
           q == Append(p, e)
<1>1. /\ n \in Nat /\ DOMAIN p = 1 .. n /\ DOMAIN q = 1 .. n + 1
      /\ q[n + 1] = e /\ \A j \in 1 .. n : q[j] = p[j]
  BY OneMore
<1> HIDE DEF n, q
<1>2. ASSUME NEW j \in 1 .. n + 1, NEW k \in 1 .. n + 1, j < k,
             q[k].action = "X", q[j].title = q[k].title
      PROVE  q[j].date = q[k].date /\ q[j].time = q[k].time
  BY <1>1, <1>2 DEF List!OnlyLocationsEdited, q
<1>3. ASSUME NEW j \in 1 .. n, NEW k \in 1 .. n, j < k,
             p[k].action = "X", p[j].title = p[k].title
      PROVE  p[j].date = p[k].date /\ p[j].time = p[k].time
  <2>1. j \in 1 .. n + 1 /\ k \in 1 .. n + 1 /\ q[j] = p[j] /\ q[k] = p[k]
    BY <1>1
  <2> QED BY <1>2, <1>3, <2>1
<1>4. ASSUME e.action = "X", NEW j \in 1 .. n, p[j].title = e.title
      PROVE  p[j].date = e.date /\ p[j].time = e.time
  <2>1. j \in 1 .. n + 1 /\ n + 1 \in 1 .. n + 1 /\ j < n + 1 /\ q[j] = p[j] /\ q[n + 1] = e
    BY <1>1
  <2> QED BY <1>2, <1>4, <2>1
<1> QED BY <1>1, <1>3, <1>4 DEF List!OnlyLocationsEdited, n

\* An e-mail leaves the calendar filed, and if the end of the multimap is used for
\* it, it deletes an event that is not there.
LEMMA ProcessFiled ==
  ASSUME Known, Filed, Process
  PROVE  Filed' /\ UndefinedOnlyByDeletingAbsent'
<1> DEFINE c == CalendarFilter
           e == Shared_Valid_Emails[Shared_Buffer_Read]
           n == Len(processed)
           effect == processCalendar(c, e, TRUE)
<1>1. SUFFICES ASSUME List!OnlyLocationsEdited'
               PROVE  Filed' /\ UndefinedOnlyByDeletingAbsent'
  BY DEF Filed, UndefinedOnlyByDeletingAbsent
<1>2. e \in Emails /\ processed' = Append(processed, e)
  <2>1. updater # "undefined"
    BY DEF Process
  <2> QED BY <2>1, ProcessStep DEF Known
<1>3. /\ n \in Nat /\ processed \in Seq(Emails) /\ processed' \in Seq(Emails)
      /\ DOMAIN processed = 1 .. n /\ DOMAIN processed' = 1 .. n + 1
      /\ Len(processed') = n + 1 /\ processed'[n + 1] = e
      /\ \A j \in 1 .. n : processed'[j] = processed[j]
      /\ Last(processed') = e
  <2>1. processed \in Seq(Emails)
    BY DEF Known, Flow
  <2> HIDE DEF e
  <2> QED BY <1>2, <2>1, OneMore
<1> HIDE DEF e, n
<1>4. /\ List!OnlyLocationsEdited
      /\ e.action = "X" =>
           \A j \in 1 .. n :
             processed[j].title = e.title
               => processed[j].date = e.date /\ processed[j].time = e.time
  BY <1>1, <1>2, <1>3, OnlyLocations DEF n
<1>5. c \in Seq(Entries(Emails)) /\ FiledAmong(c, processed)
  BY <1>4 DEF Known, Types, Filed
<1>6. e.action = "X" =>
        \A i \in 1 .. Len(c) : c[i].event.title = e.title => c[i].event.date = e.date
  BY <1>4, <1>5 DEF FiledAmong, n
<1>7. effect.defined => FiledAmong(effect.calendar, processed')
  <2> DEFINE S == {x \in Entries(Emails) : x.key = x.event.date
                                          /\ \E j \in 1 .. n + 1 : x.event = processed'[j]}
  <2>1. \A i \in 1 .. Len(c) : c[i] \in S
    <3> SUFFICES ASSUME NEW i \in 1 .. Len(c) PROVE c[i] \in S
      OBVIOUS
    <3>1. c[i] \in Entries(Emails) /\ c[i].key = c[i].event.date
      BY <1>5, ElementOfSeq DEF FiledAmong
    <3>2. PICK j \in 1 .. n : c[i].event = processed[j]
      BY <1>5 DEF FiledAmong, n
    <3>3. j \in 1 .. n + 1 /\ c[i].event = processed'[j]
      BY <1>3, <3>2
    <3> QED BY <3>1, <3>3
  <2>2. ASSUME NEW k, k = e.date, k \in {f.date : f \in Emails}
        PROVE  [key |-> k, event |-> e] \in S
    <3>1. n + 1 \in 1 .. n + 1
      BY <1>3
    <3> QED BY <1>2, <1>3, <2>2, <3>1 DEF Entries
  <2>3. [key |-> e.date, event |-> e] \in S
    BY <1>2, <2>2
  <2>4. ASSUME e.action = "X", NEW i \in 1 .. Len(c), c[i].event.title = e.title
        PROVE  [c[i] EXCEPT !.event = e] \in S
    <3>1. /\ c[i] \in Entries(Emails) /\ c[i].key = e.date
      BY <1>5, <1>6, <2>4, ElementOfSeq DEF FiledAmong
    <3>2. [c[i] EXCEPT !.event = e] = [key |-> e.date, event |-> e]
      BY <3>1 DEF Entries
    <3> QED BY <2>3, <3>2
  <2> HIDE DEF S
  <2>5. c \in Seq(S)
    BY <1>5, <2>1, Narrow
  <2>6. effect.defined => effect.calendar \in Seq(S)
    BY <2>3, <2>4, <2>5, ProcessKeeps
  <2> HIDE DEF effect
  <2>7. SUFFICES ASSUME effect.defined, NEW i \in 1 .. Len(effect.calendar)
                 PROVE  effect.calendar[i] \in S
    BY <1>3 DEF FiledAmong, S
  <2> QED BY <2>6, <2>7, ElementOfSeq
<1>8. ~ effect.defined => e.action = "D" /\ searchEventByDateTitleTime(c, e) = 0
  <2>1. \A i \in 1 .. Len(c) : c[i].key = c[i].event.date
    BY <1>5 DEF FiledAmong
  <2>2. c \in Seq([key : {f.date : f \in Emails}, event : Emails])
    BY <1>5 DEF Entries
  <2> QED BY <1>6, <2>1, <2>2, UndefinedOnlyDeleting
<1>9. \/ effect.defined /\ CalendarFilter' = effect.calendar /\ updater' = updater
      \/ ~ effect.defined /\ updater' = "undefined" /\ CalendarFilter' = c
  BY Outcomes DEF e
<1>10. updater # "undefined"
  BY DEF Process
<1> HIDE DEF effect
<1>11. CASE effect.defined /\ CalendarFilter' = effect.calendar /\ updater' = updater
  BY <1>7, <1>10, <1>11 DEF Filed, UndefinedOnlyByDeletingAbsent
<1>12. CASE ~ effect.defined /\ updater' = "undefined" /\ CalendarFilter' = c
  <2>1. FiledAmong(c, processed')
    <3> SUFFICES ASSUME NEW i \in 1 .. Len(c)
                 PROVE  c[i].key = c[i].event.date
                        /\ \E j \in 1 .. n + 1 : c[i].event = processed'[j]
      BY <1>3 DEF FiledAmong
    <3>1. PICK j \in 1 .. n : c[i].event = processed[j]
      BY <1>5 DEF FiledAmong, n
    <3>2. j \in 1 .. n + 1 /\ c[i].event = processed'[j]
      BY <1>3, <3>1
    <3> QED BY <1>5, <3>2 DEF FiledAmong
  <2> QED BY <1>3, <1>8, <1>12, <2>1 DEF Filed, UndefinedOnlyByDeletingAbsent
<1> QED BY <1>9, <1>11, <1>12

\* The other steps leave the calendar and what was processed alone, and the calendar
\* process where it is if that is nowhere.
LEMMA FiledKept ==
  ASSUME Filed, UndefinedOnlyByDeletingAbsent,
         UNCHANGED <<CalendarFilter, processed>>,
         updater' = "undefined" => updater = "undefined"
  PROVE  Filed' /\ UndefinedOnlyByDeletingAbsent'
BY DEF Filed, FiledAmong, UndefinedOnlyByDeletingAbsent, List!OnlyLocationsEdited,
       searchEventByDateTitleTime, SelectInSeq, Last

\* For any e-mails whose edits change locations only, in any number and through a ring
\* of any length, nothing but the deletion of an absent event uses the end of the
\* multimap: what remains undefined in the code once DeleteEvent is safe.
THEOREM UndefinedTheorem == Spec => []UndefinedOnlyByDeletingAbsent
<1>1. Init => Filed /\ UndefinedOnlyByDeletingAbsent
  <2> SUFFICES ASSUME Init PROVE Filed /\ UndefinedOnlyByDeletingAbsent
    OBVIOUS
  <2>1. Len(CalendarFilter) = 0 /\ updater # "undefined"
    BY DEF Init
  <2> QED BY <2>1 DEF Filed, FiledAmong, UndefinedOnlyByDeletingAbsent
<1>2. Known /\ Filed /\ UndefinedOnlyByDeletingAbsent /\ [Next]_vars
        => Filed' /\ UndefinedOnlyByDeletingAbsent'
  <2> SUFFICES ASSUME Known, Filed, UndefinedOnlyByDeletingAbsent, [Next]_vars
               PROVE  Filed' /\ UndefinedOnlyByDeletingAbsent'
    OBVIOUS
  <2>1. CASE Process
    BY <2>1, ProcessFiled
  <2>2. CASE ParseValidEmailsThread \/ OuterTest \/ Lock \/ InnerTest \/ Wait
             \/ Unlock \/ Spurious \/ UNCHANGED vars
    <3>1. /\ UNCHANGED <<CalendarFilter, processed>>
          /\ updater' = "undefined" => updater = "undefined"
      BY <2>2 DEF ParseValidEmailsThread, GetLine, Push, Spin, EndOfInput, FinalSignal,
                  LastSignal, Signal, OuterTest, Lock, InnerTest, Wait, Unlock, Spurious,
                  Goto, updating, vars
    <3> QED BY <3>1, FiledKept
  <2> QED BY <2>1, <2>2 DEF Next, processCalendarThread
<1> QED BY <1>1, <1>2, KnownAlways, PTL DEF Spec

-----------------------------------------------------------------------------
\* The ring is the list.

\* The list's processCalendar is the ring's.
LEMMA SameSearches ==
  ASSUME NEW c, NEW d
  PROVE  /\ Find(c, d) = List!Find(c, d)
         /\ SearchEventByTitle(c, d) = List!SearchEventByTitle(c, d)
         /\ searchEventByDateTitleTime(c, d) = List!searchEventByDateTitleTime(c, d)
         /\ searchEarliestEventByDate(c, d) = List!searchEarliestEventByDate(c, d)
<1>1. Find(c, d) = List!Find(c, d)
  BY DEF Find, List!Find, SelectInSeq, List!SelectInSeq, Min, List!Min
<1>2. SearchEventByTitle(c, d) = List!SearchEventByTitle(c, d)
  BY DEF SearchEventByTitle, List!SearchEventByTitle, SelectInSeq, List!SelectInSeq,
         Min, List!Min
<1>3. searchEventByDateTitleTime(c, d) = List!searchEventByDateTitleTime(c, d)
  BY DEF searchEventByDateTitleTime, List!searchEventByDateTitleTime, SelectInSeq,
         List!SelectInSeq, Min, List!Min
<1>4. searchEarliestEventByDate(c, d) = List!searchEarliestEventByDate(c, d)
  BY <1>1 DEF searchEarliestEventByDate, List!searchEarliestEventByDate, FoldLeft,
         List!FoldLeft, MapThenFoldSet, List!MapThenFoldSet, Max, List!Max, CompareTime,
         List!CompareTime
<1> QED BY <1>1, <1>2, <1>3, <1>4

LEMMA SameEdits ==
  /\ \A c, e : Emplace(c, e) = List!Emplace(c, e)
  /\ \A c, i : RemoveAt(c, i) = List!RemoveAt(c, i)
  /\ \A c, l : Effect(c, l) = List!Effect(c, l)
  /\ Undefined = List!Undefined
  /\ \A e : Line(e) = List!Line(e)
  /\ \A d : NotAvailable(d) = List!NotAvailable(d)
BY DEF Emplace, List!Emplace, InsertAt, List!InsertAt, RemoveAt, List!RemoveAt, Effect,
       List!Effect, Undefined, List!Undefined, Line, List!Line, NotAvailable,
       List!NotAvailable, Cardinality, List!Cardinality

LEMMA SameProcess ==
  ASSUME NEW c, NEW e
  PROVE  processCalendar(c, e, TRUE) = List!processCalendar(c, e, TRUE)
<1>1. CreateEvent(c, e) = List!CreateEvent(c, e)
  BY SameSearches, SameEdits DEF CreateEvent, List!CreateEvent
<1>2. EditEvent(c, e) = List!EditEvent(c, e)
  BY SameSearches, SameEdits DEF EditEvent, List!EditEvent
<1>3. DeleteEvent(c, e, TRUE) = List!DeleteEvent(c, e, TRUE)
  BY SameSearches, SameEdits DEF DeleteEvent, List!DeleteEvent, SearchFails,
     List!SearchFails, NextEarliest, List!NextEarliest
<1> QED BY <1>1, <1>2, <1>3, SameEdits DEF processCalendar, List!processCalendar

\* The reader's tests mean the same for the list.
LEMMA SameTests ==
  ASSUME Known, updater # "undefined"
  PROVE  /\ Full <=> List!Full
         /\ Shared_Email_count <= 0 <=> Unread = <<>>
<1>1. Unread \in Seq(Emails) /\ Len(Unread) = Shared_Email_count
  BY UnreadSeq DEF Known
<1>2. Shared_Email_count \in Nat
  BY BufferLengthAssumption DEF Known, Ring
<1>3. Len(Unread) = 0 <=> Unread = <<>>
  BY <1>1, EmptySeq
<1> QED BY <1>1, <1>2, <1>3 DEF Full, List!Full

LEMMA ReaderRefines ==
  ASSUME Known, ParseValidEmailsThread, updater # "undefined"
  PROVE  List!Next \/ UNCHANGED List!vars
<1> USE DEF List!reading, List!updating, reading, updating
<1>0. UNCHANGED ring => Unread' = Unread
  BY DEF ring, Unread
<1>1. CASE GetLine
  <2>1. List!GetLine
    BY <1>0, <1>1 DEF GetLine, List!GetLine, NoEmail, List!NoEmail
  <2> QED BY <2>1 DEF List!Next, List!ParseValidEmailsThread
<1>2. CASE Push
  <2>1. CASE line = NoEmail
    <3>1. Unread' = Unread
      BY <1>0, <1>2, <2>1 DEF Push
    <3>2. List!Push
      BY <1>2, <2>1, <3>1 DEF Push, List!Push, Locked, List!Locked, NoEmail, List!NoEmail
    <3> QED BY <3>2 DEF List!Next, List!ParseValidEmailsThread
  <2>2. CASE line # NoEmail
    <3>1. Unread' = Append(Unread, line)
      BY <1>2, <2>2, PushStep DEF Known
    <3>2. List!Push
      BY <1>2, <2>2, <3>1 DEF Push, List!Push, Locked, List!Locked, NoEmail, List!NoEmail
    <3> QED BY <3>2 DEF List!Next, List!ParseValidEmailsThread
  <2> QED BY <2>1, <2>2
<1>3. CASE Spin
  <2>1. Full <=> List!Full
    BY SameTests
  <2>2. List!Spin
    BY <1>0, <1>3, <2>1 DEF Spin, List!Spin, Signal, List!FullSignal, List!Signal
  <2> QED BY <2>2 DEF List!Next, List!ParseValidEmailsThread
<1>4. CASE EndOfInput
  <2>1. List!EndOfInput
    BY <1>0, <1>4 DEF EndOfInput, List!EndOfInput
  <2> QED BY <2>1 DEF List!Next, List!ParseValidEmailsThread
<1>5. CASE FinalSignal
  <2>1. List!FinalSignal
    BY <1>0, <1>5 DEF FinalSignal, List!FinalSignal, LastSignal, List!LastSignal, Signal,
                      List!Signal
  <2> QED BY <2>1 DEF List!Next, List!ParseValidEmailsThread
<1> QED BY <1>1, <1>2, <1>3, <1>4, <1>5 DEF ParseValidEmailsThread

LEMMA UpdaterRefines ==
  ASSUME Known, processCalendarThread \/ Spurious, updater' # "undefined"
  PROVE  List!Next
<1> USE DEF List!reading, List!updating, reading, updating, Goto, List!Goto,
            List!processCalendarThread
<1>0. UNCHANGED ring => Unread' = Unread
  BY DEF ring, Unread
<1>1. CASE OuterTest \/ Lock \/ Wait \/ Spurious
  <2>1. List!OuterTest \/ List!Lock \/ List!Wait \/ List!Spurious
    BY <1>0, <1>1 DEF OuterTest, List!OuterTest, Lock, List!Lock, Wait, List!Wait,
                      Spurious, List!Spurious
  <2> QED BY <2>1 DEF List!Next
<1>2. CASE InnerTest
  <2>1. Shared_Email_count <= 0 <=> Unread = <<>>
    BY <1>2, SameTests DEF InnerTest
  <2>2. List!InnerTest
    BY <1>0, <1>2, <2>1 DEF InnerTest, List!InnerTest
  <2> QED BY <2>2 DEF List!Next
<1>3. CASE Unlock
  <2>1. Unread = <<>>
    BY <1>3, SameTests DEF Unlock
  <2>2. List!Unlock
    BY <1>0, <1>3, <2>1 DEF Unlock, List!Unlock
  <2> QED BY <2>2 DEF List!Next
<1>4. CASE Process
  <2> DEFINE email == Shared_Valid_Emails[Shared_Buffer_Read]
             effect == processCalendar(CalendarFilter, email, TRUE)
  <2>1. updater = "drain" /\ UNCHANGED <<Shared_Done, reading>>
    BY <1>4 DEF Process
  <2>2. /\ Unread # <<>> /\ Head(Unread) = email /\ Unread' = Tail(Unread)
        /\ processed' = Append(processed, email)
    BY <1>4, <2>1, ProcessStep DEF Known
  <2>3. /\ effect.defined /\ CalendarFilter' = effect.calendar
        /\ output' = output \o effect.lines /\ updater' = updater
    BY <1>4, Outcomes
  <2>4. effect = List!processCalendar(CalendarFilter, Head(Unread), TRUE)
    BY <2>2, SameProcess
  <2> HIDE DEF effect, email
  <2>5. List!Process
    BY <2>1, <2>2, <2>3, <2>4 DEF List!Process
  <2> QED BY <2>5 DEF List!Next
<1> QED BY <1>1, <1>2, <1>3, <1>4 DEF processCalendarThread

\* What the list promises holds of the ring, for any length of it: every step of a
\* process takes the step of the corresponding thread, until the end of the multimap
\* is used.
THEOREM RefinementTheorem == Spec => ImplementsList
<1>1. Init => List!Init
  <2> SUFFICES ASSUME Init PROVE List!Init
    OBVIOUS
  <2>1. Unread = <<>>
    <3>1. Ring /\ updater # "undefined" /\ Shared_Email_count = 0
      BY InitRing DEF Init
    <3> QED BY <3>1, UnreadSeq, EmptySeq
  <2> QED BY <2>1 DEF Init, List!Init, NoEmail, List!NoEmail
<1>2. Known /\ [Next]_vars => [List!Next \/ updater' = "undefined"]_List!vars
  <2> SUFFICES ASSUME Known, [Next]_vars, updater' # "undefined"
               PROVE  List!Next \/ UNCHANGED List!vars
    OBVIOUS
  <2>1. CASE UNCHANGED vars
    BY <2>1 DEF vars, ring, reading, updating, List!vars, List!reading, List!updating,
                Unread
  <2>2. CASE processCalendarThread \/ Spurious
    BY <2>2, UpdaterRefines
  <2>3. CASE ParseValidEmailsThread
    <3>1. updater # "undefined"
      BY <2>3 DEF ParseValidEmailsThread, GetLine, Push, Spin, EndOfInput, FinalSignal,
                  LastSignal, Signal
    <3> QED BY <2>3, <3>1, ReaderRefines
  <2> QED BY <2>1, <2>2, <2>3 DEF Next
<1> QED BY <1>1, <1>2, KnownAlways, PTL DEF Spec, ImplementsList, List!Promise
-----------------------------------------------------------------------------
\* The announcements.

\* Times are numbers that compare as the strings do.
TimesAreNumbers == \A e \in Emails : e.time \in Int

\* As long as edits change locations only, the last line for each date is right.
Announced ==
  List!OnlyLocationsEdited =>
    /\ CalendarFilter \in Seq(Filings(Emails)) /\ output \in Seq(Lines(Emails))
    /\ \A d \in Dates(Emails) : Told(CalendarFilter, output, d)

LEMMA ProcessAnnounced ==
  ASSUME TimesAreNumbers, Known, Filed, Announced, Process
  PROVE  Announced'
<1> DEFINE c == CalendarFilter
           e == Shared_Valid_Emails[Shared_Buffer_Read]
           effect == processCalendar(c, e, TRUE)
<1> SUFFICES ASSUME List!OnlyLocationsEdited'
             PROVE  /\ CalendarFilter' \in Seq(Filings(Emails))
                    /\ output' \in Seq(Lines(Emails))
                    /\ \A d \in Dates(Emails) : Told(CalendarFilter, output, d)'
  BY DEF Announced
<1>1. e \in Emails /\ processed' = Append(processed, e) /\ processed \in Seq(Emails)
  <2>1. updater # "undefined"
    BY DEF Process
  <2> QED BY <2>1, ProcessStep DEF Known, Flow
<1>2. \/ /\ effect.defined /\ CalendarFilter' = effect.calendar
         /\ output' = output \o effect.lines
      \/ CalendarFilter' = c /\ output' = output
  BY Zenon DEF Process
<1> HIDE DEF e
<1>3. /\ List!OnlyLocationsEdited
      /\ e.action = "X" =>
           \A j \in 1 .. Len(processed) :
             processed[j].title = e.title
               => processed[j].date = e.date /\ processed[j].time = e.time
  BY <1>1, OnlyLocations
<1>4. /\ c \in Seq(Filings(Emails)) /\ output \in Seq(Lines(Emails))
      /\ \A d \in Dates(Emails) : Told(c, output, d)
  BY <1>3 DEF Announced
<1>5. e.action = "X" =>
        \A i \in 1 .. Len(c) :
          c[i].event.title = e.title => c[i].event.date = e.date /\ c[i].event.time = e.time
  BY <1>3 DEF Filed, FiledAmong
<1>6. CASE effect.defined /\ CalendarFilter' = effect.calendar
           /\ output' = output \o effect.lines
  <2>1. Tells(effect, output, Emails)
    BY <1>1, <1>4, <1>5, <1>6, ProcessTells DEF TimesAreNumbers
  <2>2. effect.calendar \in Seq(Filings(Emails))
    <3>1. [key |-> e.date, event |-> e] \in Filings(Emails)
      BY <1>1 DEF Filings
    <3>2. ASSUME e.action = "X", NEW i \in 1 .. Len(c), c[i].event.title = e.title
          PROVE  [c[i] EXCEPT !.event = e] \in Filings(Emails)
      <4>1. c[i] \in Filings(Emails) /\ c[i].event.date = e.date
        BY <1>4, <1>5, <3>2, ElementOfSeq
      <4>2. [c[i] EXCEPT !.event = e] = [key |-> e.date, event |-> e]
        BY <4>1 DEF Filings
      <4> QED BY <3>1, <4>2
    <3> QED BY <1>4, <1>6, <3>1, <3>2, ProcessKeeps
  <2> HIDE DEF effect
  <2> QED BY <1>6, <2>1, <2>2 DEF Tells
<1>7. CASE CalendarFilter' = c /\ output' = output
  BY <1>4, <1>7
<1> QED BY <1>2, <1>6, <1>7

\* Where the last line for a date is, zero if there is none.
LastOf(o, d) ==
  LET I == {i \in 1 .. Len(o) : o[i].date = d} IN IF I # {} THEN List!Max(I) ELSE 0

LEMMA LastLine ==
  ASSUME NEW o, Len(o) \in Nat, NEW d
  PROVE  /\ (\A n \in 1 .. Len(o) : o[n].date # d) => LastOf(o, d) = 0
         /\ \A x : LastFor(o, d, x) => LastOf(o, d) # 0 /\ o[LastOf(o, d)] = x
<1> DEFINE I == {i \in 1 .. Len(o) : o[i].date = d}
           last == LastOf(o, d)
<1>1. last = IF I # {} THEN List!Max(I) ELSE 0
  BY DEF LastOf
<1> HIDE DEF last
<1>2. (\A n \in 1 .. Len(o) : o[n].date # d) => last = 0
  BY <1>1
<1>3. ASSUME NEW x, LastFor(o, d, x) PROVE last # 0 /\ o[last] = x
  <2>1. PICK n \in 1 .. Len(o) :
          o[n] = x /\ o[n].date = d /\ \A m \in 1 .. Len(o) : m > n => o[m].date # d
    BY <1>3 DEF LastFor
  <2>2. n \in I /\ \A m \in I : m \in Nat /\ n >= m
    BY <2>1
  <2> HIDE DEF I
  <2>3. \A m \in I : (\A k \in I : m >= k) => m = n
    BY <2>2
  <2>4. List!Max(I) = n
    BY <2>2, <2>3 DEF List!Max
  <2> QED BY <1>1, <2>1, <2>2, <2>4
<1> QED BY <1>2, <1>3 DEF last

\* For any e-mails whose edits change locations only, in any number and through a ring
\* of any length: the last line printed for a date tells its earliest event, or that
\* none is left.  The times are numbers.
THEOREM AnnouncementTheorem ==
  ASSUME TimesAreNumbers PROVE Spec => []AnnouncesEarliest
<1> DEFINE c == CalendarFilter
<1>1. Init => Filed /\ UndefinedOnlyByDeletingAbsent /\ Announced
  <2> SUFFICES ASSUME Init PROVE Filed /\ UndefinedOnlyByDeletingAbsent /\ Announced
    OBVIOUS
  <2>1. /\ Len(CalendarFilter) = 0 /\ updater # "undefined" /\ Len(output) = 0
        /\ CalendarFilter = <<>> /\ output = <<>>
    BY DEF Init
  <2>2. <<>> \in Seq(Filings(Emails)) /\ <<>> \in Seq(Lines(Emails))
    BY EmptySeq
  <2>3. \A i \in 1 .. 0 : FALSE
    OBVIOUS
  <2>4. \A d \in Dates(Emails) : Told(CalendarFilter, output, d)
    BY <2>1, <2>3 DEF Told, Bare
  <2> QED BY <2>1, <2>2, <2>4 DEF Filed, FiledAmong, UndefinedOnlyByDeletingAbsent, Announced
<1>2. Known /\ Filed /\ UndefinedOnlyByDeletingAbsent /\ Announced /\ [Next]_vars
        => Filed' /\ UndefinedOnlyByDeletingAbsent' /\ Announced'
  <2> SUFFICES ASSUME Known, Filed, UndefinedOnlyByDeletingAbsent, Announced, [Next]_vars
               PROVE  Filed' /\ UndefinedOnlyByDeletingAbsent' /\ Announced'
    OBVIOUS
  <2>1. CASE Process
    BY <2>1, ProcessFiled, ProcessAnnounced
  <2>2. CASE ParseValidEmailsThread \/ OuterTest \/ Lock \/ InnerTest \/ Wait
             \/ Unlock \/ Spurious \/ UNCHANGED vars
    <3>1. /\ UNCHANGED <<CalendarFilter, processed, output>>
          /\ updater' = "undefined" => updater = "undefined"
      BY <2>2 DEF ParseValidEmailsThread, GetLine, Push, Spin, EndOfInput, FinalSignal,
                  LastSignal, Signal, OuterTest, Lock, InnerTest, Wait, Unlock, Spurious,
                  Goto, updating, vars
    <3>2. List!OnlyLocationsEdited' => List!OnlyLocationsEdited
      BY <3>1 DEF List!OnlyLocationsEdited
    <3>3. Announced'
      BY <3>1, <3>2 DEF Announced
    <3> QED BY <3>1, <3>3, FiledKept
  <2> QED BY <2>1, <2>2 DEF Next, processCalendarThread
<1>3. Known /\ Announced => AnnouncesEarliest
  <2> SUFFICES ASSUME Known, Announced, List!OnlyLocationsEdited,
                      NEW d \in {processed[k].date : k \in DOMAIN processed}
               PROVE  LET events == {x.event : x \in {y \in List!ToSet(c) : y.event.date = d}}
                          announced == output[LastOf(output, d)]
                      IN IF events = {}
                           THEN LastOf(output, d) # 0 => announced = List!NotAvailable(d)
                           ELSE /\ LastOf(output, d) # 0
                                /\ \E e \in events : /\ announced = List!Line(e)
                                                     /\ \A f \in events : e.time <= f.time
    BY DEF AnnouncesEarliest, List!AnnouncesEarliest, List!SelectLastInSeq, LastOf
  <2> DEFINE events == {x.event : x \in {y \in List!ToSet(c) : y.event.date = d}}
             last == LastOf(output, d)
  <2>1. /\ c \in Seq(Filings(Emails)) /\ output \in Seq(Lines(Emails))
        /\ Len(output) \in Nat /\ DOMAIN c = 1 .. Len(c) /\ Len(c) \in Nat
    BY LenProperties DEF Announced
  <2>2. d \in Dates(Emails)
    <3>1. processed \in Seq(Emails) /\ DOMAIN processed = 1 .. Len(processed)
      BY LenProperties DEF Known, Flow
    <3>2. PICK k \in DOMAIN processed : d = processed[k].date
      OBVIOUS
    <3>3. processed[k] \in Emails
      BY <3>1, <3>2, ElementOfSeq
    <3> QED BY <3>2, <3>3 DEF Dates
  <2>3. Told(c, output, d)
    BY <2>2 DEF Announced
  <2>4. events = {c[i].event : i \in {m \in 1 .. Len(c) : c[m].event.date = d}}
    BY <2>1 DEF List!ToSet
  <2>5. /\ (\A n \in 1 .. Len(output) : output[n].date # d) => last = 0
        /\ \A x : LastFor(output, d, x) => last # 0 /\ output[last] = x
    BY <2>1, LastLine
  <2>6. List!NotAvailable(d) = NotAvailable(d) /\ \A e : List!Line(e) = Line(e)
    BY SameEdits
  <2> HIDE DEF events, last
  <2>7. CASE Bare(c, d)
    <3>1. events = {}
      BY <2>4, <2>7 DEF Bare
    <3>2. last # 0 => output[last] = NotAvailable(d)
      BY <2>3, <2>5, <2>7 DEF Told
    <3> QED BY <2>6, <3>1, <3>2 DEF events, last
  <2>8. CASE ~ Bare(c, d)
    <3>1. PICK j : IsEarliest(c, d, Len(c), j) /\ LastFor(output, d, Line(c[j].event))
      BY <2>3, <2>8 DEF Told
    <3>2. last # 0 /\ output[last] = Line(c[j].event)
      BY <2>5, <3>1
    <3>3. c[j].event \in events
      BY <2>4, <3>1 DEF IsEarliest
    <3>4. \A f \in events : c[j].event.time <= f.time
      BY <2>4, <3>1 DEF IsEarliest
    <3> QED BY <2>6, <3>2, <3>3, <3>4 DEF events, last
  <2> QED BY <2>7, <2>8
<1> QED BY <1>1, <1>2, <1>3, KnownAlways, PTL DEF Spec
-----------------------------------------------------------------------------
\* The calendar of Assignment1.

\* An e-mail has the fields of an e-mail and a time that is a number.
EmailsAreRecords == \A e \in Emails : IsEmail(e)

\* The place of the last line for a date among the lines of Assignment1.
LastOfFilter(o, d) ==
  LET I == {i \in 1 .. Len(o) : o[i].date = d} IN IF I # {} THEN Max(I) ELSE 0

LEMMA LastLineOfFilter ==
  ASSUME NEW o, NEW d
  PROVE  LastOfFilter(o, d) = LastOf(o, d)
BY DEF LastOfFilter, LastOf, Max, List!Max

\* The last of the lines o for a date tells its earliest event in the list.
Announcing(list, o, d) ==
  LET events == {e \in ToSet(list) : e.date = d}
      announced == o[LastOfFilter(o, d)]
  IN IF events = {}
       THEN LastOfFilter(o, d) # 0 => announced = NotAvailable(d)
       ELSE /\ LastOfFilter(o, d) # 0
            /\ \E e \in events : /\ announced = Line(e)
                                 /\ \A f \in events : e.time <= f.time

\* What the program of Assignment1 has printed for the e-mails processed is right.
LEMMA FilterRight ==
  ASSUME EmailsAreRecords, Known, List!OnlyLocationsEdited, MinutesOrderedAlike,
         NEW strays \in [DOMAIN processed -> Strays]
  PROVE  LET s == Parsed(processed, strays)
             E == {s[k] : k \in 1 .. Len(processed)}
             r == Filtered(s)
         IN /\ \A e \in E : e.time \in Int
            /\ Dates(E) = {processed[k].date : k \in DOMAIN processed}
            /\ r.list \in Seq(E) /\ r.lines \in Seq(Lines(E))
            /\ \A d \in Dates(E) : Told(Backwards(r.list), r.lines, d)
<1> DEFINE p == processed
           n == Len(p)
           s == Parsed(p, strays)
           E == {s[k] : k \in 1 .. n}
<1>1. p \in Seq(Emails) /\ n \in Nat /\ DOMAIN p = 1 .. n
  BY LenProperties DEF Known, Flow
<1>2. s = [i \in 1 .. n |-> parseInput(p[i], strays[i])]
  BY <1>1 DEF Parsed
<1>3. \A k \in 1 .. n : /\ IsEmail(s[k]) /\ s[k].action = p[k].action
                         /\ s[k].title = p[k].title /\ s[k].date = p[k].date
                         /\ s[k].time = p[k].time
  <2> SUFFICES ASSUME NEW k \in 1 .. n
               PROVE  /\ IsEmail(s[k]) /\ s[k].action = p[k].action
                      /\ s[k].title = p[k].title /\ s[k].date = p[k].date
                      /\ s[k].time = p[k].time
    OBVIOUS
  <2> DEFINE e == p[k]
             l == Kept[e.location][strays[k]]
  <2>1. IsEmail(e)
    BY <1>1, ElementOfSeq DEF EmailsAreRecords
  <2>2. s[k] = [e EXCEPT !.location = l]
    BY <1>2 DEF parseInput
  <2> HIDE DEF e, l, s
  <2>3. s[k] = [action |-> e.action, title |-> e.title, date |-> e.date, time |-> e.time,
                location |-> l]
    BY <2>1, <2>2 DEF IsEmail
  <2> QED BY <2>1, <2>3 DEF IsEmail, e
<1>4. s \in Seq(E) /\ Len(s) = n
  <2>1. s \in [1 .. n -> E]
    BY <1>2
  <2> HIDE DEF E, p, n, s
  <2>2. s \in Seq(E)
    BY <1>1, <2>1, SeqDef
  <2>3. DOMAIN s = 1 .. Len(s) /\ Len(s) \in Nat /\ DOMAIN s = 1 .. n /\ n \in Nat
    BY <1>1, <2>1, <2>2, LenProperties
  <2>4. Len(s) = n
    <3> DEFINE m == Len(s)
    <3>1. m \in Nat /\ n \in Nat /\ 1 .. m = 1 .. n
      BY <2>3
    <3> HIDE DEF m
    <3>2. (m = 0 \/ m \in 1 .. n) /\ (n = 0 \/ n \in 1 .. m)
      <4>1. m = 0 \/ m \in 1 .. m
        BY <3>1
      <4>2. n = 0 \/ n \in 1 .. n
        BY <3>1
      <4> QED BY <3>1, <4>1, <4>2
    <3>3. m = n
      BY <3>1, <3>2
    <3> QED BY <3>3 DEF m
  <2> QED BY <2>2, <2>4
<1> HIDE DEF s
<1>5. \A e \in E : IsEmail(e)
  BY <1>3
<1>6. MinutesAlike(E)
  <2>1. \A j, k \in 1 .. n : p[j].time < p[k].time => Minute(p[j].time) <= Minute(p[k].time)
    BY <1>1 DEF MinutesOrderedAlike
  <2> QED BY <1>3, <2>1 DEF MinutesAlike
<1>7. OnlyLocationsIn(s)
  <2>1. \A j, k \in 1 .. n :
          j < k /\ p[k].action = "X" /\ p[j].title = p[k].title
            => p[j].date = p[k].date /\ p[j].time = p[k].time
    BY <1>1 DEF List!OnlyLocationsEdited
  <2> QED BY <1>3, <1>4, <2>1 DEF OnlyLocationsIn
<1>8. Dates(E) = {p[k].date : k \in DOMAIN p}
  BY <1>1, <1>3 DEF Dates
<1>9. RightAfter(s, n, Filtered(s), E)
  <2> HIDE DEF E, n
  <2> QED BY <1>4, <1>5, <1>6, <1>7, FilteredRight
<1> QED BY <1>5, <1>8, <1>9 DEF RightAfter, IsEmail, s

\* For any e-mails whose edits change locations only and whose minutes are ordered as
\* the hours are, in any number, and for any bytes that parseInput leaves: the calendar of
\* Assignment1 too has last announced a date's earliest event, or that none is left.
THEOREM FilterTheorem ==
  ASSUME EmailsAreRecords PROVE Spec => []FilterAnnouncesEarliest
<1>1. Known => FilterAnnouncesEarliest
  <2> SUFFICES ASSUME Known, List!OnlyLocationsEdited, MinutesOrderedAlike,
                      NEW strays \in [DOMAIN processed -> Strays],
                      NEW d \in {processed[k].date : k \in DOMAIN processed}
               PROVE  Announcing(Filtered(Parsed(processed, strays)).list,
                                 Filtered(Parsed(processed, strays)).lines, d)
    BY DEF FilterAnnouncesEarliest, SelectLastInSeq, LastOfFilter, Announcing
  <2> DEFINE s == Parsed(processed, strays)
             r == Filtered(s)
             list == r.list
             o == r.lines
             events == {e \in ToSet(list) : e.date = d}
             last == LastOfFilter(o, d)
             E == {s[k] : k \in 1 .. Len(processed)}
             c == Backwards(list)
  <2>1. /\ \A e \in E : e.time \in Int
        /\ list \in Seq(E) /\ o \in Seq(Lines(E)) /\ \A b \in Dates(E) : Told(c, o, b)
    BY FilterRight
  <2>2. d \in Dates(E)
    BY FilterRight
  <2> HIDE DEF E, list, o, r, s
  <2> SUFFICES Announcing(list, o, d)
    BY DEF list, o, r, s
  <2>3. Told(c, o, d)
    BY <2>1, <2>2
  <2>4. /\ Len(c) = Len(list) /\ DOMAIN list = 1 .. Len(list)
        /\ \A i \in 1 .. Len(list) :
             /\ Len(list) + 1 - i \in 1 .. Len(list)
             /\ Len(list) + 1 - (Len(list) + 1 - i) = i
             /\ c[i].event = list[Len(list) + 1 - i]
    BY <2>1, BackwardsIs, LenProperties
  <2>5. /\ \A x \in events : \E i \in 1 .. Len(c) : c[i].event.date = d /\ x = c[i].event
        /\ \A i \in 1 .. Len(c) : c[i].event.date = d => c[i].event \in events
    <3> DEFINE n == Len(list)
    <3>1. /\ ToSet(list) = {list[i] : i \in 1 .. n} /\ Len(c) = n
          /\ \A i \in 1 .. n : /\ n + 1 - i \in 1 .. n /\ n + 1 - (n + 1 - i) = i
                               /\ c[i].event = list[n + 1 - i]
      BY <2>4 DEF ToSet
    <3> HIDE DEF c, n
    <3>2. \A i \in 1 .. n : list[i] = c[n + 1 - i].event
      BY <3>1
    <3>3. ASSUME NEW x \in events
          PROVE  \E i \in 1 .. n : c[i].event.date = d /\ x = c[i].event
      <4>1. PICK i \in 1 .. n : x = list[i] /\ list[i].date = d
        BY <3>1
      <4> DEFINE m == n + 1 - i
      <4>2. m \in 1 .. n /\ x = c[m].event
        BY <3>1, <3>2, <4>1
      <4> HIDE DEF m
      <4> QED BY <4>1, <4>2
    <3>4. ASSUME NEW i \in 1 .. n, c[i].event.date = d PROVE c[i].event \in events
      <4> DEFINE m == n + 1 - i
      <4>1. m \in 1 .. n /\ c[i].event = list[m]
        BY <3>1
      <4> HIDE DEF m
      <4> QED BY <3>1, <3>4, <4>1
    <3> QED BY <3>1, <3>3, <3>4
  <2>6. /\ (\A n \in 1 .. Len(o) : o[n].date # d) => last = 0
        /\ \A x : LastFor(o, d, x) => last # 0 /\ o[last] = x
    BY <2>1, LastLine, LastLineOfFilter, LenProperties
  <2> HIDE DEF events, last, c
  <2>7. CASE Bare(c, d)
    <3>1. events = {}
      BY <2>5, <2>7 DEF Bare
    <3>2. last # 0 => o[last] = NotAvailable(d)
      BY <2>3, <2>6, <2>7 DEF Told
    <3> QED BY <3>1, <3>2 DEF events, last, Announcing
  <2>8. CASE ~ Bare(c, d)
    <3>1. PICK j : IsEarliest(c, d, Len(c), j) /\ LastFor(o, d, Line(c[j].event))
      BY <2>3, <2>8 DEF Told
    <3>2. last # 0 /\ o[last] = Line(c[j].event)
      BY <2>6, <3>1
    <3>3. c[j].event \in events
      BY <2>5, <3>1 DEF IsEarliest
    <3>4. \A f \in events : c[j].event.time <= f.time
      BY <2>5, <3>1 DEF IsEarliest
    <3> QED BY <3>2, <3>3, <3>4 DEF events, last, Announcing
  <2> QED BY <2>7, <2>8
<1> QED BY <1>1, KnownAlways, PTL
=============================================================================

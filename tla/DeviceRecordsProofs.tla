------------------------ MODULE DeviceRecordsProofs ------------------------
(***************************************************************************)
(* Theorems about DeviceRecords, for any addresses, scanners, observations *)
(* and times: whatever batches, sweeps, merges, splits and retention do to *)
(* each other, only the named accidents part a device from what was seen.  *)
(***************************************************************************)
EXTENDS DeviceRecords, FiniteSetTheorems, SequenceTheorems, TLAPS

Accidents ==
  [doubled : SUBSET Addresses, refused : SUBSET Addresses,
   raced : SUBSET (1 .. Budget), twinned : SUBSET (1 .. Budget),
   clouded : SUBSET (1 .. MaxDevices), hidden : SUBSET (1 .. MaxDevices),
   parted : SUBSET (1 .. Budget), misplaced : SUBSET (1 .. MaxDevices)]

\* The identities whose rows may be on two devices without a split.
Astray(a) == a.raced \cup a.twinned

\* What refers to a row finds it.
Consistent(d, time) ==
  /\ d \in Database
  /\ Len(d.identities) <= Budget
  /\ Len(d.devices) <= MaxDevices
  /\ \A r \in d.rows :
       r.identity \in DOMAIN d.identities /\ r.device \in DOMAIN d.devices /\ r.at <= time
  /\ \A k \in DOMAIN d.links :
       /\ {d.links[k].predecessor, d.links[k].successor} \subseteq DOMAIN d.identities
       /\ {d.links[k].from, d.links[k].to} \subseteq DOMAIN d.devices

\* The six properties of one database and the accidents so far.
Named(d, a) ==
  \A i, j \in DOMAIN d.identities :
    i # j /\ d.identities[i] = d.identities[j] => d.identities[i] \in a.doubled

OneHome(d, a) ==
  \A q, r \in d.rows :
    q.identity = r.identity /\ q.identity \notin Astray(a) => q.device = r.device

Shown(d, a) ==
  \A r \in d.rows : Retired(d.devices[r.device]) => r.device \in a.hidden \cup a.clouded

\* A device that is said to be absent has not been seen for that long.
Aged(device, time) ==
  /\ device.status \in Absent => time - device.seen >= MissingAfter
  /\ device.status = "offline" => time - device.seen >= OfflineAfter

Present(d, a, time) ==
  /\ \A r \in d.rows : r.device \notin a.clouded => r.at <= d.devices[r.device].seen
  /\ \A s \in DOMAIN d.devices \ a.clouded : Aged(d.devices[s], time)

InPlace(d, a) ==
  \A s \in DOMAIN d.devices \ (a.clouded \cup a.misplaced) : ~Displaced(d.devices[s])

\* Accepted pairs are on one device, but perhaps for the devices S, which are
\* about to be merged.
Together(d, a, S) ==
  \A k \in DOMAIN d.links :
    LET l == d.links[k]
    IN  l.status = "accepted" /\ {l.predecessor, l.successor} \cap (a.parted \cup Astray(a)) = {}
          => \A q, r \in d.rows :
               q.identity = l.predecessor /\ r.identity = l.successor
                 => q.device = r.device \/ {q.device, r.device} \subseteq S

Kept(d, a, time) ==
  Named(d, a) /\ OneHome(d, a) /\ Shown(d, a) /\ Present(d, a, time) /\ InPlace(d, a)

\* Accidents are never forgotten.
More(a, b) ==
  /\ a.doubled \subseteq b.doubled /\ Astray(a) \subseteq Astray(b)
  /\ a.clouded \subseteq b.clouded /\ a.hidden \subseteq b.hidden
  /\ a.parted \subseteq b.parted /\ a.misplaced \subseteq b.misplaced

-----------------------------------------------------------------------------
(* Changes of single devices.                                              *)

\* A device that stays where it is and was seen no earlier than before.
Gentle(old, new, time) ==
  /\ old.seen <= new.seen \/ new.seen = time
  /\ new.scanner = old.scanner /\ new.place = old.place
  /\ Retired(new) => Retired(old)
  /\ Aged(new, time)

\* Rows may be forgotten, and devices change gently or in an accident.
Mild(d, e, a, time) ==
  /\ e.identities = d.identities
  /\ e.links = d.links
  /\ e.rows \subseteq d.rows
  /\ Len(e.devices) = Len(d.devices)
  /\ \A s \in DOMAIN d.devices \ a.clouded : Gentle(d.devices[s], e.devices[s], time)

LEMMA DeviceAt ==
  ASSUME NEW d \in Database
  PROVE  /\ d.devices \in Seq(Device) /\ d.identities \in Seq(Addresses)
         /\ DOMAIN d.devices = 1 .. Len(d.devices) /\ Len(d.devices) \in Nat
         /\ DOMAIN d.identities = 1 .. Len(d.identities) /\ Len(d.identities) \in Nat
         /\ \A s \in DOMAIN d.devices : d.devices[s] \in Device /\ d.devices[s].seen \in Nat
         /\ d.rows \subseteq Row
         /\ \A r \in d.rows : r.at \in Nat /\ r.identity \in Nat /\ r.device \in Nat
  <1>1. d.devices \in Seq(Device) /\ d.identities \in Seq(Addresses) /\ d.rows \subseteq Row
    BY DEF Database
  <1>2. \A s \in DOMAIN d.devices : d.devices[s] \in Device
    BY <1>1
  <1>3. \A x \in Device : x.seen \in Nat
    BY DEF Device
  <1>4. \A r \in Row : r.at \in Nat /\ r.identity \in Nat /\ r.device \in Nat
    BY DEF Row
  <1> QED
    BY <1>1, <1>2, <1>3, <1>4

LEMMA MildKeeps ==
  ASSUME NEW a, NEW b, More(a, b), NEW time \in Nat, NEW later \in Nat, time <= later,
         NEW d, Consistent(d, time), Kept(d, a, time), Together(d, a, {}),
         NEW e \in Database, Mild(d, e, b, later)
  PROVE  Consistent(e, later) /\ Kept(e, b, later) /\ Together(e, b, {})
  <1>1. d \in Database
    BY DEF Consistent
  <1>2. DOMAIN e.devices = DOMAIN d.devices
    BY <1>1, DeviceAt DEF Mild
  <1>3. Consistent(e, later)
    <2>1. \A r \in e.rows : r \in d.rows /\ r.at \in Nat
      BY <1>1, DeviceAt DEF Mild
    <2> QED
      BY <1>2, <2>1 DEF Consistent, Mild
  <1>4. Named(e, b) /\ OneHome(e, b) /\ Together(e, b, {})
    <2>1. Named(e, b)
      BY DEF Kept, Named, Mild, More
    <2>2. OneHome(e, b)
      BY DEF Kept, OneHome, Mild, More
    <2>3. Together(e, b, {})
      BY DEF Together, Mild, More
    <2> QED
      BY <2>1, <2>2, <2>3
  <1>5. \A s \in DOMAIN d.devices \ b.clouded :
          Gentle(d.devices[s], e.devices[s], later)
    BY DEF Mild
  <1>6. Shown(e, b)
    <2> SUFFICES ASSUME NEW r \in e.rows, Retired(e.devices[r.device]), r.device \notin b.clouded
                 PROVE  r.device \in b.hidden
      BY DEF Shown
    <2>1. r \in d.rows /\ r.device \in DOMAIN d.devices
      BY DEF Mild, Consistent
    <2>2. Retired(d.devices[r.device])
      BY <1>5, <2>1 DEF Gentle
    <2> QED
      BY <2>1, <2>2 DEF Kept, Shown, More
  <1>7. Present(e, b, later)
    <2>1. ASSUME NEW r \in e.rows, r.device \notin b.clouded
          PROVE  r.at <= e.devices[r.device].seen
      <3>1. r \in d.rows /\ r.device \in DOMAIN d.devices
        BY DEF Mild, Consistent
      <3>2. r.at <= d.devices[r.device].seen
        BY <2>1, <3>1 DEF Kept, Present, More
      <3>3. \/ d.devices[r.device].seen <= e.devices[r.device].seen
            \/ later = e.devices[r.device].seen
        BY <1>5, <2>1, <3>1 DEF Gentle
      <3>4. r.at \in Nat /\ d.devices[r.device].seen \in Nat /\ e.devices[r.device].seen \in Nat
        BY <1>1, <1>2, <3>1, DeviceAt
      <3>5. r.at <= time
        BY <3>1 DEF Consistent
      <3> QED
        BY <3>2, <3>3, <3>4, <3>5
    <2> QED
      BY <1>2, <1>5, <2>1 DEF Present, Gentle
  <1>8. InPlace(e, b)
    BY <1>2, <1>5 DEF Kept, InPlace, Gentle, Displaced, More
  <1> QED
    BY <1>3, <1>4, <1>6, <1>7, <1>8 DEF Kept

-----------------------------------------------------------------------------
(* Merges.                                                                 *)

\* Every row of m becomes one of c, which takes over status, place and time from
\* the one that was seen last.
LEMMA MergedParts ==
  ASSUME NEW d \in Database, NEW c \in DOMAIN d.devices, NEW m \in DOMAIN d.devices, c # m,
         Len(d.devices) <= MaxDevices, NEW e, e = Merged(d, c, m)
  PROVE  /\ e \in Database
         /\ e.identities = d.identities /\ e.links = d.links
         /\ DOMAIN e.devices = DOMAIN d.devices /\ Len(e.devices) = Len(d.devices)
         /\ \A s \in DOMAIN d.devices : s \notin {c, m} => e.devices[s] = d.devices[s]
         /\ e.devices[m].status = "merged" /\ e.devices[m].place = Nowhere
         /\ \E s \in {c, m} :
              /\ e.devices[c].status = d.devices[s].status
              /\ e.devices[c].seen = d.devices[s].seen
              /\ e.devices[c].scanner = d.devices[s].scanner
              /\ e.devices[c].place = d.devices[s].place
              /\ d.devices[c].seen <= d.devices[s].seen
              /\ d.devices[m].seen <= d.devices[s].seen
         /\ \A r \in e.rows : \E q \in d.rows :
              /\ r.identity = q.identity /\ r.at = q.at
              /\ r.device = IF q.device = m THEN c ELSE q.device
  <1> DEFINE from == d.devices[m]
             to == d.devices[c]
             best == IF from.seen >= to.seen THEN from ELSE to
             first == [best EXCEPT !.known = from.known \/ to.known, !.ignored = FALSE]
             second == [from EXCEPT !.ignored = TRUE, !.status = "merged",
                                    !.scanner = NoScanner, !.place = Nowhere]
             Moved(r) == IF r.device = m THEN [r EXCEPT !.device = c] ELSE r
  <1>1. c \in 1 .. MaxDevices
    BY DeviceAt, TimesAssumption
  <1>2. first \in Device /\ second \in Device
    <2>1. from \in Device /\ to \in Device
      BY DeviceAt
    <2>2. best \in Device /\ (from.known \/ to.known) \in BOOLEAN
      BY <2>1 DEF Device
    <2>3. first \in Device
      BY <2>2 DEF Device
    <2>4. second \in Device
      BY <2>1 DEF Device, Places, Statuses
    <2> QED
      BY <2>3, <2>4
  <1>3. e = [d EXCEPT !.devices = [[d.devices EXCEPT ![c] = first] EXCEPT ![m] = second],
                      !.rows = {Moved(r) : r \in d.rows}, !.enriched = {Moved(r) : r \in d.enriched}]
    BY DEF Merged, Database
  <1>4. [[d.devices EXCEPT ![c] = first] EXCEPT ![m] = second] \in Seq(Device)
    BY <1>2, DeviceAt
  <1>5. {Moved(r) : r \in d.rows} \subseteq Row
    BY <1>1, DeviceAt DEF Row
  <1>6. {Moved(r) : r \in d.enriched} \subseteq [identity : 1 .. Budget, device : 1 .. MaxDevices]
    BY <1>1 DEF Database
  <1>7. e \in Database
    BY <1>3, <1>4, <1>5, <1>6 DEF Database
  <1>8. /\ e.identities = d.identities /\ e.links = d.links
        /\ e.devices = [[d.devices EXCEPT ![c] = first] EXCEPT ![m] = second]
        /\ e.rows = {Moved(r) : r \in d.rows}
    BY <1>3 DEF Database
  <1>9. e.devices[c] = first /\ e.devices[m] = second
    BY <1>8, DeviceAt
  <1>10. \A r \in e.rows : \E q \in d.rows :
           /\ r.identity = q.identity /\ r.at = q.at
           /\ r.device = IF q.device = m THEN c ELSE q.device
    <2>1. \A q \in d.rows : /\ Moved(q).identity = q.identity /\ Moved(q).at = q.at
                            /\ Moved(q).device = IF q.device = m THEN c ELSE q.device
      BY DeviceAt DEF Row
    <2>2. \A r \in e.rows : \E q \in d.rows : r = Moved(q)
      BY <1>8
    <2> HIDE DEF Moved
    <2> QED
      BY <2>1, <2>2
  <1>11. \E s \in {c, m} :
           /\ e.devices[c].status = d.devices[s].status
           /\ e.devices[c].seen = d.devices[s].seen
           /\ e.devices[c].scanner = d.devices[s].scanner
           /\ e.devices[c].place = d.devices[s].place
           /\ d.devices[c].seen <= d.devices[s].seen
           /\ d.devices[m].seen <= d.devices[s].seen
    <2>1. from \in Device /\ to \in Device /\ from.seen \in Nat /\ to.seen \in Nat
      BY DeviceAt
    <2>2. /\ first.status = best.status /\ first.seen = best.seen
          /\ first.scanner = best.scanner /\ first.place = best.place
      BY <2>1 DEF Device
    <2>3. CASE from.seen >= to.seen
      BY <1>9, <2>1, <2>2, <2>3
    <2>4. CASE ~(from.seen >= to.seen)
      BY <1>9, <2>1, <2>2, <2>4
    <2> QED
      BY <2>3, <2>4
  <1>12. second.status = "merged" /\ second.place = Nowhere
    <2>1. from \in Device
      BY DeviceAt
    <2> QED
      BY <2>1 DEF Device
  <1> HIDE DEF first, second
  <1>13. DOMAIN e.devices = DOMAIN d.devices /\ Len(e.devices) = Len(d.devices)
    BY <1>7, <1>8, DeviceAt
  <1>14. \A s \in DOMAIN d.devices : s \notin {c, m} => e.devices[s] = d.devices[s]
    BY <1>8, DeviceAt
  <1> QED
    BY <1>7, <1>8, <1>9, <1>10, <1>11, <1>12, <1>13, <1>14

LEMMA MergeKeeps ==
  ASSUME NEW d, NEW time \in Nat, Consistent(d, time), NEW a \in Accidents,
         NEW c \in DOMAIN d.devices, NEW m \in DOMAIN d.devices, c # m,
         Kept(d, a, time), Together(d, a, {c, m}),
         NEW e, e = Merged(d, c, m), NEW b, b = MergeAccidents(a, d, c, m)
  PROVE  /\ b \in Accidents /\ More(a, b) /\ b.refused = a.refused
         /\ Consistent(e, time) /\ Kept(e, b, time) /\ Together(e, b, {})
         /\ DOMAIN e.devices = DOMAIN d.devices /\ e.identities = d.identities
  <1>1. d \in Database /\ Len(d.devices) <= MaxDevices
    BY DEF Consistent
  <1>2. /\ e \in Database
        /\ e.identities = d.identities /\ e.links = d.links
        /\ DOMAIN e.devices = DOMAIN d.devices /\ Len(e.devices) = Len(d.devices)
        /\ \A s \in DOMAIN d.devices : s \notin {c, m} => e.devices[s] = d.devices[s]
        /\ e.devices[m].status = "merged" /\ e.devices[m].place = Nowhere
    BY <1>1, MergedParts
  <1>3. \A r \in e.rows : \E q \in d.rows :
          /\ r.identity = q.identity /\ r.at = q.at
          /\ r.device = IF q.device = m THEN c ELSE q.device
    BY <1>1, MergedParts
  <1>4. PICK best \in {c, m} :
          /\ e.devices[c].status = d.devices[best].status
          /\ e.devices[c].seen = d.devices[best].seen
          /\ e.devices[c].scanner = d.devices[best].scanner
          /\ e.devices[c].place = d.devices[best].place
          /\ d.devices[c].seen <= d.devices[best].seen
          /\ d.devices[m].seen <= d.devices[best].seen
    BY <1>1, MergedParts
  <1>5. /\ b \in Accidents /\ More(a, b) /\ Astray(b) = Astray(a) /\ b.refused = a.refused
        /\ m \in a.clouded => c \in b.clouded
        /\ m \in a.misplaced => c \in b.misplaced
        /\ m \in a.hidden \/ Retired(e.devices[c]) => c \in b.hidden
    <2>1. c \in 1 .. MaxDevices
      BY <1>1, DeviceAt, TimesAssumption
    <2> QED
      BY <2>1 DEF MergeAccidents, Accidents, More, Astray
  <1>6. Consistent(e, time)
    BY <1>2, <1>3 DEF Consistent
  <1>7. Named(e, b)
    BY <1>2, <1>5 DEF Kept, Named, More
  <1>8. OneHome(e, b)
    <2> SUFFICES ASSUME NEW q \in e.rows, NEW r \in e.rows, q.identity = r.identity,
                        q.identity \notin Astray(b)
                 PROVE  q.device = r.device
      BY DEF OneHome
    <2>1. PICK q1 \in d.rows : /\ q.identity = q1.identity
                               /\ q.device = IF q1.device = m THEN c ELSE q1.device
      BY <1>3
    <2>2. PICK r1 \in d.rows : /\ r.identity = r1.identity
                               /\ r.device = IF r1.device = m THEN c ELSE r1.device
      BY <1>3
    <2>3. q1.device = r1.device
      BY <1>5, <2>1, <2>2 DEF Kept, OneHome
    <2> QED
      BY <2>1, <2>2, <2>3
  <1>9. Shown(e, b)
    <2> SUFFICES ASSUME NEW r \in e.rows, Retired(e.devices[r.device])
                 PROVE  r.device \in b.hidden \cup b.clouded
      BY DEF Shown
    <2>1. PICK q \in d.rows : r.device = IF q.device = m THEN c ELSE q.device
      BY <1>3
    <2>2. CASE r.device = c
      BY <1>5, <2>2
    <2>3. CASE r.device # c
      <3>1. q.device = r.device /\ r.device \notin {c, m} /\ q.device \in DOMAIN d.devices
        BY <2>1, <2>3 DEF Consistent
      <3>2. Retired(d.devices[q.device])
        BY <1>2, <3>1
      <3> QED
        BY <1>5, <3>1, <3>2 DEF Kept, Shown, More
    <2> QED
      BY <2>2, <2>3
  <1>10. Present(e, b, time)
    <2>1. ASSUME NEW r \in e.rows, r.device \notin b.clouded
          PROVE  r.at <= e.devices[r.device].seen
      <3>1. PICK q \in d.rows : /\ r.at = q.at
                                /\ r.device = IF q.device = m THEN c ELSE q.device
        BY <1>3
      <3>2. q.device \notin a.clouded /\ q.device \in DOMAIN d.devices
        BY <1>5, <2>1, <3>1 DEF More, Consistent
      <3>3. q.at <= d.devices[q.device].seen
        BY <3>2 DEF Kept, Present
      <3>4. CASE r.device = c
        <4>1. d.devices[q.device].seen <= e.devices[c].seen
          BY <1>2, <1>4, <3>1, <3>2, <3>4
        <4>2. e.devices[c].seen \in Nat /\ d.devices[q.device].seen \in Nat /\ q.at \in Nat
          BY <1>1, <1>2, <3>2, DeviceAt
        <4> QED
          BY <3>1, <3>3, <3>4, <4>1, <4>2
      <3>5. CASE r.device # c
        <4>1. e.devices[r.device] = d.devices[q.device]
          BY <1>2, <3>1, <3>2, <3>5
        <4> QED
          BY <3>1, <3>3, <4>1
      <3> QED
        BY <3>4, <3>5
    <2>2. ASSUME NEW s \in DOMAIN e.devices \ b.clouded
          PROVE  Aged(e.devices[s], time)
      <3>1. CASE s = c
        <4>1. best \in DOMAIN d.devices \ a.clouded
          BY <1>5, <2>2, <3>1 DEF More
        <4> QED
          BY <1>4, <3>1, <4>1 DEF Kept, Present, Aged
      <3>2. CASE s = m
        BY <1>2, <3>2 DEF Aged, Absent
      <3>3. CASE s \notin {c, m}
        BY <1>2, <1>5, <2>2, <3>3 DEF Kept, Present, More
      <3> QED
        BY <3>1, <3>2, <3>3
    <2> QED
      BY <2>1, <2>2 DEF Present
  <1>11. InPlace(e, b)
    <2> SUFFICES ASSUME NEW s \in DOMAIN e.devices \ (b.clouded \cup b.misplaced)
                 PROVE  ~Displaced(e.devices[s])
      BY DEF InPlace
    <2>1. CASE s = c
      <3>1. best \in DOMAIN d.devices \ (a.clouded \cup a.misplaced)
        BY <1>5, <2>1 DEF More
      <3> QED
        BY <1>4, <2>1, <3>1 DEF Kept, InPlace, Displaced
    <2>2. CASE s = m
      BY <1>2, <2>2 DEF Displaced
    <2>3. CASE s \notin {c, m}
      BY <1>2, <1>5, <2>3 DEF Kept, InPlace, More
    <2> QED
      BY <2>1, <2>2, <2>3
  <1>12. Together(e, b, {})
    <2> SUFFICES ASSUME NEW k \in DOMAIN d.links, d.links[k].status = "accepted",
                        {d.links[k].predecessor, d.links[k].successor}
                          \cap (b.parted \cup Astray(b)) = {},
                        NEW q \in e.rows, NEW r \in e.rows,
                        q.identity = d.links[k].predecessor, r.identity = d.links[k].successor
                 PROVE  q.device = r.device
      BY <1>2 DEF Together
    <2>1. PICK q1 \in d.rows : /\ q.identity = q1.identity
                               /\ q.device = IF q1.device = m THEN c ELSE q1.device
      BY <1>3
    <2>2. PICK r1 \in d.rows : /\ r.identity = r1.identity
                               /\ r.device = IF r1.device = m THEN c ELSE r1.device
      BY <1>3
    <2>3. {d.links[k].predecessor, d.links[k].successor} \cap (a.parted \cup Astray(a)) = {}
      BY <1>5 DEF More
    <2>4. q1.device = r1.device \/ {q1.device, r1.device} \subseteq {c, m}
      BY <2>1, <2>2, <2>3, ZenonT(60) DEF Together
    <2> QED
      BY <2>1, <2>2, <2>4
  <1> QED
    BY <1>2, <1>5, <1>6, <1>7, <1>8, <1>9, <1>10, <1>11, <1>12 DEF Kept

-----------------------------------------------------------------------------
(* Splits.                                                                 *)

LEMMA PartedParts ==
  ASSUME NEW d \in Database, NEW i \in DOMAIN d.identities, NEW source \in DOMAIN d.devices,
         NEW target \in 1 .. Len(d.devices) + 1, target <= MaxDevices, source # target,
         NEW p, p = Parted(d, i, source, target)
  PROVE  /\ p \in Database
         /\ p.identities = d.identities /\ p.links = d.links
         /\ Len(d.devices) <= Len(p.devices) /\ target \in DOMAIN p.devices
         /\ Len(p.devices) <= Len(d.devices) \/ Len(p.devices) = target
         /\ \A s \in DOMAIN d.devices : s \in DOMAIN p.devices /\ p.devices[s] = d.devices[s]
         /\ \A s \in DOMAIN p.devices : s \in DOMAIN d.devices \/ s = target
         /\ \A r \in p.rows : \E q \in d.rows :
              /\ r.identity = q.identity /\ r.at = q.at
              /\ r.device = IF q.device = source /\ q.identity = i THEN target ELSE q.device
  <1> DEFINE Moved(r) == IF r.device = source /\ r.identity = i
                           THEN [r EXCEPT !.device = target] ELSE r
             fresh == [address |-> d.identities[i], status |-> "active", ignored |-> FALSE,
                       known |-> FALSE, scanner |-> NoScanner, place |-> Nowhere, seen |-> 0]
             devices == IF target \in DOMAIN d.devices THEN d.devices ELSE Append(d.devices, fresh)
  <1>1. target \in 1 .. MaxDevices
    BY DeviceAt, TimesAssumption
  <1>2. fresh \in Device
    <2>1. d.identities[i] \in Addresses
      BY DeviceAt
    <2> QED
      BY <2>1, TimesAssumption DEF Device, Places, Statuses
  <1>3. p = [d EXCEPT !.devices = devices, !.rows = {Moved(r) : r \in d.rows},
                      !.enriched = {Moved(r) : r \in d.enriched}]
    BY DEF Parted, Database
  <1>4. /\ devices \in Seq(Device)
        /\ Len(d.devices) <= Len(devices) /\ target \in DOMAIN devices
        /\ Len(devices) <= Len(d.devices) \/ Len(devices) = target
        /\ \A s \in DOMAIN d.devices : s \in DOMAIN devices /\ devices[s] = d.devices[s]
        /\ \A s \in DOMAIN devices : s \in DOMAIN d.devices \/ s = target
    <2> HIDE DEF fresh
    <2>1. CASE target \in DOMAIN d.devices
      BY <2>1, DeviceAt
    <2>2. CASE target \notin DOMAIN d.devices
      <3>1. target = Len(d.devices) + 1
        <4>1. DOMAIN d.devices = 1 .. Len(d.devices) /\ Len(d.devices) \in Nat
          BY DeviceAt
        <4> QED
          BY <2>2, <4>1
      <3> QED
        BY <1>2, <2>2, <3>1, DeviceAt
    <2> QED
      BY <2>1, <2>2
  <1> HIDE DEF devices
  <1>5. {Moved(r) : r \in d.rows} \subseteq Row
    BY <1>1, DeviceAt DEF Row
  <1>6. {Moved(r) : r \in d.enriched} \subseteq [identity : 1 .. Budget, device : 1 .. MaxDevices]
    BY <1>1 DEF Database
  <1>7. p \in Database
    BY <1>3, <1>4, <1>5, <1>6 DEF Database
  <1>8. /\ p.identities = d.identities /\ p.links = d.links /\ p.devices = devices
        /\ p.rows = {Moved(r) : r \in d.rows}
    BY <1>3 DEF Database
  <1>9. \A r \in p.rows : \E q \in d.rows :
          /\ r.identity = q.identity /\ r.at = q.at
          /\ r.device = IF q.device = source /\ q.identity = i THEN target ELSE q.device
    <2>1. \A q \in d.rows :
            /\ Moved(q).identity = q.identity /\ Moved(q).at = q.at
            /\ Moved(q).device = IF q.device = source /\ q.identity = i THEN target ELSE q.device
      BY DeviceAt DEF Row
    <2>2. \A r \in p.rows : \E q \in d.rows : r = Moved(q)
      BY <1>8
    <2> HIDE DEF Moved
    <2> QED
      BY <2>1, <2>2
  <1> QED
    BY <1>4, <1>7, <1>8, <1>9

\* A device that is refreshed is what its latest row says.
LEMMA RefreshedDevice ==
  ASSUME NEW p \in Database, \A r \in p.rows : r.identity \in DOMAIN p.identities,
         NEW s \in DOMAIN p.devices, now \in Nat, NEW x \in Refreshed(p, s)
  PROVE  /\ x \in Device /\ Aged(x, now)
         /\ \A r \in p.rows : r.device = s => r.at <= x.seen /\ ~Retired(x)
  <1>1. p.devices[s] \in Device
    BY DeviceAt
  <1>2. CASE RowsOf(p, s) = {}
    <2>1. x = [p.devices[s] EXCEPT !.status = "split_empty", !.ignored = TRUE,
                                   !.scanner = NoScanner, !.place = Nowhere]
      BY <1>2 DEF Refreshed
    <2>2. x \in Device /\ x.status = "split_empty"
      BY <1>1, <2>1 DEF Device, Places, Statuses
    <2> QED
      BY <1>2, <2>2 DEF Aged, Absent, RowsOf
  <1>3. CASE RowsOf(p, s) # {}
    <2>1. PICK r \in Latest(RowsOf(p, s)) :
            x = [p.devices[s] EXCEPT !.ignored = FALSE, !.address = p.identities[r.identity],
                                     !.seen = r.at,
                                     !.status = StatusByAge(r.at, p.identities[r.identity]),
                                     !.scanner = r.obs.scanner, !.place = r.anchor]
      BY <1>3 DEF Refreshed
    <2>2. r \in p.rows /\ r \in Row /\ \A q \in p.rows : q.device = s => q.at <= r.at
      BY <2>1, DeviceAt DEF Latest, RowsOf
    <2>3. p.identities[r.identity] \in Addresses
      BY <2>2, DeviceAt
    <2>4. StatusByAge(r.at, p.identities[r.identity]) \in Absent \cup {"active"}
      BY DEF StatusByAge, Absent
    <2>5. r.obs.scanner \in Scanners /\ r.anchor \in Places /\ r.at \in 0 .. Horizon
      BY <2>2, ObservationsAssumption DEF Row
    <2>6. /\ x \in Device /\ x.seen = r.at
          /\ x.status = StatusByAge(r.at, p.identities[r.identity])
      BY <1>1, <2>1, <2>3, <2>4, <2>5 DEF Device, Statuses
    <2>7. Aged(x, now)
      BY <2>5, <2>6, TimesAssumption DEF Aged, StatusByAge, Absent
    <2>8. ~Retired(x)
      BY <2>4, <2>6 DEF Retired, Absent
    <2> QED
      BY <2>2, <2>6, <2>7, <2>8
  <1> QED
    BY <1>2, <1>3

\* What a split leaves of the records and the accidents.
SplitInto(p, a, i, source, target, to, from, e, b) ==
  /\ e = [p EXCEPT !.devices[target] = to, !.devices[source] = from]
  /\ b = [a EXCEPT !.parted = @ \cup {i},
                   !.misplaced = @ \cup (IF Displaced(to) THEN {target} ELSE {})
                                   \cup (IF Displaced(from) THEN {source} ELSE {})]

LEMMA SplitKeeps ==
  ASSUME NEW d, now \in Nat, Consistent(d, now), NEW a \in Accidents,
         Kept(d, a, now), Together(d, a, {}),
         NEW i \in DOMAIN d.identities, NEW source \in DOMAIN d.devices,
         NEW target \in 1 .. Len(d.devices) + 1, target <= MaxDevices, source # target,
         NEW p, p = Parted(d, i, source, target),
         NEW to \in Refreshed(p, target), NEW from \in Refreshed(p, source),
         NEW e, NEW b, SplitInto(p, a, i, source, target, to, from, e, b)
  PROVE  /\ b \in Accidents /\ More(a, b) /\ b.refused = a.refused
         /\ Consistent(e, now) /\ Kept(e, b, now) /\ Together(e, b, {})
         /\ DOMAIN d.devices \subseteq DOMAIN e.devices /\ e.identities = d.identities
  <1>1. d \in Database /\ Len(d.devices) <= MaxDevices /\ Len(d.identities) <= Budget
    BY DEF Consistent
  <1>2. /\ p \in Database
        /\ p.identities = d.identities /\ p.links = d.links
        /\ Len(d.devices) <= Len(p.devices) /\ target \in DOMAIN p.devices
        /\ Len(p.devices) <= Len(d.devices) \/ Len(p.devices) = target
        /\ \A s \in DOMAIN d.devices : s \in DOMAIN p.devices /\ p.devices[s] = d.devices[s]
        /\ \A s \in DOMAIN p.devices : s \in DOMAIN d.devices \/ s = target
    BY <1>1, PartedParts, SMTT(30)
  <1>3. \A r \in p.rows : \E q \in d.rows :
          /\ r.identity = q.identity /\ r.at = q.at
          /\ r.device = IF q.device = source /\ q.identity = i THEN target ELSE q.device
    BY <1>1, PartedParts
  <1>4. \A r \in p.rows : r.identity \in DOMAIN p.identities /\ r.device \in DOMAIN p.devices
                          /\ r.at <= now
    BY <1>2, <1>3 DEF Consistent
  <1>5. /\ to \in Device /\ Aged(to, now)
        /\ \A r \in p.rows : r.device = target => r.at <= to.seen /\ ~Retired(to)
    BY <1>2, <1>4, RefreshedDevice
  <1>6. /\ from \in Device /\ Aged(from, now)
        /\ \A r \in p.rows : r.device = source => r.at <= from.seen /\ ~Retired(from)
    BY <1>2, <1>4, RefreshedDevice
  <1>7. /\ e \in Database
        /\ e.identities = d.identities /\ e.links = d.links /\ e.rows = p.rows
        /\ e.devices = [[p.devices EXCEPT ![target] = to] EXCEPT ![source] = from]
    <2>1. e = [p EXCEPT !.devices = [[p.devices EXCEPT ![target] = to] EXCEPT ![source] = from]]
      BY <1>2 DEF Database, SplitInto
    <2>2. [[p.devices EXCEPT ![target] = to] EXCEPT ![source] = from] \in Seq(Device)
      BY <1>2, <1>5, <1>6, DeviceAt
    <2> HIDE DEF Database
    <2>3. e \in Database
      BY <1>2, <2>1, <2>2 DEF Database
    <2> QED
      BY <1>2, <2>1, <2>3 DEF Database
  <1>8. /\ DOMAIN e.devices = DOMAIN p.devices /\ Len(e.devices) = Len(p.devices)
        /\ e.devices[target] = to /\ e.devices[source] = from
        /\ \A s \in DOMAIN e.devices : s \notin {target, source} =>
             s \in DOMAIN d.devices /\ e.devices[s] = d.devices[s]
    BY <1>2, <1>7, DeviceAt
  <1>9. /\ b \in Accidents /\ More(a, b) /\ Astray(b) = Astray(a) /\ b.clouded = a.clouded
        /\ b.hidden = a.hidden /\ b.refused = a.refused /\ i \in b.parted
        /\ Displaced(to) => target \in b.misplaced
        /\ Displaced(from) => source \in b.misplaced
    <2>1. /\ DOMAIN d.identities = 1 .. Len(d.identities) /\ Len(d.identities) \in Nat
          /\ DOMAIN d.devices = 1 .. Len(d.devices) /\ Len(d.devices) \in Nat
      BY <1>1, DeviceAt
    <2>2. i \in 1 .. Budget /\ source \in 1 .. MaxDevices /\ target \in 1 .. MaxDevices
      BY <1>1, <2>1, TimesAssumption, SMTT(30)
    <2> QED
      BY <2>2 DEF Accidents, More, SplitInto, Astray
  <1>10. Consistent(e, now)
    <2>1. Len(e.devices) <= MaxDevices
      BY <1>1, <1>2, <1>8
    <2> QED
      <3>1. \A k \in DOMAIN d.links :
              /\ {d.links[k].predecessor, d.links[k].successor} \subseteq DOMAIN d.identities
              /\ {d.links[k].from, d.links[k].to} \subseteq DOMAIN e.devices
        BY <1>2, <1>8 DEF Consistent
      <3>2. \A r \in e.rows :
              r.identity \in DOMAIN d.identities /\ r.device \in DOMAIN e.devices /\ r.at <= now
        BY <1>2, <1>4, <1>7, <1>8
      <3>3. /\ e \in Database /\ e.identities = d.identities /\ e.links = d.links
            /\ Len(e.identities) <= Budget
        BY <1>1, <1>7
      <3>4. \A k \in DOMAIN e.links :
              /\ {e.links[k].predecessor, e.links[k].successor} \subseteq DOMAIN e.identities
              /\ {e.links[k].from, e.links[k].to} \subseteq DOMAIN e.devices
        BY <3>1, <3>3
      <3>5. \A r \in e.rows :
              r.identity \in DOMAIN e.identities /\ r.device \in DOMAIN e.devices /\ r.at <= now
        BY <3>2, <3>3
      <3> QED
        BY <2>1, <3>3, <3>4, <3>5 DEF Consistent
  <1>11. Named(e, b)
    BY <1>7, <1>9 DEF Kept, Named, More
  <1>12. OneHome(e, b)
    <2> SUFFICES ASSUME NEW q \in p.rows, NEW r \in p.rows, q.identity = r.identity,
                        q.identity \notin Astray(b)
                 PROVE  q.device = r.device
      BY <1>7 DEF OneHome
    <2>1. PICK q1 \in d.rows :
            /\ q.identity = q1.identity
            /\ q.device = IF q1.device = source /\ q1.identity = i THEN target ELSE q1.device
      BY <1>3
    <2>2. PICK r1 \in d.rows :
            /\ r.identity = r1.identity
            /\ r.device = IF r1.device = source /\ r1.identity = i THEN target ELSE r1.device
      BY <1>3
    <2>3. q1.device = r1.device
      BY <1>9, <2>1, <2>2 DEF Kept, OneHome
    <2> QED
      BY <2>1, <2>2, <2>3
  <1>13. Shown(e, b)
    <2> SUFFICES ASSUME NEW r \in p.rows, Retired(e.devices[r.device])
                 PROVE  r.device \in b.hidden \cup b.clouded
      BY <1>7 DEF Shown
    <2>1. r.device \notin {target, source}
      BY <1>5, <1>6, <1>8
    <2>2. Retired(d.devices[r.device])
      BY <1>4, <1>8, <2>1
    <2>3. PICK q \in d.rows : q.device = r.device
      BY <1>3, <2>1
    <2> QED
      BY <1>9, <2>2, <2>3 DEF Kept, Shown
  <1>14. Present(e, b, now)
    <2>1. ASSUME NEW r \in p.rows, r.device \notin b.clouded
          PROVE  r.at <= e.devices[r.device].seen
      <3>1. CASE r.device \in {target, source}
        BY <1>5, <1>6, <1>8, <3>1
      <3>2. CASE r.device \notin {target, source}
        <4>1. PICK q \in d.rows : q.device = r.device /\ q.at = r.at
          BY <1>3, <3>2
        <4>2. e.devices[r.device] = d.devices[r.device]
          BY <1>4, <1>8, <3>2
        <4> QED
          BY <1>9, <2>1, <4>1, <4>2 DEF Kept, Present
      <3> QED
        BY <3>1, <3>2
    <2>2. ASSUME NEW s \in DOMAIN e.devices \ b.clouded
          PROVE  Aged(e.devices[s], now)
      <3>1. CASE s \in {target, source}
        BY <1>5, <1>6, <1>8, <3>1
      <3>2. CASE s \notin {target, source}
        BY <1>8, <1>9, <3>2 DEF Kept, Present
      <3> QED
        BY <3>1, <3>2
    <2> QED
      BY <1>7, <2>1, <2>2 DEF Present
  <1>15. InPlace(e, b)
    <2> SUFFICES ASSUME NEW s \in DOMAIN e.devices \ (b.clouded \cup b.misplaced)
                 PROVE  ~Displaced(e.devices[s])
      BY DEF InPlace
    <2>1. CASE s \in {target, source}
      BY <1>8, <1>9, <2>1
    <2>2. CASE s \notin {target, source}
      BY <1>8, <1>9, <2>2 DEF Kept, InPlace, More
    <2> QED
      BY <2>1, <2>2
  <1>16. Together(e, b, {})
    <2> SUFFICES ASSUME NEW k \in DOMAIN d.links, d.links[k].status = "accepted",
                        {d.links[k].predecessor, d.links[k].successor}
                          \cap (b.parted \cup Astray(b)) = {},
                        NEW q \in e.rows, NEW r \in e.rows,
                        q.identity = d.links[k].predecessor, r.identity = d.links[k].successor
                 PROVE  q.device = r.device
      <3>1. e.links = d.links
        BY <1>7
      <3> QED
        BY <3>1 DEF Together
    <2>1. i \notin {q.identity, r.identity}
      BY <1>9
    <2>2. PICK q1 \in d.rows : q.identity = q1.identity /\ q.device = q1.device
      BY <1>3, <1>7, <2>1
    <2>3. PICK r1 \in d.rows : r.identity = r1.identity /\ r.device = r1.device
      BY <1>3, <1>7, <2>1
    <2>4. {d.links[k].predecessor, d.links[k].successor} \cap (a.parted \cup Astray(a)) = {}
      BY <1>9 DEF More
    <2>5. q1.device = r1.device
      BY <2>2, <2>3, <2>4 DEF Together
    <2> QED
      BY <2>2, <2>3, <2>5
  <1> QED
    BY <1>2, <1>7, <1>8, <1>9, <1>10, <1>11, <1>12, <1>13, <1>14, <1>15, <1>16 DEF Kept

-----------------------------------------------------------------------------
(* Batches.                                                                *)

BatchType ==
  [obs : Observations, again : Observations \cup {NoObservation},
   at : 0 .. Horizon, then : 0 .. Horizon, place : Places, identity : 0 .. Budget,
   device : 0 .. MaxDevices, homes : SUBSET (1 .. MaxDevices), row : Device]

\* What a batch has read: its device had the rows of its identity, if there were
\* any, and a device that is new to it is a fresh one.
Read(b, d, a, time) ==
  /\ b \in BatchType
  /\ b.device # 0 => b.device \in DOMAIN d.devices
  /\ b.at <= time /\ b.then <= time
  /\ b.place # Nowhere => b.place.scanner = b.obs.scanner
  /\ b.device = 0 => /\ ~Retired(b.row) /\ ~Displaced(b.row)
                     /\ b.row.status \notin Absent
  /\ b.homes # {} => b.device \in b.homes
  /\ b.identity \notin Astray(a) => \A x, y \in b.homes : x = y
  /\ b.homes # {} /\ Retired(b.row) => b.device \in a.hidden \cup a.clouded

LEMMA ReadStays ==
  ASSUME NEW b, NEW d, NEW a, NEW time \in Nat, Read(b, d, a, time),
         NEW e, DOMAIN d.devices \subseteq DOMAIN e.devices, NEW c, More(a, c),
         NEW later \in Nat, time <= later
  PROVE  Read(b, e, c, later)
  <1>1. b.at \in Nat /\ b.then \in Nat
    BY DEF Read, BatchType
  <1> QED
    BY <1>1 DEF Read, More

\* process_observation moves a device to where it was seen.
LEMMA SeenDevice ==
  ASSUME NEW row \in Device, NEW scanner \in Scanners, NEW place \in Places,
         place # Nowhere => place.scanner = scanner, NEW at \in 0 .. Horizon,
         NEW x, x = Seen(row, scanner, place, at), NEW time \in Nat
  PROVE  /\ x \in Device
         /\ row.seen <= x.seen /\ at <= x.seen
         /\ Retired(x) => Retired(row)
         /\ ~Displaced(row) => ~Displaced(x)
         /\ Aged(row, time) => Aged(x, time)
  <1>1. row.seen \in Nat /\ at \in Nat
    BY DEF Device
  <1>2. CASE at >= row.seen
    <2> DEFINE y == Anchored(row, scanner, place, at)
    <2>1. /\ y \in Device /\ y.status = row.status
          /\ ~Displaced(row) => ~Displaced(y)
      <3>1. Nowhere \in Places
        BY DEF Places
      <3>2. CASE row.scanner # scanner
        <4>1. PICK where \in {place, Nowhere} :
                y = [row EXCEPT !.scanner = scanner, !.place = where]
          BY <3>2 DEF Anchored
        <4>2. where \in Places /\ (where # Nowhere => where.scanner = scanner)
          BY <3>1
        <4> QED
          BY <4>1, <4>2 DEF Device, Displaced
      <3>3. CASE row.scanner = scanner /\ y = [row EXCEPT !.place = place]
        BY <3>3 DEF Device, Displaced
      <3>4. CASE row.scanner = scanner /\ y = row
        BY <3>4
      <3> QED
        BY <3>2, <3>3, <3>4 DEF Anchored
    <2>2. x = [y EXCEPT !.status = Again(@), !.seen = at]
      BY <1>2 DEF Seen
    <2> HIDE DEF y
    <2>3. row.status \in Statuses
      BY DEF Device
    <2>4. /\ Again(row.status) \in Statuses \ Absent
          /\ Again(row.status) \in {"merged", "split_empty"} =>
               row.status \in {"merged", "split_empty"}
      BY <2>3 DEF Again, Statuses, Absent
    <2>5. /\ x \in Device /\ x.seen = at /\ x.status = Again(row.status)
          /\ x.scanner = y.scanner /\ x.place = y.place
      <3>1. PICK status \in Statuses : status = Again(row.status)
        BY <2>4
      <3>2. x = [y EXCEPT !.status = status, !.seen = at]
        BY <2>1, <2>2, <3>1
      <3> QED
        BY <2>1, <3>1, <3>2 DEF Device
    <2>6. Aged(x, time) /\ (Retired(x) => Retired(row))
      BY <2>4, <2>5 DEF Aged, Retired, Absent
    <2> QED
      BY <1>1, <1>2, <2>1, <2>5, <2>6 DEF Displaced
  <1>3. CASE ~(at >= row.seen)
    <2>1. x = row
      BY <1>3 DEF Seen
    <2> QED
      BY <1>1, <1>3, <2>1
  <1> QED
    BY <1>2, <1>3

\* So do the two observations of a batch.
LEMMA LastSeenDevice ==
  ASSUME NEW b \in BatchType, b.place # Nowhere => b.place.scanner = b.obs.scanner,
         NEW x, x = LastSeen(b), NEW time \in Nat
  PROVE  /\ x \in Device /\ FirstSeen(b) \in Device
         /\ b.row.seen <= x.seen /\ b.at <= x.seen
         /\ StoresAgain(b) /\ ~Twins(b) => b.then <= x.seen
         /\ Retired(x) => Retired(b.row)
         /\ ~Displaced(b.row) => ~Displaced(x)
         /\ Aged(b.row, time) => Aged(x, time)
  <1>1. /\ b.row \in Device /\ b.place \in Places /\ b.at \in 0 .. Horizon
        /\ b.then \in 0 .. Horizon /\ b.obs.scanner \in Scanners
    BY ObservationsAssumption DEF BatchType
  <1>2. PICK first : first = Seen(b.row, b.obs.scanner, b.place, b.at)
    OBVIOUS
  <1>3. /\ first \in Device
        /\ b.row.seen <= first.seen /\ b.at <= first.seen
        /\ Retired(first) => Retired(b.row)
        /\ ~Displaced(b.row) => ~Displaced(first)
        /\ Aged(b.row, time) => Aged(first, time)
    BY <1>1, <1>2, SeenDevice
  <1>4. PICK last : last = Seen(first, b.obs.scanner, b.place, b.then)
    OBVIOUS
  <1>5. /\ last \in Device
        /\ first.seen <= last.seen /\ b.then <= last.seen
        /\ Retired(last) => Retired(first)
        /\ ~Displaced(first) => ~Displaced(last)
        /\ Aged(first, time) => Aged(last, time)
    BY <1>1, <1>3, <1>4, SeenDevice
  <1>6. b.row.seen \in Nat /\ first.seen \in Nat /\ last.seen \in Nat /\ b.at \in Nat
    BY <1>1, <1>3, <1>5 DEF Device
  <1>7. b.row.seen <= last.seen /\ b.at <= last.seen
    BY <1>3, <1>5, <1>6
  <1>8. FirstSeen(b) = first /\ x = IF StoresAgain(b) /\ ~Twins(b) THEN last ELSE first
    BY <1>2, <1>4 DEF FirstSeen, LastSeen
  <1> QED
    BY <1>3, <1>5, <1>7, <1>8

LEMMA WrittenDevice ==
  ASSUME NEW row \in Device, NEW old \in Device, NEW new \in Device,
         NEW w, w = WrittenRow(row, old, new)
  PROVE  w \in Device /\ (row = old => w = new)
  <1>1. DOMAIN row = {"address", "status", "ignored", "known", "scanner", "place", "seen"}
    BY DEF Device
  <1>2. \A c \in DOMAIN row : w[c] = IF new[c] = old[c] THEN row[c] ELSE new[c]
    BY DEF WrittenRow
  <1>3. w = [c \in DOMAIN row |-> w[c]]
    BY DEF WrittenRow
  <1>4. w \in Device
    BY <1>1, <1>2, <1>3 DEF Device
  <1>5. ASSUME row = old PROVE w = new
    <2>1. new = [c \in DOMAIN row |-> new[c]]
      BY <1>1 DEF Device
    <2>2. \A c \in DOMAIN row : w[c] = new[c]
      BY <1>2, <1>5
    <2> QED
      BY <1>3, <2>1, <2>2
  <1> QED
    BY <1>4, <1>5

\* The first write of a batch, before correlation: s is its device, x that
\* device as it is then, r the new row.
StoredAs(e, b, s, x, r) ==
  /\ e \in Database /\ x \in Device
  /\ s \in DOMAIN e.devices /\ e.devices[s] = x
  /\ DOMAIN db.devices \subseteq DOMAIN e.devices
  /\ \A u \in DOMAIN e.devices : u # s => u \in DOMAIN db.devices /\ e.devices[u] = db.devices[u]
  /\ b.device # 0 => s = b.device /\ Len(e.devices) = Len(db.devices)
  /\ b.device = 0 => s = Len(db.devices) + 1 /\ Len(e.devices) = s
  /\ e.links = db.links
  /\ e.rows = db.rows \cup {r}
  /\ r.identity = b.identity /\ r.device = s /\ r.at = b.at
  /\ b.identity \in DOMAIN db.identities => e.identities = db.identities
  /\ b.identity \notin DOMAIN db.identities =>
       e.identities = Append(db.identities, b.obs.address)
  /\ s \in BatchAccidents(b).clouded \/ x = LastSeen(b)

LEMMA StoredParts ==
  ASSUME Consistent(db, now), now \in Nat, accidents \in Accidents,
         NEW b, Read(b, db, accidents, now),
         b.identity \in 1 .. Len(db.identities) + 1,
         NEW e, e = StoredFirst(b), Len(e.devices) <= MaxDevices
  PROVE  \E s, x, r : StoredAs(e, b, s, x, r)
  <1> DEFINE s == IF b.device = 0 THEN Len(db.devices) + 1 ELSE b.device
             device == LastSeen(b)
             x == IF b.device = 0 THEN device ELSE WrittenRow(db.devices[s], b.row, device)
             r == [obs |-> b.obs, identity |-> b.identity, device |-> s, at |-> b.at,
                   anchor |-> FirstSeen(b).place]
             identities == IF b.identity \in DOMAIN db.identities THEN db.identities
                           ELSE Append(db.identities, b.obs.address)
             devices == IF b.device = 0 THEN Append(db.devices, device)
                        ELSE [db.devices EXCEPT ![s] = x]
  <1>1. db \in Database /\ b \in BatchType
    BY DEF Consistent, Read
  <1>2. b.obs.scanner \in Scanners /\ b.obs.address \in Addresses
    BY <1>1, ObservationsAssumption DEF BatchType, Addresses
  <1>3. device \in Device /\ FirstSeen(b) \in Device
    <2>1. b.place # Nowhere => b.place.scanner = b.obs.scanner
      BY DEF Read
    <2> QED
      BY <1>1, <2>1, LastSeenDevice
  <1> HIDE DEF device
  <1>4. /\ DOMAIN db.devices = 1 .. Len(db.devices) /\ Len(db.devices) \in Nat
        /\ DOMAIN db.identities = 1 .. Len(db.identities) /\ Len(db.identities) \in Nat
    BY <1>1, DeviceAt
  <1>5. b.device # 0 => s \in DOMAIN db.devices /\ s = b.device
    BY DEF Read
  <1>6. /\ x \in Device
        /\ b.device # 0 /\ db.devices[s] = b.row => x = device
    <2>1. CASE b.device = 0
      BY <1>3, <2>1
    <2>2. CASE b.device # 0
      <3>1. db.devices[s] \in Device /\ b.row \in Device
        BY <1>1, <1>5, <2>2, DeviceAt DEF BatchType
      <3> QED
        BY <1>3, <2>2, <3>1, WrittenDevice
    <2> QED
      BY <2>1, <2>2
  <1>7. e = [db EXCEPT !.identities = identities, !.devices = devices, !.rows = @ \cup {r}]
    <2>1. CASE b.device = 0
      BY <2>1 DEF StoredFirst, device
    <2>2. CASE b.device # 0
      BY <2>2 DEF StoredFirst, device
    <2> QED
      BY <2>1, <2>2
  <1>8. b.device = 0 => x = device
    OBVIOUS
  <1> HIDE DEF x
  <1>9. /\ devices \in Seq(Device) /\ s \in DOMAIN devices /\ devices[s] = x
        /\ DOMAIN db.devices \subseteq DOMAIN devices
        /\ \A u \in DOMAIN devices : u # s => u \in DOMAIN db.devices /\ devices[u] = db.devices[u]
        /\ b.device # 0 => Len(devices) = Len(db.devices)
        /\ b.device = 0 => Len(devices) = s
    <2>1. CASE b.device = 0
      BY <1>1, <1>3, <1>4, <1>8, <2>1, DeviceAt
    <2>2. CASE b.device # 0
      BY <1>1, <1>4, <1>5, <1>6, <2>2, DeviceAt
    <2> QED
      BY <2>1, <2>2
  <1>10. identities \in Seq(Addresses)
    BY <1>1, <1>2, DeviceAt
  <1>11. e.devices = devices
    BY <1>1, <1>7 DEF Database
  <1>12. r \in Row
    <2>1. s \in 1 .. MaxDevices
      <3>1. Len(devices) <= MaxDevices /\ s \in 1 .. Len(devices) /\ Len(devices) \in Nat
        BY <1>9, <1>11
      <3> QED
        BY <3>1, TimesAssumption
    <2>2. b.identity \in 1 .. Budget /\ b.at \in 0 .. Horizon /\ b.obs \in Observations
      <3>1. b.identity \in 0 .. Budget /\ b.identity \in 1 .. Len(db.identities) + 1
        BY <1>1 DEF BatchType
      <3> QED
        BY <1>1, <3>1, TimesAssumption DEF BatchType
    <2>3. FirstSeen(b).place \in Places
      BY <1>3 DEF Device
    <2> QED
      BY <2>1, <2>2, <2>3 DEF Row
  <1>13. /\ r.identity = b.identity /\ r.device = s /\ r.at = b.at
    OBVIOUS
  <1> HIDE DEF devices, identities, r, s
  <1>14. db.rows \cup {r} \subseteq Row
    BY <1>1, <1>12, DeviceAt
  <1>15. /\ e \in Database /\ e.identities = identities /\ e.rows = db.rows \cup {r}
         /\ e.links = db.links
    BY <1>1, <1>7, <1>9, <1>10, <1>14 DEF Database
  <1>16. s \in BatchAccidents(b).clouded \/ x = device
    <2>1. CASE b.device # 0 /\ db.devices[s] # b.row
      <3>1. s = b.device
        BY <1>5, <2>1
      <3> QED
        BY <2>1, <3>1 DEF BatchAccidents, Accidents
    <2> QED
      BY <1>6, <1>8, <2>1
  <1>17. StoredAs(e, b, s, x, r)
    <2>1. /\ b.device # 0 => s = b.device
          /\ b.device = 0 => s = Len(db.devices) + 1
      BY DEF s
    <2>2. /\ b.identity \in DOMAIN db.identities => e.identities = db.identities
          /\ b.identity \notin DOMAIN db.identities =>
               e.identities = Append(db.identities, b.obs.address)
      BY <1>15 DEF identities
    <2> QED
      BY <1>6, <1>9, <1>11, <1>13, <1>15, <1>16, <2>1, <2>2 DEF StoredAs, device
  <1> QED
    BY <1>17

LEMMA BatchMarks ==
  ASSUME Consistent(db, now), accidents \in Accidents,
         NEW b, Read(b, db, accidents, now),
         b.identity \in 1 .. Len(db.identities) + 1,
         NEW m, m = BatchAccidents(b)
  PROVE  /\ m \in Accidents /\ More(accidents, m)
         /\ b.identity \notin DOMAIN db.identities /\ Identities(db, b.obs.address) # {}
              => b.obs.address \in m.doubled
         /\ b.identity \notin Astray(m) => Homes(db, b.identity) \subseteq b.homes
         /\ b.device # 0 /\ b.device \notin m.clouded => db.devices[b.device] = b.row
         /\ b.device # 0 /\ b.homes = {} /\ Retired(b.row) => b.device \in m.hidden
         /\ b.identity \in DOMAIN db.identities /\ Homes(db, b.identity) = {}
              => b.identity \in m.parted
         /\ m.misplaced = accidents.misplaced
         /\ m.refused \subseteq accidents.refused \cup m.doubled
         /\ Twins(b) => b.identity \in Astray(m)
  <1>1. b \in BatchType /\ db \in Database
    BY DEF Read, Consistent
  <1>2. b.obs.address \in Addresses
    BY <1>1, ObservationsAssumption DEF BatchType, Addresses
  <1>3. b.identity \in 1 .. Budget /\ (b.device # 0 => b.device \in 1 .. MaxDevices)
    <2>1. b.identity \in 0 .. Budget /\ b.device \in 0 .. MaxDevices
      BY <1>1 DEF BatchType
    <2>2. Len(db.identities) \in Nat
      BY <1>1, DeviceAt
    <2> QED
      BY <2>1, <2>2, TimesAssumption
  <1>4. m \in Accidents /\ More(accidents, m)
    BY <1>2, <1>3, ZenonT(60) DEF BatchAccidents, Accidents, More, Astray
  <1>5. /\ b.identity \notin DOMAIN db.identities /\ Identities(db, b.obs.address) # {}
             => b.obs.address \in m.doubled
        /\ m.misplaced = accidents.misplaced
        /\ m.refused \subseteq accidents.refused \cup m.doubled
    BY ZenonT(60) DEF BatchAccidents, Accidents, Doubled
  <1>6. /\ b.identity \notin Astray(m) => Homes(db, b.identity) \subseteq b.homes
        /\ Twins(b) => b.identity \in Astray(m)
    BY ZenonT(60) DEF BatchAccidents, Accidents, Astray
  <1>7. /\ b.device # 0 /\ b.device \notin m.clouded => db.devices[b.device] = b.row
        /\ b.device # 0 /\ b.homes = {} /\ Retired(b.row) => b.device \in m.hidden
        /\ b.identity \in DOMAIN db.identities /\ Homes(db, b.identity) = {}
             => b.identity \in m.parted
    BY ZenonT(60) DEF BatchAccidents, Accidents
  <1> QED
    BY <1>4, <1>5, <1>6, <1>7

LEMMA StoreKeeps ==
  ASSUME Consistent(db, now), now \in Nat, accidents \in Accidents,
         Kept(db, accidents, now), Together(db, accidents, {}),
         NEW b, Read(b, db, accidents, now),
         b.identity \in 1 .. Len(db.identities) + 1,
         NEW e, e = StoredFirst(b), Len(e.devices) <= MaxDevices,
         NEW m, m = BatchAccidents(b)
  PROVE  /\ m \in Accidents /\ More(accidents, m)
         /\ m.refused \subseteq accidents.refused \cup m.doubled
         /\ Twins(b) => b.identity \in Astray(m)
         /\ \E r \in e.rows :
              /\ r.identity = b.identity
              /\ r.device = IF b.device = 0 THEN Len(e.devices) ELSE b.device
              /\ r.device \in m.clouded \/ e.devices[r.device] = LastSeen(b)
         /\ Consistent(e, now) /\ Kept(e, m, now) /\ Together(e, m, {})
         /\ DOMAIN db.devices \subseteq DOMAIN e.devices
         /\ b.identity \in DOMAIN db.identities => e.identities = db.identities
         /\ b.identity \notin DOMAIN db.identities =>
              e.identities = Append(db.identities, b.obs.address)
  <1>1. PICK s, x, r : StoredAs(e, b, s, x, r)
    BY StoredParts
  <1>2. /\ e \in Database /\ x \in Device
        /\ s \in DOMAIN e.devices /\ e.devices[s] = x
        /\ DOMAIN db.devices \subseteq DOMAIN e.devices
        /\ \A u \in DOMAIN e.devices :
             u # s => u \in DOMAIN db.devices /\ e.devices[u] = db.devices[u]
        /\ b.device # 0 => s = b.device /\ Len(e.devices) = Len(db.devices)
        /\ b.device = 0 => s = Len(db.devices) + 1 /\ Len(e.devices) = s
        /\ e.links = db.links
        /\ e.rows = db.rows \cup {r}
        /\ r.identity = b.identity /\ r.device = s /\ r.at = b.at
        /\ b.identity \in DOMAIN db.identities => e.identities = db.identities
        /\ b.identity \notin DOMAIN db.identities =>
             e.identities = Append(db.identities, b.obs.address)
        /\ s \in m.clouded \/ x = LastSeen(b)
    BY <1>1 DEF StoredAs
  <1>3. /\ m \in Accidents /\ More(accidents, m)
        /\ b.identity \notin DOMAIN db.identities /\ Identities(db, b.obs.address) # {}
             => b.obs.address \in m.doubled
        /\ b.identity \notin Astray(m) => Homes(db, b.identity) \subseteq b.homes
        /\ b.device # 0 /\ b.device \notin m.clouded => db.devices[b.device] = b.row
        /\ b.device # 0 /\ b.homes = {} /\ Retired(b.row) => b.device \in m.hidden
        /\ b.identity \in DOMAIN db.identities /\ Homes(db, b.identity) = {}
             => b.identity \in m.parted
        /\ m.misplaced = accidents.misplaced
        /\ m.refused \subseteq accidents.refused \cup m.doubled
        /\ Twins(b) => b.identity \in Astray(m)
    BY BatchMarks
  <1>4. db \in Database /\ b \in BatchType
    BY DEF Consistent, Read
  <1>5. /\ DOMAIN db.devices = 1 .. Len(db.devices) /\ Len(db.devices) \in Nat
        /\ DOMAIN db.identities = 1 .. Len(db.identities) /\ Len(db.identities) \in Nat
        /\ db.identities \in Seq(Addresses)
    BY <1>4, DeviceAt
  <1>6. b.identity \in 0 .. Budget /\ b.at \in 0 .. Horizon /\ b.homes \subseteq 1 .. MaxDevices
    BY <1>4 DEF BatchType
  \* The rows of the identity are on the device of the batch, but for accidents.
  <1>7. ASSUME NEW q \in db.rows, q.identity = b.identity, b.identity \notin Astray(m)
        PROVE  q.device = s
    <2>1. q.device \in Homes(db, b.identity)
      BY <1>7 DEF Homes, Evidence
    <2>2. q.device \in b.homes /\ b.homes # {}
      BY <1>3, <1>7, <2>1
    <2>3. b.identity \notin Astray(accidents)
      BY <1>3, <1>7 DEF More
    <2>4. q.device = b.device
      BY <2>2, <2>3 DEF Read
    <2>5. b.device # 0
      BY <1>6, <2>2, <2>4
    <2> QED
      BY <1>2, <2>4, <2>5
  \* The device, as it is when nothing clouds it.
  <1>8. ASSUME s \notin m.clouded
        PROVE  /\ x = LastSeen(b)
               /\ b.row.seen <= x.seen /\ b.at <= x.seen
               /\ Retired(x) => Retired(b.row)
               /\ ~Displaced(b.row) => ~Displaced(x)
               /\ Aged(b.row, now) => Aged(x, now)
               /\ b.device # 0 => b.row = db.devices[s]
    <2>1. b.place # Nowhere => b.place.scanner = b.obs.scanner
      BY DEF Read
    <2>2. x = LastSeen(b)
      BY <1>2, <1>8
    <2>3. b.device # 0 => b.row = db.devices[s]
      BY <1>2, <1>3, <1>8
    <2> QED
      BY <1>4, <2>1, <2>2, <2>3, LastSeenDevice
  <1>9. DOMAIN db.identities \subseteq DOMAIN e.identities /\ b.identity \in DOMAIN e.identities
        /\ \A i \in DOMAIN db.identities : e.identities[i] = db.identities[i]
    BY <1>2, <1>5
  <1>10. Consistent(e, now)
    <2>1. Len(e.identities) <= Budget
      <3>1. CASE b.identity \in DOMAIN db.identities
        BY <1>2, <3>1 DEF Consistent
      <3>2. CASE b.identity \notin DOMAIN db.identities
        <4>1. b.identity = Len(db.identities) + 1 /\ Len(e.identities) = Len(db.identities) + 1
          BY <1>2, <1>5, <3>2
        <4> QED
          BY <1>5, <1>6, <4>1, TimesAssumption
      <3> QED
        BY <3>1, <3>2
    <2>2. \A q \in e.rows :
            q.identity \in DOMAIN e.identities /\ q.device \in DOMAIN e.devices /\ q.at <= now
      <3>1. b.at <= now
        BY DEF Read
      <3>2. \A q \in db.rows :
              q.identity \in DOMAIN e.identities /\ q.device \in DOMAIN e.devices /\ q.at <= now
        BY <1>2, <1>9 DEF Consistent
      <3> QED
        BY <1>2, <1>9, <3>1, <3>2
    <2>3. \A k \in DOMAIN e.links :
            /\ {e.links[k].predecessor, e.links[k].successor} \subseteq DOMAIN e.identities
            /\ {e.links[k].from, e.links[k].to} \subseteq DOMAIN e.devices
      <3>1. \A k \in DOMAIN db.links :
              /\ {db.links[k].predecessor, db.links[k].successor} \subseteq DOMAIN db.identities
              /\ {db.links[k].from, db.links[k].to} \subseteq DOMAIN db.devices
        BY DEF Consistent
      <3>2. e.links = db.links /\ DOMAIN db.devices \subseteq DOMAIN e.devices
        BY <1>2
      <3> QED
        BY <1>9, <3>1, <3>2
    <2> QED
      BY <1>2, <2>1, <2>2, <2>3 DEF Consistent
  <1>11. Named(e, m)
    <2> SUFFICES ASSUME NEW i \in DOMAIN e.identities, NEW j \in DOMAIN e.identities, i # j,
                        e.identities[i] = e.identities[j]
                 PROVE  e.identities[i] \in m.doubled
      BY DEF Named
    <2>1. CASE i \in DOMAIN db.identities /\ j \in DOMAIN db.identities
      BY <1>3, <1>9, <2>1 DEF Kept, Named, More
    <2>2. ASSUME NEW k \in DOMAIN db.identities, NEW n \in DOMAIN e.identities \ DOMAIN db.identities,
                 e.identities[n] = e.identities[k]
          PROVE  e.identities[n] \in m.doubled
      <3>1. b.identity \notin DOMAIN db.identities
        BY <1>2, <2>2
      <3>2. e.identities[n] = b.obs.address
        <4>1. PICK grown \in Seq(Addresses) :
                e.identities = grown /\ grown = Append(db.identities, b.obs.address)
          <5>1. b.obs.address \in Addresses
            BY <1>4, ObservationsAssumption DEF BatchType, Addresses
          <5>2. e.identities = Append(db.identities, b.obs.address)
            BY <1>2, <3>1
          <5>3. Append(db.identities, b.obs.address) \in Seq(Addresses)
            BY <1>5, <5>1
          <5> QED
            BY <5>2, <5>3
        <4>2. DOMAIN grown = 1 .. Len(db.identities) + 1
              /\ grown[Len(db.identities) + 1] = b.obs.address
          BY <1>5, <4>1
        <4>3. n = Len(db.identities) + 1
          BY <1>5, <2>2, <4>1, <4>2
        <4> QED
          BY <4>1, <4>2, <4>3
      <3>3. k \in Identities(db, b.obs.address)
        BY <1>9, <2>2, <3>2 DEF Identities
      <3> QED
        BY <1>3, <3>1, <3>2, <3>3
    <2>3. ~(i \notin DOMAIN db.identities /\ j \notin DOMAIN db.identities)
      BY <1>2, <1>5, SMTT(30)
    <2> QED
      BY <2>1, <2>2, <2>3
  <1>12. OneHome(e, m)
    <2> SUFFICES ASSUME NEW p \in e.rows, NEW q \in e.rows, p.identity = q.identity,
                        p.identity \notin Astray(m)
                 PROVE  p.device = q.device
      BY DEF OneHome
    <2>1. CASE p \in db.rows /\ q \in db.rows
      BY <1>3, <2>1 DEF Kept, OneHome, More
    <2>2. CASE p = r \/ q = r
      BY <1>2, <1>7, <2>2
    <2> QED
      BY <1>2, <2>1, <2>2
  <1>13. Shown(e, m)
    <2> SUFFICES ASSUME NEW q \in e.rows, Retired(e.devices[q.device]), q.device \notin m.clouded
                 PROVE  q.device \in m.hidden
      BY DEF Shown
    <2>1. CASE q.device # s
      <3>1. q \in db.rows /\ q.device \in DOMAIN e.devices
        BY <1>2, <1>10, <2>1 DEF Consistent
      <3>2. Retired(db.devices[q.device])
        BY <1>2, <2>1, <3>1
      <3> QED
        BY <1>3, <3>1, <3>2 DEF Kept, Shown, More
    <2>2. CASE q.device = s
      <3>1. Retired(b.row)
        BY <1>2, <1>8, <2>2
      <3>2. b.device # 0 /\ s = b.device
        BY <1>2, <3>1 DEF Read
      <3> QED
        BY <1>3, <2>2, <3>1, <3>2 DEF Read, More
    <2> QED
      BY <2>1, <2>2
  <1>14. Present(e, m, now)
    <2>1. ASSUME NEW q \in e.rows, q.device \notin m.clouded
          PROVE  q.at <= e.devices[q.device].seen
      <3>1. CASE q.device # s
        <4>1. q \in db.rows /\ q.device \in DOMAIN e.devices /\ q.device \notin accidents.clouded
          BY <1>2, <1>3, <1>10, <2>1, <3>1 DEF Consistent, More
        <4> QED
          BY <1>2, <3>1, <4>1 DEF Kept, Present
      <3>2. CASE q = r
        BY <1>2, <1>8, <2>1, <3>2
      <3>3. CASE q \in db.rows /\ q.device = s
        <4>1. q.device \in DOMAIN db.devices /\ q.device \notin accidents.clouded
          BY <1>3, <2>1, <3>3 DEF Consistent, More
        <4>2. b.device # 0
          BY <1>2, <1>5, <3>3, <4>1
        <4>3. q.at <= b.row.seen /\ b.row.seen <= x.seen
          BY <1>8, <2>1, <3>3, <4>1, <4>2 DEF Kept, Present
        <4>4. q.at \in Nat /\ b.row.seen \in Nat /\ x.seen \in Nat
          BY <1>2, <1>4, <3>3, DeviceAt DEF BatchType, Device
        <4> QED
          BY <1>2, <3>3, <4>3, <4>4
      <3> QED
        BY <1>2, <3>1, <3>2, <3>3
    <2>2. ASSUME NEW u \in DOMAIN e.devices \ m.clouded
          PROVE  Aged(e.devices[u], now)
      <3>1. CASE u # s
        BY <1>2, <1>3, <2>2, <3>1 DEF Kept, Present, More
      <3>2. CASE u = s
        <4>1. CASE b.device = 0
          <5>1. Aged(b.row, now)
            BY <4>1 DEF Read, Aged, Absent
          <5> QED
            BY <1>2, <1>8, <2>2, <3>2, <5>1
        <4>2. CASE b.device # 0
          <5>1. s \in DOMAIN db.devices \ accidents.clouded
            BY <1>2, <1>3, <2>2, <3>2, <4>2 DEF Read, More
          <5>2. Aged(b.row, now)
            BY <1>8, <2>2, <3>2, <4>2, <5>1 DEF Kept, Present
          <5> QED
            BY <1>2, <1>8, <2>2, <3>2, <5>2
        <4> QED
          BY <4>1, <4>2
      <3> QED
        BY <3>1, <3>2
    <2> QED
      BY <2>1, <2>2 DEF Present
  <1>15. InPlace(e, m)
    <2> SUFFICES ASSUME NEW u \in DOMAIN e.devices \ (m.clouded \cup m.misplaced)
                 PROVE  ~Displaced(e.devices[u])
      BY DEF InPlace
    <2>1. CASE u # s
      BY <1>2, <1>3, <2>1 DEF Kept, InPlace, More
    <2>2. CASE u = s
      <3>1. ~Displaced(b.row)
        <4>1. CASE b.device = 0
          BY <4>1 DEF Read
        <4>2. CASE b.device # 0
          <5>1. s \in DOMAIN db.devices \ (accidents.clouded \cup accidents.misplaced)
            BY <1>2, <1>3, <2>2, <4>2 DEF Read, More
          <5> QED
            BY <1>8, <2>2, <4>2, <5>1 DEF Kept, InPlace
        <4> QED
          BY <4>1, <4>2
      <3> QED
        BY <1>2, <1>8, <2>2, <3>1
    <2> QED
      BY <2>1, <2>2
  <1>16. Together(e, m, {})
    <2> SUFFICES ASSUME NEW k \in DOMAIN db.links, db.links[k].status = "accepted",
                        {db.links[k].predecessor, db.links[k].successor}
                          \cap (m.parted \cup Astray(m)) = {},
                        NEW p \in e.rows, NEW q \in e.rows,
                        p.identity = db.links[k].predecessor, q.identity = db.links[k].successor
                 PROVE  p.device = q.device
      BY <1>2 DEF Together
    <2>1. {db.links[k].predecessor, db.links[k].successor} \subseteq DOMAIN db.identities
      BY DEF Consistent
    <2>2. ASSUME NEW y \in e.rows, y.identity \in DOMAIN db.identities,
                 y.identity \notin m.parted \cup Astray(m)
          PROVE  \E z \in db.rows : z.identity = y.identity /\ z.device = y.device
      <3>1. CASE y \in db.rows
        BY <3>1
      <3>2. CASE y = r
        <4>1. Homes(db, b.identity) # {}
          BY <1>2, <1>3, <2>2, <3>2
        <4>2. PICK z \in db.rows : z.identity = b.identity
          BY <4>1 DEF Homes, Evidence
        <4> QED
          BY <1>2, <1>7, <2>2, <3>2, <4>2
      <3> QED
        BY <1>2, <3>1, <3>2
    <2>3. PICK p1 \in db.rows : p1.identity = p.identity /\ p1.device = p.device
      BY <2>1, <2>2
    <2>4. PICK q1 \in db.rows : q1.identity = q.identity /\ q1.device = q.device
      BY <2>1, <2>2
    <2>5. {db.links[k].predecessor, db.links[k].successor}
            \cap (accidents.parted \cup Astray(accidents)) = {}
      BY <1>3 DEF More
    <2>6. p1.device = q1.device
      BY <2>3, <2>4, <2>5 DEF Together
    <2> QED
      BY <2>3, <2>4, <2>6
  <1>17. \E q \in e.rows :
           /\ q.identity = b.identity
           /\ q.device = IF b.device = 0 THEN Len(e.devices) ELSE b.device
           /\ q.device \in m.clouded \/ e.devices[q.device] = LastSeen(b)
    BY <1>2
  <1> QED
    BY <1>2, <1>3, <1>10, <1>11, <1>12, <1>13, <1>14, <1>15, <1>16, <1>17 DEF Kept

\* A row beside another one of its identity.
LEMMA BesideKeeps ==
  ASSUME NEW e, NEW time \in Nat, Consistent(e, time), NEW m,
         Kept(e, m, time), Together(e, m, {}),
         NEW r \in e.rows, NEW q \in Row, q.identity = r.identity, q.device = r.device,
         q.at <= time, q.device \in m.clouded \/ q.at <= e.devices[q.device].seen,
         NEW f, f = [e EXCEPT !.rows = @ \cup {q}]
  PROVE  /\ Consistent(f, time) /\ Kept(f, m, time) /\ Together(f, m, {})
         /\ f.devices = e.devices /\ f.identities = e.identities
  <1>1. e \in Database
    BY DEF Consistent
  <1>2. /\ f \in Database /\ f.rows = e.rows \cup {q} /\ f.links = e.links
        /\ f.devices = e.devices /\ f.identities = e.identities
    BY <1>1 DEF Database
  \* Where the row goes there was one already.
  <1>3. \A p \in f.rows : \E z \in e.rows : z.identity = p.identity /\ z.device = p.device
    BY <1>2
  <1>4. Consistent(f, time)
    BY <1>2 DEF Consistent
  <1>5. Named(f, m) /\ Shown(f, m) /\ InPlace(f, m)
    BY <1>2, <1>3 DEF Kept, Named, Shown, InPlace
  <1>6. OneHome(f, m)
    BY <1>3 DEF Kept, OneHome
  <1>7. Present(f, m, time)
    BY <1>2 DEF Kept, Present
  <1>8. Together(f, m, {})
    BY <1>2, <1>3 DEF Together
  <1> QED
    BY <1>2, <1>4, <1>5, <1>6, <1>7, <1>8 DEF Kept

\* A row on a device of its own, of an identity that has another.
LEMMA TwinKeeps ==
  ASSUME NEW e, NEW time \in Nat, Consistent(e, time), NEW m,
         Kept(e, m, time), Together(e, m, {}),
         NEW y \in Device, ~Retired(y), ~Displaced(y), Aged(y, time),
         NEW q \in Row, q.identity \in DOMAIN e.identities, q.identity \in Astray(m),
         q.device = Len(e.devices) + 1, Len(e.devices) + 1 <= MaxDevices,
         q.at <= time, q.at <= y.seen,
         NEW f, f.devices = Append(e.devices, y), f.rows = e.rows \cup {q},
         f.links = e.links, f.identities = e.identities, f \in Database
  PROVE  /\ Consistent(f, time) /\ Kept(f, m, time) /\ Together(f, m, {})
         /\ DOMAIN e.devices \subseteq DOMAIN f.devices
  <1>1. /\ e \in Database /\ e.devices \in Seq(Device)
        /\ DOMAIN e.devices = 1 .. Len(e.devices) /\ Len(e.devices) \in Nat
    BY DeviceAt DEF Consistent
  <1>2. PICK devices \in Seq(Device) : devices = Append(e.devices, y)
    <2>1. Append(e.devices, y) \in Seq(Device)
      BY <1>1
    <2> QED
      BY <2>1
  <1>3. /\ DOMAIN devices = 1 .. Len(e.devices) + 1 /\ Len(devices) = Len(e.devices) + 1
        /\ devices[Len(e.devices) + 1] = y
        /\ \A u \in DOMAIN e.devices : devices[u] = e.devices[u]
    BY <1>1, <1>2
  <1>4. /\ f \in Database /\ f.rows = e.rows \cup {q} /\ f.links = e.links
        /\ f.devices = devices /\ f.identities = e.identities
    BY <1>2
  <1>5. /\ DOMAIN e.devices \subseteq DOMAIN devices /\ q.device \in DOMAIN devices
        /\ devices[q.device] = y
        /\ \A u \in DOMAIN devices : u # q.device => u \in DOMAIN e.devices
    BY <1>1, <1>3
  <1>6. \A p \in e.rows : p.device \in DOMAIN e.devices /\ devices[p.device] = e.devices[p.device]
    BY <1>3 DEF Consistent
  <1>7. Consistent(f, time)
    <2>1. \A k \in DOMAIN f.links :
            /\ {f.links[k].predecessor, f.links[k].successor} \subseteq DOMAIN f.identities
            /\ {f.links[k].from, f.links[k].to} \subseteq DOMAIN f.devices
      BY <1>4, <1>5 DEF Consistent
    <2>2. \A p \in f.rows :
            p.identity \in DOMAIN f.identities /\ p.device \in DOMAIN f.devices /\ p.at <= time
      BY <1>4, <1>5 DEF Consistent
    <2> QED
      BY <1>3, <1>4, <2>1, <2>2 DEF Consistent
  <1>8. Named(f, m) /\ OneHome(f, m)
    BY <1>4 DEF Kept, Named, OneHome
  <1>9. Shown(f, m)
    BY <1>4, <1>5, <1>6 DEF Kept, Shown
  <1>10. Present(f, m, time) /\ InPlace(f, m)
    <2>1. \A p \in f.rows : p.device \notin m.clouded => p.at <= devices[p.device].seen
      BY <1>4, <1>5, <1>6 DEF Kept, Present
    <2>2. ASSUME NEW u \in DOMAIN devices \ m.clouded
          PROVE  Aged(devices[u], time) /\ (u \notin m.misplaced => ~Displaced(devices[u]))
      BY <1>3, <1>5 DEF Kept, Present, InPlace
    <2> QED
      BY <1>4, <2>1, <2>2 DEF Present, InPlace
  <1>11. Together(f, m, {})
    <2> SUFFICES ASSUME NEW k \in DOMAIN e.links, e.links[k].status = "accepted",
                        {e.links[k].predecessor, e.links[k].successor}
                          \cap (m.parted \cup Astray(m)) = {},
                        NEW p \in f.rows, NEW z \in f.rows,
                        p.identity = e.links[k].predecessor, z.identity = e.links[k].successor
                 PROVE  p.device = z.device
      BY <1>4 DEF Together
    <2>1. p \in e.rows /\ z \in e.rows
      BY <1>4
    <2> QED
      BY <2>1 DEF Together
  <1> QED
    BY <1>4, <1>5, <1>7, <1>8, <1>9, <1>10, <1>11 DEF Kept

LEMMA FirstDevices ==
  ASSUME Consistent(db, now), now \in Nat, NEW a, NEW b, Read(b, db, a, now)
  PROVE  StoredFirst(b).devices \in Seq(Device)
  <1>1. db \in Database /\ b \in BatchType /\ db.devices \in Seq(Device)
    BY DeviceAt DEF Consistent, Read
  <1>2. PICK device \in Device : device = LastSeen(b)
    <2>1. b.place # Nowhere => b.place.scanner = b.obs.scanner
      BY DEF Read
    <2> QED
      BY <1>1, <2>1, LastSeenDevice
  <1>3. CASE b.device = 0
    <2>1. Append(db.devices, device) \in Seq(Device)
      BY <1>1
    <2> QED
      BY <1>1, <1>2, <1>3, <2>1 DEF StoredFirst, Database
  <1>4. CASE b.device # 0
    <2>1. b.device \in DOMAIN db.devices
      BY <1>4 DEF Read
    <2>2. PICK x \in Device : x = WrittenRow(db.devices[b.device], b.row, device)
      <3>1. db.devices[b.device] \in Device /\ b.row \in Device
        BY <1>1, <2>1, DeviceAt DEF BatchType
      <3> QED
        BY <3>1, WrittenDevice
    <2>3. [db.devices EXCEPT ![b.device] = x] \in Seq(Device)
      BY <1>1, <2>1
    <2> QED
      BY <1>1, <1>2, <1>4, <2>2, <2>3 DEF StoredFirst, Database
  <1> QED
    BY <1>3, <1>4

\* A new device is where its first observation was, and not retired.
LEMMA NewDeviceParts ==
  ASSUME NEW address \in Addresses, NEW scanner \in Scanners, NEW place \in Places,
         place # Nowhere => place.scanner = scanner, NEW at \in 0 .. Horizon,
         NEW x, x = NewDevice(address, scanner, place, at), NEW time \in Nat
  PROVE  x \in Device /\ ~Retired(x) /\ ~Displaced(x) /\ Aged(x, time)
  BY DEF NewDevice, Device, Statuses, Absent, Retired, Displaced, Aged

\* Both observations of a batch.
LEMMA BatchKeeps ==
  ASSUME Consistent(db, now), now \in Nat, accidents \in Accidents,
         Kept(db, accidents, now), Together(db, accidents, {}),
         NEW b, Read(b, db, accidents, now),
         b.identity \in 1 .. Len(db.identities) + 1,
         NEW f, f = Stored(b), Len(f.devices) <= MaxDevices,
         NEW m, m = BatchAccidents(b)
  PROVE  /\ m \in Accidents /\ More(accidents, m)
         /\ m.refused \subseteq accidents.refused \cup m.doubled
         /\ Consistent(f, now) /\ Kept(f, m, now) /\ Together(f, m, {})
         /\ DOMAIN db.devices \subseteq DOMAIN f.devices
         /\ b.identity \in DOMAIN db.identities => f.identities = db.identities
         /\ b.identity \notin DOMAIN db.identities =>
              f.identities = Append(db.identities, b.obs.address)
  <1> DEFINE y == Seen(NewDevice(b.obs.address, b.obs.scanner, b.place, b.then),
                       b.obs.scanner, b.place, b.then)
  <1>1. PICK e : e = StoredFirst(b)
    OBVIOUS
  <1>2. e.devices \in Seq(Device)
    BY <1>1, FirstDevices
  <1>3. /\ b \in BatchType /\ b.then <= now
        /\ b.place # Nowhere => b.place.scanner = b.obs.scanner
        /\ b.obs.scanner \in Scanners /\ b.obs.address \in Addresses
        /\ b.place \in Places /\ b.then \in 0 .. Horizon /\ b.then \in Nat
    BY ObservationsAssumption DEF Read, BatchType, Addresses
  <1>4. PICK second :
          second = [obs |-> b.again, identity |-> b.identity, at |-> b.then,
                    device |-> IF b.device = 0 THEN Len(e.devices) ELSE b.device,
                    anchor |-> LastSeen(b).place]
    OBVIOUS
  <1>5. f = IF Twins(b)
              THEN [e EXCEPT !.devices = Append(@, y),
                             !.rows = @ \cup {[second EXCEPT !.device = @ + 1, !.anchor = y.place]}]
            ELSE IF StoresAgain(b) THEN [e EXCEPT !.rows = @ \cup {second}]
            ELSE e
    BY <1>1, <1>4 DEF Stored
  <1> HIDE DEF y
  <1>6. /\ Len(e.devices) <= MaxDevices
        /\ Twins(b) => Len(e.devices) + 1 <= MaxDevices
    <2>1. CASE Twins(b)
      <3>1. f.devices = Append(e.devices, y)
        BY <1>1, <1>5, <2>1 DEF StoredFirst
      <3>2. Len(f.devices) = Len(e.devices) + 1 /\ Len(e.devices) \in Nat
        BY <1>2, <3>1
      <3> QED
        BY <3>2, TimesAssumption
    <2>2. CASE ~Twins(b)
      <3>1. f.devices = e.devices
        BY <1>1, <1>5, <2>2 DEF StoredFirst
      <3> QED
        BY <2>2, <3>1
    <2> QED
      BY <2>1, <2>2
  <1>7. /\ m \in Accidents /\ More(accidents, m)
        /\ m.refused \subseteq accidents.refused \cup m.doubled
        /\ Twins(b) => b.identity \in Astray(m)
        /\ \E r \in e.rows :
             /\ r.identity = b.identity
             /\ r.device = IF b.device = 0 THEN Len(e.devices) ELSE b.device
             /\ r.device \in m.clouded \/ e.devices[r.device] = LastSeen(b)
        /\ Consistent(e, now) /\ Kept(e, m, now) /\ Together(e, m, {})
        /\ DOMAIN db.devices \subseteq DOMAIN e.devices
        /\ b.identity \in DOMAIN db.identities => e.identities = db.identities
        /\ b.identity \notin DOMAIN db.identities =>
             e.identities = Append(db.identities, b.obs.address)
    BY <1>1, <1>6, StoreKeeps
  <1>8. PICK r \in e.rows :
          /\ r.identity = b.identity
          /\ r.device = IF b.device = 0 THEN Len(e.devices) ELSE b.device
          /\ r.device \in m.clouded \/ e.devices[r.device] = LastSeen(b)
    BY <1>7
  <1>9. r \in Row /\ r.identity \in DOMAIN e.identities /\ e \in Database
    BY <1>7, DeviceAt DEF Consistent
  <1>10. /\ LastSeen(b) \in Device
         /\ StoresAgain(b) /\ ~Twins(b) => b.then <= LastSeen(b).seen
    BY <1>3, LastSeenDevice
  <1>11. StoresAgain(b) => second \in Row
    <2>1. StoresAgain(b) => b.again \in Observations
      BY <1>3 DEF StoresAgain, BatchType
    <2>2. b.identity \in 1 .. Budget /\ r.device \in 1 .. MaxDevices
      BY <1>8, <1>9 DEF Row
    <2>3. LastSeen(b).place \in Places
      BY <1>10 DEF Device
    <2> QED
      BY <1>3, <1>4, <1>8, <2>1, <2>2, <2>3 DEF Row
  <1>12. CASE StoresAgain(b) /\ ~Twins(b)
    <2>1. f = [e EXCEPT !.rows = @ \cup {second}]
      BY <1>5, <1>12
    <2>2. /\ second.identity = r.identity /\ second.device = r.device /\ second.at = b.then
          /\ second \in Row
      BY <1>4, <1>8, <1>11, <1>12
    <2>3. second.device \in m.clouded \/ second.at <= e.devices[second.device].seen
      BY <1>8, <1>10, <1>12, <2>2
    <2>4. /\ Consistent(f, now) /\ Kept(f, m, now) /\ Together(f, m, {})
          /\ f.devices = e.devices /\ f.identities = e.identities
      BY <1>3, <1>7, <1>8, <2>1, <2>2, <2>3, BesideKeeps
    <2> QED
      BY <1>7, <2>4
  <1>13. CASE Twins(b)
    <2>1. StoresAgain(b) /\ b.device = 0
      BY <1>13 DEF Twins
    <2>2. PICK x : x = NewDevice(b.obs.address, b.obs.scanner, b.place, b.then)
      OBVIOUS
    <2>3. x \in Device /\ ~Retired(x) /\ ~Displaced(x) /\ Aged(x, now)
      BY <1>3, <2>2, NewDeviceParts
    <2>4. y \in Device /\ ~Retired(y) /\ ~Displaced(y) /\ Aged(y, now) /\ b.then <= y.seen
      <3>1. y = Seen(x, b.obs.scanner, b.place, b.then)
        BY <2>2 DEF y
      <3> QED
        BY <1>3, <2>3, <3>1, SeenDevice
    <2>5. PICK q : q = [second EXCEPT !.device = @ + 1, !.anchor = y.place]
      OBVIOUS
    <2>6. /\ q \in Row /\ q.identity = b.identity /\ q.at = b.then
          /\ q.device = Len(e.devices) + 1
      <3>1. y.place \in Places
        BY <2>4 DEF Device
      <3>2. /\ second \in Row /\ second.identity = b.identity /\ second.at = b.then
            /\ second.device = Len(e.devices)
        BY <1>4, <1>11, <2>1
      <3>3. Len(e.devices) + 1 \in 1 .. MaxDevices
        BY <1>2, <1>6, <1>13, TimesAssumption
      <3> QED
        BY <2>5, <3>1, <3>2, <3>3 DEF Row
    <2>7. f = [e EXCEPT !.devices = Append(@, y), !.rows = @ \cup {q}]
      BY <1>5, <1>13, <2>5
    <2>8. /\ Consistent(f, now) /\ Kept(f, m, now) /\ Together(f, m, {})
          /\ DOMAIN e.devices \subseteq DOMAIN f.devices /\ f.identities = e.identities
      <3>1. q.identity \in DOMAIN e.identities /\ q.identity \in Astray(m)
        BY <1>7, <1>8, <1>9, <1>13, <2>6
      <3>2. q.at <= now /\ q.at <= y.seen /\ Len(e.devices) + 1 <= MaxDevices
        BY <1>3, <1>6, <1>13, <2>4, <2>6
      <3>3. Consistent(e, now) /\ Kept(e, m, now) /\ Together(e, m, {})
        BY <1>7
      <3> QED
        <4>1. e \in Database /\ e.devices \in Seq(Device) /\ Append(e.devices, y) \in Seq(Device)
          BY <1>2, <1>9, <2>4
        <4>2. /\ f \in Database /\ f.rows = e.rows \cup {q} /\ f.links = e.links
              /\ f.devices = Append(e.devices, y) /\ f.identities = e.identities
          BY <2>6, <2>7, <4>1 DEF Database
        <4>3. /\ Consistent(f, now) /\ Kept(f, m, now) /\ Together(f, m, {})
              /\ DOMAIN e.devices \subseteq DOMAIN f.devices
          BY <2>4, <2>6, <3>1, <3>2, <3>3, <4>2, TwinKeeps
        <4> QED
          BY <4>2, <4>3
    <2> QED
      BY <1>7, <2>8
  <1>14. CASE ~StoresAgain(b) /\ ~Twins(b)
    BY <1>5, <1>7, <1>14
  <1> QED
    BY <1>12, <1>13, <1>14

-----------------------------------------------------------------------------
(* Correlation.                                                            *)

\* The links say nothing of the devices.
LEMMA LinksApart ==
  ASSUME NEW d, NEW time, Consistent(d, time), NEW a, Kept(d, a, time),
         NEW links \in Seq(Link),
         \A k \in DOMAIN links :
           /\ {links[k].predecessor, links[k].successor} \subseteq DOMAIN d.identities
           /\ {links[k].from, links[k].to} \subseteq DOMAIN d.devices,
         NEW e, e = [d EXCEPT !.links = links]
  PROVE  /\ Consistent(e, time) /\ Kept(e, a, time)
         /\ e.identities = d.identities /\ e.devices = d.devices /\ e.rows = d.rows
         /\ e.links = links
  <1>1. d \in Database
    BY DEF Consistent
  <1>2. /\ e \in Database
        /\ e.identities = d.identities /\ e.devices = d.devices /\ e.rows = d.rows
        /\ e.links = links
    BY <1>1 DEF Database
  <1>3. Consistent(e, time)
    BY <1>2 DEF Consistent
  <1>4. Named(e, a) /\ OneHome(e, a) /\ Shown(e, a) /\ Present(e, a, time) /\ InPlace(e, a)
    BY <1>2 DEF Kept, Named, OneHome, Shown, Present, InPlace
  <1> QED
    BY <1>2, <1>3, <1>4 DEF Kept

LEMMA SameMarks ==
  ASSUME NEW d \in Database, NEW e \in Database, e.devices = d.devices, NEW a,
         NEW c \in DOMAIN d.devices, NEW m \in DOMAIN d.devices, c # m,
         Len(d.devices) <= MaxDevices
  PROVE  MergeAccidents(a, d, c, m) = MergeAccidents(a, e, c, m)
  <1>1. Merged(d, c, m).devices = Merged(e, c, m).devices
    BY DEF Merged, Database
  <1> QED
    BY <1>1 DEF MergeAccidents

\* What the methods of correlation have in common.
LEMMA MatchParts ==
  ASSUME NEW d, NEW time, Consistent(d, time), NEW i \in DOMAIN d.identities,
         NEW l \in Matches(d, i)
  PROVE  /\ l \in Link
         /\ l.predecessor \in DOMAIN d.identities /\ l.successor = i
         /\ l.from \in Homes(d, l.predecessor) /\ l.to \in Homes(d, i)
         /\ l.status = "accepted" => l.method = "token"
  <1>1. PICK method \in {"apple", "rssi", "token"}, status \in {"proposal", "accepted"} :
          /\ l \in Candidates(d, i, method, status)
          /\ status = "accepted" => method = "token"
    BY DEF Matches, AppleMatches, TokenMatches, RssiMatches
  <1>2. l \in [predecessor : DOMAIN d.identities, successor : {i}, from : DOMAIN d.devices,
               to : DOMAIN d.devices, method : {method}, status : {status}]
    BY <1>1 DEF Candidates
  <1>3. l.from \in Homes(d, l.predecessor) /\ l.to \in Homes(d, i)
    BY <1>1 DEF Candidates, Homes, Latest
  <1>4. DOMAIN d.identities \subseteq 1 .. Budget /\ DOMAIN d.devices \subseteq 1 .. MaxDevices
    <2>1. /\ DOMAIN d.devices = 1 .. Len(d.devices) /\ Len(d.devices) \in Nat
          /\ DOMAIN d.identities = 1 .. Len(d.identities) /\ Len(d.identities) \in Nat
      BY DeviceAt DEF Consistent
    <2>2. Len(d.identities) <= Budget /\ Len(d.devices) <= MaxDevices
      BY DEF Consistent
    <2> QED
      BY <2>1, <2>2, TimesAssumption, SMTT(30)
  <1>5. l \in Link
    BY <1>2, <1>4 DEF Link
  <1> QED
    BY <1>1, <1>2, <1>3, <1>5

\* The devices of a link that was accepted are made one, if they can be.
LEMMA CorrelateKeeps ==
  ASSUME NEW d, NEW time \in Nat, Consistent(d, time), NEW a \in Accidents,
         Kept(d, a, time), Together(d, a, {}),
         NEW i \in DOMAIN d.identities, NEW l \in Matches(d, i),
         NEW e, e = Correlated(d, l),
         NEW b, b = IF l.method # "token" \/ l.from = l.to THEN a
                    ELSE IF CanMerge(d, l.from, l.to) THEN MergeAccidents(a, d, l.from, l.to)
                    ELSE [a EXCEPT !.parted = @ \cup {i}]
  PROVE  /\ b \in Accidents /\ More(a, b) /\ b.refused = a.refused
         /\ Consistent(e, time) /\ Kept(e, b, time) /\ Together(e, b, {})
         /\ DOMAIN e.devices = DOMAIN d.devices /\ e.identities = d.identities
  <1>1. d \in Database /\ Len(d.devices) <= MaxDevices
    BY DEF Consistent
  <1>2. /\ l \in Link
        /\ l.predecessor \in DOMAIN d.identities /\ l.successor = i
        /\ l.from \in Homes(d, l.predecessor) /\ l.to \in Homes(d, i)
        /\ l.status = "accepted" => l.method = "token"
    BY MatchParts
  <1>3. l.from \in DOMAIN d.devices /\ l.to \in DOMAIN d.devices
    BY <1>2 DEF Consistent, Homes, Evidence
  <1>4. PICK links \in Seq(Link) : links = Append(d.links, l)
    <2>1. d.links \in Seq(Link)
      BY <1>1 DEF Database
    <2>2. Append(d.links, l) \in Seq(Link)
      BY <1>2, <2>1
    <2> QED
      BY <2>2
  <1>5. DOMAIN links = DOMAIN d.links \cup {Len(d.links) + 1}
        /\ links[Len(d.links) + 1] = l
        /\ \A k \in DOMAIN d.links : links[k] = d.links[k]
    <2>1. d.links \in Seq(Link)
      BY <1>1 DEF Database
    <2> QED
      BY <1>2, <1>4, <2>1
  <1>6. PICK linked : linked = [d EXCEPT !.links = links]
    OBVIOUS
  <1>7. \A k \in DOMAIN links :
          /\ {links[k].predecessor, links[k].successor} \subseteq DOMAIN d.identities
          /\ {links[k].from, links[k].to} \subseteq DOMAIN d.devices
    BY <1>2, <1>3, <1>5 DEF Consistent
  <1>8. /\ Consistent(linked, time) /\ Kept(linked, a, time)
        /\ linked.identities = d.identities /\ linked.devices = d.devices
        /\ linked.rows = d.rows /\ linked.links = links
    BY <1>6, <1>7, LinksApart
  <1>9. ASSUME NEW S, NEW c, More(a, c),
               l.status = "accepted" /\ {l.predecessor, i} \cap (c.parted \cup Astray(c)) = {}
                 => {l.from, l.to} \subseteq S \/ l.from = l.to
        PROVE  Together(linked, c, S)
    <2> SUFFICES ASSUME NEW k \in DOMAIN links, links[k].status = "accepted",
                        {links[k].predecessor, links[k].successor}
                          \cap (c.parted \cup Astray(c)) = {},
                        NEW q \in d.rows, NEW r \in d.rows,
                        q.identity = links[k].predecessor, r.identity = links[k].successor
                 PROVE  q.device = r.device \/ {q.device, r.device} \subseteq S
      BY <1>8 DEF Together
    <2>1. CASE k \in DOMAIN d.links
      <3>1. {d.links[k].predecessor, d.links[k].successor} \cap (a.parted \cup Astray(a)) = {}
        BY <1>5, <1>9, <2>1 DEF More
      <3>2. links[k] = d.links[k]
        BY <1>5, <2>1
      <3> QED
        BY <2>1, <3>1, <3>2 DEF Together
    <2>2. CASE links[k] = l
      <3>1. {l.predecessor, i} \cap (c.parted \cup Astray(c)) = {}
        BY <1>2, <2>2
      <3>2. l.predecessor \notin Astray(a) /\ i \notin Astray(a)
        BY <1>9, <3>1 DEF More
      <3>3. q.device = l.from
        BY <1>2, <2>2, <3>2 DEF Kept, OneHome, Homes, Evidence
      <3>4. r.device = l.to
        BY <1>2, <2>2, <3>2 DEF Kept, OneHome, Homes, Evidence
      <3> QED
        BY <1>9, <2>2, <3>1, <3>3, <3>4
    <2> QED
      BY <1>5, <2>1, <2>2
  <1>10. More(a, a)
    BY DEF More
  <1>11. CASE l.method # "token" \/ l.from = l.to
    <2>1. b = a /\ e = linked
      BY <1>4, <1>6, <1>11 DEF Correlated, CanMerge
    <2>2. Together(linked, a, {})
      BY <1>2, <1>9, <1>10, <1>11
    <2> QED
      BY <1>8, <1>10, <2>1, <2>2
  <1>12. CASE l.method = "token" /\ l.from # l.to /\ CanMerge(d, l.from, l.to)
    <2>1. e = Merged(linked, l.from, l.to)
      BY <1>4, <1>6, <1>12 DEF Correlated
    <2>2. b = MergeAccidents(a, linked, l.from, l.to)
      <3>1. linked \in Database
        BY <1>8 DEF Consistent
      <3>2. MergeAccidents(a, d, l.from, l.to) = MergeAccidents(a, linked, l.from, l.to)
        BY <1>1, <1>3, <1>8, <1>12, <3>1, SameMarks
      <3> QED
        BY <1>12, <3>2
    <2>3. Together(linked, a, {l.from, l.to})
      BY <1>9, <1>10
    <2>4. l.from \in DOMAIN linked.devices /\ l.to \in DOMAIN linked.devices
      BY <1>3, <1>8
    <2> QED
      BY <1>8, <1>12, <2>1, <2>2, <2>3, <2>4, MergeKeeps
  <1>13. CASE l.method = "token" /\ l.from # l.to /\ ~CanMerge(d, l.from, l.to)
    <2>1. e = linked
      BY <1>4, <1>6, <1>13 DEF Correlated
    <2>2. b = [a EXCEPT !.parted = @ \cup {i}]
      BY <1>13
    <2>3. i \in 1 .. Budget
      BY <1>2 DEF Link
    <2>4. b \in Accidents /\ More(a, b) /\ b.refused = a.refused /\ i \in b.parted
      BY <2>2, <2>3, SMTT(30) DEF Accidents, More, Astray
    <2>5. Together(linked, b, {})
      BY <1>9, <2>4
    <2>6. Kept(linked, b, time)
      <3>1. /\ b.doubled = a.doubled /\ Astray(b) = Astray(a) /\ b.hidden = a.hidden
            /\ b.clouded = a.clouded /\ b.misplaced = a.misplaced
        BY <2>2 DEF Accidents, Astray
      <3> QED
        BY <1>8, <3>1 DEF Kept, Named, OneHome, Shown, Present, InPlace
    <2> QED
      BY <1>8, <2>1, <2>4, <2>5, <2>6
  <1> QED
    BY <1>11, <1>12, <1>13

LEMMA AcceptKeeps ==
  ASSUME NEW time \in Nat, Consistent(db, time), accidents \in Accidents,
         Kept(db, accidents, time), Together(db, accidents, {}),
         NEW k \in DOMAIN db.links, Accept(k)
  PROVE  /\ accidents' \in Accidents /\ More(accidents, accidents')
         /\ accidents'.refused = accidents.refused
         /\ Consistent(db', time) /\ Kept(db', accidents', time) /\ Together(db', accidents', {})
         /\ DOMAIN db'.devices = DOMAIN db.devices /\ db'.identities = db.identities
  <1> DEFINE l == db.links[k]
             stale == Homes(db, l.predecessor) \ {l.from} # {}
                      \/ Homes(db, l.successor) \ {l.to} # {}
  <1>1. db \in Database /\ Len(db.devices) <= MaxDevices
    BY DEF Consistent
  <1>2. db.links \in Seq(Link) /\ l \in Link
    <2>1. db.links \in Seq(Link)
      BY <1>1 DEF Database
    <2> QED
      BY <2>1
  <1>3. PICK marked : marked = [accidents EXCEPT
                                  !.parted = IF stale THEN @ \cup {l.successor} ELSE @]
    OBVIOUS
  <1>4. PICK accepted : accepted = [db EXCEPT !.links[k].status = "accepted"]
    OBVIOUS
  <1>5. \/ l.from = l.to /\ db' = accepted /\ accidents' = marked
        \/ /\ l.from # l.to /\ CanMerge(db, l.from, l.to)
           /\ db' = Merged(accepted, l.from, l.to)
           /\ accidents' = MergeAccidents(marked, db, l.from, l.to)
    BY <1>3, <1>4 DEF Accept, Request
  <1>6. /\ marked \in Accidents /\ More(accidents, marked)
        /\ marked.refused = accidents.refused /\ marked.doubled = accidents.doubled
        /\ Astray(marked) = Astray(accidents) /\ marked.hidden = accidents.hidden
        /\ marked.clouded = accidents.clouded /\ marked.misplaced = accidents.misplaced
        /\ stale => l.successor \in marked.parted
    <2>1. l.successor \in 1 .. Budget
      BY <1>2 DEF Link
    <2> HIDE DEF stale, l
    <2> QED
      BY <1>3, <2>1 DEF Accidents, More, Astray
  <1>7. Kept(db, marked, time)
    BY <1>6 DEF Kept, Named, OneHome, Shown, Present, InPlace
  <1>8. PICK link \in Link : link = [l EXCEPT !.status = "accepted"]
    BY <1>2 DEF Link
  <1>9. /\ link.predecessor = l.predecessor /\ link.successor = l.successor
        /\ link.from = l.from /\ link.to = l.to
    BY <1>2, <1>8 DEF Link
  <1>10. PICK links \in Seq(Link) : links = [db.links EXCEPT ![k] = link]
    <2>1. [db.links EXCEPT ![k] = link] \in Seq(Link)
      BY <1>2, <1>8
    <2> QED
      BY <2>1
  <1>11. /\ DOMAIN links = DOMAIN db.links /\ links[k] = link
         /\ \A n \in DOMAIN links : n # k => links[n] = db.links[n]
    BY <1>10
  <1>12. accepted = [db EXCEPT !.links = links]
    BY <1>1, <1>4, <1>8, <1>10 DEF Database
  <1>13. \A n \in DOMAIN links :
           /\ {links[n].predecessor, links[n].successor} \subseteq DOMAIN db.identities
           /\ {links[n].from, links[n].to} \subseteq DOMAIN db.devices
    <2>1. \A n \in DOMAIN db.links :
            /\ {db.links[n].predecessor, db.links[n].successor} \subseteq DOMAIN db.identities
            /\ {db.links[n].from, db.links[n].to} \subseteq DOMAIN db.devices
      BY DEF Consistent
    <2>2. \A n \in DOMAIN links :
            /\ links[n].predecessor = db.links[n].predecessor
            /\ links[n].successor = db.links[n].successor
            /\ links[n].from = db.links[n].from /\ links[n].to = db.links[n].to
      BY <1>9, <1>11
    <2> QED
      BY <1>11, <2>1, <2>2
  <1>14. /\ Consistent(accepted, time) /\ Kept(accepted, marked, time)
         /\ accepted.identities = db.identities /\ accepted.devices = db.devices
         /\ accepted.rows = db.rows /\ accepted.links = links
    BY <1>7, <1>12, <1>13, LinksApart
  <1>15. Together(accepted, marked, {l.from, l.to})
    <2> SUFFICES ASSUME NEW n \in DOMAIN links, links[n].status = "accepted",
                        {links[n].predecessor, links[n].successor}
                          \cap (marked.parted \cup Astray(marked)) = {},
                        NEW q \in db.rows, NEW r \in db.rows,
                        q.identity = links[n].predecessor, r.identity = links[n].successor
                 PROVE  q.device = r.device \/ {q.device, r.device} \subseteq {l.from, l.to}
      BY <1>14 DEF Together
    <2>1. CASE n # k
      <3>1. links[n] = db.links[n]
        BY <1>11, <2>1
      <3>2. {db.links[n].predecessor, db.links[n].successor}
              \cap (accidents.parted \cup Astray(accidents)) = {}
        BY <1>6, <3>1 DEF More
      <3> QED
        BY <1>11, <3>1, <3>2 DEF Together
    <2>2. CASE n = k
      <3>1. q.identity = l.predecessor /\ r.identity = l.successor /\ ~stale
        BY <1>6, <1>9, <1>11, <2>2
      <3>2. q.device \in Homes(db, l.predecessor) /\ r.device \in Homes(db, l.successor)
        BY <3>1 DEF Homes, Evidence
      <3> QED
        BY <3>1, <3>2
    <2> QED
      BY <2>1, <2>2
  <1>16. l.from \in DOMAIN db.devices /\ l.to \in DOMAIN db.devices
    BY DEF Consistent
  <1>17. CASE l.from = l.to /\ db' = accepted /\ accidents' = marked
    <2>1. Together(accepted, marked, {})
      BY <1>15, <1>17 DEF Together
    <2> QED
      BY <1>6, <1>14, <1>17, <2>1
  <1>18. CASE /\ l.from # l.to /\ CanMerge(db, l.from, l.to)
              /\ db' = Merged(accepted, l.from, l.to)
              /\ accidents' = MergeAccidents(marked, db, l.from, l.to)
    <2>1. accepted \in Database
      BY <1>14 DEF Consistent
    <2>2. MergeAccidents(marked, db, l.from, l.to) = MergeAccidents(marked, accepted, l.from, l.to)
      BY <1>1, <1>14, <1>16, <1>18, <2>1, SameMarks
    <2>3. l.from \in DOMAIN accepted.devices /\ l.to \in DOMAIN accepted.devices
      BY <1>14, <1>16
    <2> HIDE DEF l
    <2>4. /\ accidents' \in Accidents /\ More(marked, accidents')
          /\ accidents'.refused = marked.refused
          /\ Consistent(db', time) /\ Kept(db', accidents', time)
          /\ Together(db', accidents', {})
          /\ DOMAIN db'.devices = DOMAIN accepted.devices
          /\ db'.identities = accepted.identities
      BY <1>6, <1>14, <1>15, <1>18, <2>2, <2>3, MergeKeeps
    <2>5. More(accidents, accidents')
      BY <1>6, <2>4 DEF More
    <2> QED
      BY <1>6, <1>14, <2>4, <2>5
  <1> QED
    BY <1>5, <1>17, <1>18

-----------------------------------------------------------------------------
(* The invariant.                                                          *)

\* The records and the accidents so far.
Records(d, a, time) ==
  /\ a \in Accidents
  /\ Consistent(d, time) /\ Kept(d, a, time) /\ Together(d, a, {})

\* A step of the records.
Advance(d, a, time, e, b, later) ==
  /\ Records(e, b, later) /\ More(a, b)
  /\ DOMAIN d.devices \subseteq DOMAIN e.devices
  /\ DOMAIN d.identities \subseteq DOMAIN e.identities

\* What a request thread has in hand.
Holds(b, d, a, time) ==
  b # NoBatch =>
    /\ Read(b, d, a, time)
    /\ b.identity = 0 => b.device = 0 /\ b.homes = {}
    /\ b.identity # 0 => b.identity \in DOMAIN d.identities

\* What the sweep means to write.
Change == [device : 1 .. MaxDevices, old : Device, new : Device]
Sweeps(changes, d, time) ==
  /\ changes \subseteq Change
  /\ \A c \in changes : /\ c.device \in DOMAIN d.devices
                        /\ c.old.seen = c.new.seen /\ Gentle(c.old, c.new, time)
  /\ \A c, k \in changes : c.device = k.device => c = k

Located(where) ==
  where \in [Scanners -> Places] /\ \A s \in Scanners : where[s] # Nowhere => where[s].scanner = s

\* The threads that may insert an identity.
Newcomers == {t \in Requests : batches[t] # NoBatch /\ batches[t].identity = 0}

IInv ==
  /\ now \in 0 .. Horizon /\ spent \in 0 .. Budget
  /\ Records(db, accidents, now)
  /\ accidents.refused \subseteq accidents.doubled
  /\ DOMAIN batches = Requests
  /\ \A t \in Requests : Holds(batches[t], db, accidents, now)
  /\ Sweeps(sweep, db, now)
  /\ Located(places)
  /\ Len(db.identities) + Cardinality(Newcomers) <= spent

LEMMA AgedStays ==
  ASSUME NEW device, device.seen \in Nat, NEW time \in Nat, NEW later \in Nat, time <= later,
         Aged(device, time)
  PROVE  Aged(device, later)
  BY TimesAssumption DEF Aged

LEMMA HoldsStays ==
  ASSUME NEW b, NEW d, NEW a, NEW time \in Nat, Holds(b, d, a, time),
         NEW e, NEW c, NEW later \in Nat, time <= later, Advance(d, a, time, e, c, later)
  PROVE  Holds(b, e, c, later)
  <1> SUFFICES ASSUME b # NoBatch PROVE Holds(b, e, c, later)
    BY DEF Holds
  <1>1. Read(b, e, c, later)
    BY ReadStays DEF Holds, Advance
  <1> QED
    BY <1>1 DEF Holds, Advance

LEMMA SweepsStay ==
  ASSUME NEW changes, NEW d, NEW time \in Nat, Sweeps(changes, d, time),
         NEW a, NEW e, NEW c, NEW later \in Nat, time <= later,
         Advance(d, a, time, e, c, later), NEW rest \in SUBSET changes
  PROVE  Sweeps(rest, e, later)
  <1>1. ASSUME NEW k \in changes PROVE Gentle(k.old, k.new, later)
    <2>1. k \in Change /\ Gentle(k.old, k.new, time) /\ k.old.seen = k.new.seen
      BY DEF Sweeps
    <2>2. k.new.seen \in Nat
      BY <2>1 DEF Change, Device
    <2> QED
      BY <2>1, <2>2, AgedStays DEF Gentle
  <1> QED
    BY <1>1 DEF Sweeps, Advance

\* The part of the invariant that a step of the records takes along.
LEMMA StepParts ==
  ASSUME IInv, now' \in 0 .. Horizon, now <= now',
         Advance(db, accidents, now, db', accidents', now')
  PROVE  /\ Records(db', accidents', now')
         /\ \A t \in Requests : Holds(batches[t], db', accidents', now')
         /\ \A rest \in SUBSET sweep : Sweeps(rest, db', now')
  <1>1. now \in Nat /\ now' \in Nat
    BY DEF IInv
  <1>2. \A t \in Requests : Holds(batches[t], db', accidents', now')
    BY <1>1, HoldsStays DEF IInv
  <1>3. \A rest \in SUBSET sweep : Sweeps(rest, db', now')
    BY <1>1, SweepsStay DEF IInv
  <1> QED
    BY <1>2, <1>3 DEF Advance

\* A request of one step.
LEMMA RecordStep ==
  ASSUME IInv, now' \in 0 .. Horizon, now <= now',
         Advance(db, accidents, now, db', accidents', now'),
         accidents'.refused = accidents.refused,
         db'.identities = db.identities,
         sweep' \in SUBSET sweep, UNCHANGED <<batches, places>>,
         spent' \in 0 .. Budget, spent <= spent'
  PROVE  IInv'
  <1>1. /\ Records(db', accidents', now')
        /\ \A t \in Requests : Holds(batches'[t], db', accidents', now')
        /\ Sweeps(sweep', db', now')
    BY StepParts
  <1>2. accidents'.refused \subseteq accidents'.doubled
    BY DEF IInv, Advance, More
  <1>3. Newcomers' = Newcomers
    BY DEF Newcomers
  <1>4. Len(db'.identities) + Cardinality(Newcomers') <= spent'
    <2>1. IsFiniteSet(Newcomers)
      BY FS_Subset, RequestsAssumption DEF Newcomers
    <2>2. Cardinality(Newcomers) \in Nat
      BY <2>1, FS_CardinalityType
    <2>3. Len(db.identities) \in Nat
      BY DeviceAt DEF IInv, Records, Consistent
    <2> QED
      BY <1>3, <2>2, <2>3 DEF IInv
  <1> QED
    BY <1>1, <1>2, <1>4 DEF IInv

\* A step that leaves the records alone.
LEMMA Still ==
  ASSUME IInv, now' \in 0 .. Horizon, now <= now', db' = db,
         accidents' \in Accidents, More(accidents, accidents'),
         accidents'.doubled = accidents.doubled
  PROVE  Advance(db, accidents, now, db', accidents', now')
  <1>1. now \in Nat /\ now' \in Nat /\ Records(db, accidents, now)
    BY DEF IInv
  <1>2. ASSUME NEW s \in DOMAIN db.devices \ accidents'.clouded
        PROVE  Gentle(db.devices[s], db.devices[s], now')
    <2>1. Aged(db.devices[s], now) /\ db.devices[s].seen \in Nat
      BY <1>1, <1>2, DeviceAt DEF Records, Consistent, Kept, Present, More
    <2> QED
      BY <1>1, <2>1, AgedStays DEF Gentle
  <1>3. Mild(db, db, accidents', now')
    BY <1>2 DEF Mild
  <1>4. Consistent(db, now') /\ Kept(db, accidents', now') /\ Together(db, accidents', {})
    BY <1>1, <1>3, MildKeeps DEF Records, Consistent
  <1> QED
    BY <1>4 DEF Advance, Records

\* A step that changes one device.
LEMMA OneDevice ==
  ASSUME IInv, NEW s \in DOMAIN db.devices, NEW x \in Device,
         s \notin accidents.clouded => Gentle(db.devices[s], x, now),
         db' = [db EXCEPT !.devices = [db.devices EXCEPT ![s] = x]],
         accidents' = accidents, UNCHANGED <<now, batches, places, sweep>>,
         spent' \in 0 .. Budget, spent <= spent'
  PROVE  IInv'
  <1>1. now \in Nat /\ Records(db, accidents, now) /\ db \in Database
    BY DEF IInv, Records, Consistent
  <1>2. PICK devices \in Seq(Device) : devices = [db.devices EXCEPT ![s] = x]
    <2>1. [db.devices EXCEPT ![s] = x] \in Seq(Device)
      BY <1>1, DeviceAt
    <2> QED
      BY <2>1
  <1>3. /\ DOMAIN devices = DOMAIN db.devices /\ Len(devices) = Len(db.devices)
        /\ devices[s] = x
        /\ \A u \in DOMAIN db.devices : u # s => devices[u] = db.devices[u]
    BY <1>1, <1>2, DeviceAt
  <1>4. /\ db' \in Database /\ db'.devices = devices
        /\ db'.identities = db.identities /\ db'.links = db.links /\ db'.rows = db.rows
    BY <1>1, <1>2 DEF Database
  <1>5. Mild(db, db', accidents, now)
    <2>1. ASSUME NEW u \in DOMAIN db.devices \ accidents.clouded
          PROVE  Gentle(db.devices[u], devices[u], now)
      <3>1. CASE u = s
        BY <1>3, <2>1, <3>1
      <3>2. CASE u # s
        <4>1. Aged(db.devices[u], now) /\ db.devices[u].seen \in Nat
          BY <1>1, DeviceAt DEF Records, Kept, Present
        <4> QED
          BY <1>3, <3>2, <4>1 DEF Gentle
      <3> QED
        BY <3>1, <3>2
    <2> QED
      BY <1>3, <1>4, <2>1 DEF Mild
  <1>6. More(accidents, accidents)
    BY DEF More
  <1>7. Consistent(db', now) /\ Kept(db', accidents, now) /\ Together(db', accidents, {})
    BY <1>1, <1>4, <1>5, <1>6, MildKeeps DEF Records
  <1>8. Advance(db, accidents, now, db', accidents', now')
    BY <1>1, <1>3, <1>4, <1>6, <1>7 DEF Advance, Records
  <1>9. now' \in 0 .. Horizon /\ now <= now' /\ sweep' \in SUBSET sweep
    BY <1>1 DEF IInv
  <1> QED
    BY <1>4, <1>8, <1>9, RecordStep

-----------------------------------------------------------------------------
(* The steps.                                                              *)

LEMMA KnownStep ==
  ASSUME IInv, NEW s \in Devices,
         \/ MarkKnown(s)
         \/ \E ignored \in BOOLEAN : Ignore(s, ignored)
  PROVE  IInv'
  <1>1. s \in DOMAIN db.devices /\ db \in Database /\ db.devices[s] \in Device
    BY DeviceAt DEF Devices, IInv, Records, Consistent
  <1>2. PICK x \in Device :
          /\ x.seen = db.devices[s].seen /\ x.status = db.devices[s].status
          /\ x.scanner = db.devices[s].scanner /\ x.place = db.devices[s].place
          /\ db' = [db EXCEPT !.devices = [db.devices EXCEPT ![s] = x]]
    <2>1. CASE MarkKnown(s)
      <3>1. PICK x \in Device : x = [db.devices[s] EXCEPT !.known = TRUE]
        BY <1>1 DEF Device
      <3>2. /\ x.seen = db.devices[s].seen /\ x.status = db.devices[s].status
            /\ x.scanner = db.devices[s].scanner /\ x.place = db.devices[s].place
        BY <1>1, <3>1 DEF Device
      <3>3. db' = [db EXCEPT !.devices = [db.devices EXCEPT ![s] = x]]
        BY <2>1, <3>1 DEF MarkKnown, Request
      <3> QED
        BY <3>2, <3>3
    <2>2. ASSUME NEW ignored \in BOOLEAN, Ignore(s, ignored)
          PROVE  \E x \in Device :
                   /\ x.seen = db.devices[s].seen /\ x.status = db.devices[s].status
                   /\ x.scanner = db.devices[s].scanner /\ x.place = db.devices[s].place
                   /\ db' = [db EXCEPT !.devices = [db.devices EXCEPT ![s] = x]]
      <3>1. PICK x \in Device : x = [db.devices[s] EXCEPT !.ignored = ignored]
        BY <1>1 DEF Device
      <3>2. /\ x.seen = db.devices[s].seen /\ x.status = db.devices[s].status
            /\ x.scanner = db.devices[s].scanner /\ x.place = db.devices[s].place
        BY <1>1, <3>1 DEF Device
      <3>3. db' = [db EXCEPT !.devices = [db.devices EXCEPT ![s] = x]]
        BY <2>2, <3>1 DEF Ignore, Request
      <3> QED
        BY <3>2, <3>3
    <2> QED
      BY <2>1, <2>2
  <1>3. s \notin accidents.clouded => Gentle(db.devices[s], x, now)
    <2>1. s \notin accidents.clouded => Aged(db.devices[s], now)
      BY <1>1 DEF IInv, Records, Kept, Present
    <2> QED
      BY <1>1, <1>2, <2>1 DEF Gentle, Aged, Retired, Device
  <1>4. /\ accidents' = accidents /\ UNCHANGED <<now, batches, places, sweep>>
        /\ spent' = spent + 1 /\ spent < Budget
    BY DEF MarkKnown, Ignore, Request, Spend
  <1>5. spent' \in 0 .. Budget /\ spent <= spent'
    BY <1>4, TimesAssumption DEF IInv
  <1> QED
    BY <1>1, <1>2, <1>3, <1>4, <1>5, OneDevice

LEMMA EvidenceStep ==
  ASSUME IInv, NEW r \in db.rows, TrackingEvidence(r)
  PROVE  IInv'
  <1> DEFINE s == r.device
             old == db.devices[s]
             status == IF old.status \in Absent THEN "returned"
                       ELSE IF old.status \in {"newly_detected", "returned"} THEN "active"
                       ELSE old.status
  <1>1. /\ s \in DOMAIN db.devices /\ db \in Database /\ old \in Device
        /\ now \in 0 .. Horizon
    BY DeviceAt DEF IInv, Records, Consistent
  <1>2. status \in Statuses \ Absent
        /\ (status \in {"merged", "split_empty"} => old.status \in {"merged", "split_empty"})
    BY <1>1 DEF Device, Statuses, Absent
  <1>3. db' = [db EXCEPT !.devices[s].seen = now, !.devices[s].status = status]
    BY DEF TrackingEvidence, Request
  <1> HIDE DEF status
  <1>4. PICK x \in Device : x = [old EXCEPT !.seen = now, !.status = status]
    BY <1>1, <1>2 DEF Device
  <1>5. /\ x.seen = now /\ x.status = status
        /\ x.scanner = old.scanner /\ x.place = old.place
    BY <1>1, <1>4 DEF Device
  <1>6. db' = [db EXCEPT !.devices = [db.devices EXCEPT ![s] = x]]
    BY <1>1, <1>3, <1>4 DEF Database
  <1>7. Gentle(old, x, now)
    BY <1>2, <1>5 DEF Gentle, Aged, Retired, Absent
  <1>8. /\ accidents' = accidents /\ UNCHANGED <<now, batches, places, sweep>>
        /\ spent' \in 0 .. Budget /\ spent <= spent'
    BY TimesAssumption DEF TrackingEvidence, Request, Spend, IInv
  <1> QED
    BY <1>1, <1>6, <1>7, <1>8, OneDevice

\* A step that only forgets rows, or notes an enrichment.
LEMMA Forgets ==
  ASSUME IInv, now' = now, db' \in Database, db'.devices = db.devices,
         db'.identities = db.identities, db'.links = db.links, db'.rows \subseteq db.rows,
         accidents' = accidents
  PROVE  Advance(db, accidents, now, db', accidents', now')
  <1>1. now \in Nat /\ Records(db, accidents, now) /\ db \in Database
    BY DEF IInv, Records, Consistent
  <1>2. More(accidents, accidents)
    BY DEF More
  <1>3. ASSUME NEW s \in DOMAIN db.devices \ accidents.clouded
        PROVE  Gentle(db.devices[s], db.devices[s], now)
    <2>1. Aged(db.devices[s], now) /\ db.devices[s].seen \in Nat
      BY <1>1, <1>3, DeviceAt DEF Records, Kept, Present
    <2> QED
      BY <2>1 DEF Gentle
  <1>4. Mild(db, db', accidents, now)
    BY <1>3 DEF Mild
  <1>5. Consistent(db', now) /\ Kept(db', accidents, now) /\ Together(db', accidents, {})
    BY <1>1, <1>2, <1>4, MildKeeps DEF Records
  <1> QED
    BY <1>1, <1>2, <1>5 DEF Advance, Records

LEMMA EnrichStep ==
  ASSUME IInv, NEW r \in db.rows, Enrich(r)
  PROVE  IInv'
  <1>1. db \in Database /\ r \in Row /\ now \in 0 .. Horizon
    BY DEF IInv, Records, Consistent, Database
  <1>2. PICK record \in [identity : 1 .. Budget, device : 1 .. MaxDevices] :
          db' = [db EXCEPT !.enriched = @ \cup {record}]
    <2>1. [identity |-> r.identity, device |-> r.device]
            \in [identity : 1 .. Budget, device : 1 .. MaxDevices]
      BY <1>1 DEF Row
    <2> QED
      BY <2>1 DEF Enrich, Request
  <1>3. /\ db' \in Database /\ db'.devices = db.devices /\ db'.rows = db.rows
        /\ db'.identities = db.identities /\ db'.links = db.links
    BY <1>1, <1>2 DEF Database
  <1>4. /\ accidents' = accidents /\ UNCHANGED <<now, batches, places, sweep>>
        /\ spent' \in 0 .. Budget /\ spent <= spent'
    BY TimesAssumption DEF Enrich, Request, Spend, IInv
  <1>5. Advance(db, accidents, now, db', accidents', now')
    BY <1>3, <1>4, Forgets
  <1>6. now' \in 0 .. Horizon /\ now <= now' /\ sweep' \in SUBSET sweep
    BY <1>1, <1>4
  <1> QED
    BY <1>3, <1>4, <1>5, <1>6, RecordStep

LEMMA RetainStep ==
  ASSUME IInv, Retain
  PROVE  IInv'
  <1>1. db \in Database /\ now \in 0 .. Horizon
    BY DEF IInv, Records, Consistent
  <1>2. PICK rows \in SUBSET db.rows : db' = [db EXCEPT !.rows = rows]
    BY DEF Retain
  <1>3. /\ db' \in Database /\ db'.devices = db.devices /\ db'.rows = rows
        /\ db'.identities = db.identities /\ db'.links = db.links
    BY <1>1, <1>2 DEF Database
  <1>4. accidents' = accidents /\ UNCHANGED <<now, batches, places, sweep, spent>>
    BY DEF Retain
  <1>5. Advance(db, accidents, now, db', accidents', now')
    BY <1>3, <1>4, Forgets
  <1>6. now' \in 0 .. Horizon /\ now <= now' /\ sweep' \in SUBSET sweep
    BY <1>1, <1>4
  <1>7. spent' \in 0 .. Budget /\ spent <= spent'
    BY <1>4 DEF IInv
  <1> QED
    BY <1>3, <1>4, <1>5, <1>6, <1>7, RecordStep

LEMMA SameAccidents ==
  ASSUME IInv, accidents' = accidents
  PROVE  accidents' \in Accidents /\ More(accidents, accidents')
  BY DEF IInv, Records, More

LEMMA TickStep ==
  ASSUME IInv, Tick
  PROVE  IInv'
  <1>1. now \in 0 .. Horizon /\ now' \in 0 .. Horizon /\ now <= now'
    BY TimesAssumption DEF Tick, IInv
  <1>2. /\ accidents' = accidents /\ db' = db /\ UNCHANGED <<batches, places, sweep, spent>>
        /\ sweep' \in SUBSET sweep
    BY DEF Tick
  <1>3. Advance(db, accidents, now, db', accidents', now')
    BY <1>1, <1>2, SameAccidents, Still
  <1>4. spent' \in 0 .. Budget /\ spent <= spent'
    BY <1>2 DEF IInv
  <1> QED
    BY <1>1, <1>2, <1>3, <1>4, RecordStep

LEMMA PlaceStep ==
  ASSUME IInv, NEW scanner \in Mobile, MovePlace(scanner)
  PROVE  IInv'
  <1>1. now \in 0 .. Horizon /\ now' = now /\ now <= now'
    BY DEF MovePlace, IInv
  <1>2. /\ accidents' = accidents /\ db' = db /\ UNCHANGED <<batches, sweep>>
        /\ places' = [places EXCEPT ![scanner] = [scanner |-> scanner, at |-> now]]
        /\ spent' = spent + 1 /\ spent < Budget
    BY DEF MovePlace, Spend
  <1>3. Advance(db, accidents, now, db', accidents', now')
    BY <1>1, <1>2, SameAccidents, Still
  <1>4. /\ Records(db', accidents', now')
        /\ \A t \in Requests : Holds(batches[t], db', accidents', now')
        /\ Sweeps(sweep, db', now')
    BY <1>1, <1>3, StepParts
  <1>5. Located(places')
    <2>1. Located(places)
      BY DEF IInv
    <2>2. [scanner |-> scanner, at |-> now] \in [scanner : Scanners, at : 0 .. Horizon]
          \/ scanner \notin Scanners
      BY <1>1
    <2> QED
      BY <1>2, <2>1, <2>2 DEF Located, Places
  <1>6. Len(db'.identities) + Cardinality(Newcomers') <= spent' /\ spent' \in 0 .. Budget
    <2>1. Newcomers' = Newcomers
      BY <1>2 DEF Newcomers
    <2>2. IsFiniteSet(Newcomers)
      BY FS_Subset, RequestsAssumption DEF Newcomers
    <2>3. Cardinality(Newcomers) \in Nat
      BY <2>2, FS_CardinalityType
    <2>4. Len(db.identities) \in Nat
      BY DeviceAt DEF IInv, Records, Consistent
    <2> QED
      BY <1>2, <2>1, <2>3, <2>4, TimesAssumption DEF IInv
  <1>7. accidents'.refused \subseteq accidents'.doubled /\ DOMAIN batches' = Requests
    BY <1>2 DEF IInv
  <1> QED
    BY <1>1, <1>2, <1>4, <1>5, <1>6, <1>7 DEF IInv

\* What the sweep makes of a device that it changes: only the status, and only
\* to one that its age allows.
LEMMA SweptDevice ==
  ASSUME NEW d \in Database, NEW s \in DOMAIN d.devices, now \in Nat,
         NEW x, x = Swept(d, s), x # d.devices[s]
  PROVE  x \in Device /\ x.seen = d.devices[s].seen /\ Gentle(d.devices[s], x, now)
  <1> DEFINE device == d.devices[s]
  <1>1. device \in Device /\ device.seen \in Nat
    BY DeviceAt
  <1>2. PICK status \in Absent :
          /\ x = [device EXCEPT !.status = status]
          /\ now - device.seen >= MissingAfter
          /\ status = "offline" => now - device.seen >= OfflineAfter
    <2>1. PICK status \in {"identity_expired", "offline", "temporarily_missing", device.status} :
            /\ x = [device EXCEPT !.status = status]
            /\ status # device.status =>
                 /\ status \in {"identity_expired", "offline", "temporarily_missing"}
                 /\ now - device.seen >= IF status = "offline" THEN OfflineAfter ELSE MissingAfter
      <3>1. device = [device EXCEPT !.status = device.status]
        BY <1>1 DEF Device
      <3> QED
        BY <3>1 DEF Swept
    <2>2. status # device.status
      BY <1>1, <2>1 DEF Device
    <2> QED
      BY <1>1, <2>1, <2>2, TimesAssumption DEF Absent
  <1>3. x \in Device /\ x.status = status /\ x.seen = device.seen
        /\ x.scanner = device.scanner /\ x.place = device.place
    BY <1>1, <1>2 DEF Device, Statuses
  <1> QED
    BY <1>1, <1>2, <1>3 DEF Gentle, Aged, Retired, Absent

LEMMA BeginSweepStep ==
  ASSUME IInv, BeginSweep
  PROVE  IInv'
  <1>1. now \in 0 .. Horizon /\ now' = now /\ now <= now' /\ db \in Database
    BY DEF BeginSweep, IInv, Records, Consistent
  <1>2. /\ accidents' = accidents /\ db' = db /\ UNCHANGED <<batches, places>>
        /\ spent' = spent + 1 /\ spent < Budget
        /\ sweep' = {c \in {[device |-> s, old |-> db.devices[s], new |-> Swept(db, s)] :
                              s \in DOMAIN db.devices} : c.new # c.old}
    BY DEF BeginSweep, Spend
  <1>3. Advance(db, accidents, now, db', accidents', now')
    BY <1>1, <1>2, SameAccidents, Still
  <1>4. /\ Records(db', accidents', now')
        /\ \A t \in Requests : Holds(batches[t], db', accidents', now')
    BY <1>1, <1>3, StepParts
  <1>5. Sweeps(sweep', db, now)
    <2>1. ASSUME NEW c \in sweep'
          PROVE  /\ c \in Change /\ c.device \in DOMAIN db.devices
                 /\ c.old = db.devices[c.device] /\ c.new = Swept(db, c.device)
                 /\ c.old.seen = c.new.seen /\ Gentle(c.old, c.new, now)
      <3>1. PICK s \in DOMAIN db.devices :
              /\ c = [device |-> s, old |-> db.devices[s], new |-> Swept(db, s)]
              /\ Swept(db, s) # db.devices[s]
        BY <1>2, <2>1
      <3>2. /\ Swept(db, s) \in Device /\ Swept(db, s).seen = db.devices[s].seen
            /\ Gentle(db.devices[s], Swept(db, s), now)
        BY <1>1, <3>1, SweptDevice
      <3>3. s \in 1 .. MaxDevices /\ db.devices[s] \in Device
        <4>1. /\ DOMAIN db.devices = 1 .. Len(db.devices) /\ Len(db.devices) \in Nat
              /\ db.devices[s] \in Device
          BY <1>1, DeviceAt
        <4>2. Len(db.devices) <= MaxDevices
          BY DEF IInv, Records, Consistent
        <4> QED
          BY <4>1, <4>2, TimesAssumption
      <3> QED
        BY <3>1, <3>2, <3>3 DEF Change
    <2>2. ASSUME NEW c \in sweep', NEW k \in sweep', c.device = k.device
          PROVE  c = k
      BY <2>1, <2>2 DEF Change
    <2> QED
      BY <2>1, <2>2 DEF Sweeps
  <1>6. Len(db'.identities) + Cardinality(Newcomers') <= spent' /\ spent' \in 0 .. Budget
    <2>1. Newcomers' = Newcomers
      BY <1>2 DEF Newcomers
    <2>2. IsFiniteSet(Newcomers)
      BY FS_Subset, RequestsAssumption DEF Newcomers
    <2>3. Cardinality(Newcomers) \in Nat
      BY <2>2, FS_CardinalityType
    <2>4. Len(db.identities) \in Nat
      BY DeviceAt DEF IInv, Records, Consistent
    <2> QED
      BY <1>2, <2>1, <2>3, <2>4, TimesAssumption DEF IInv
  <1>7. /\ accidents'.refused \subseteq accidents'.doubled /\ DOMAIN batches' = Requests
        /\ Located(places')
    BY <1>2 DEF IInv
  <1> QED
    BY <1>1, <1>2, <1>4, <1>5, <1>6, <1>7 DEF IInv

\* The sweep writes over what it has read, and marks what changed meanwhile.
LEMMA CommitSweepStep ==
  ASSUME IInv, CommitSweep
  PROVE  IInv'
  <1>1. now \in 0 .. Horizon /\ db \in Database /\ Records(db, accidents, now)
        /\ Sweeps(sweep, db, now)
    BY DEF IInv, Records, Consistent
  <1>2. UNCHANGED <<now, places, batches, spent>> /\ sweep' = {}
    BY DEF CommitSweep
  <1> DEFINE clouded == {c.device : c \in {c \in sweep : db.devices[c.device] # c.old}}
             Written(s) == IF \E c \in sweep : c.device = s
                             THEN LET c == CHOOSE c \in sweep : c.device = s
                                  IN  WrittenRow(db.devices[s], c.old, c.new)
                             ELSE db.devices[s]
  <1>3. accidents' = [accidents EXCEPT !.clouded = @ \cup clouded]
    BY DEF CommitSweep
  <1>4. clouded \subseteq 1 .. MaxDevices
    BY <1>1 DEF Sweeps, Change
  <1>5. accidents' \in Accidents /\ More(accidents, accidents')
        /\ accidents'.refused = accidents.refused
        /\ clouded \subseteq accidents'.clouded /\ accidents.clouded \subseteq accidents'.clouded
    <2> HIDE DEF clouded
    <2> QED
      BY <1>1, <1>3, <1>4 DEF Records, Accidents, More, Astray
  <1>6. ASSUME NEW s \in DOMAIN db.devices
        PROVE  /\ Written(s) \in Device
               /\ s \notin accidents'.clouded => Gentle(db.devices[s], Written(s), now)
    <2>1. db.devices[s] \in Device /\ db.devices[s].seen \in Nat
      BY <1>1, DeviceAt
    <2>2. CASE \E c \in sweep : c.device = s
      <3>1. PICK c \in sweep : c.device = s /\ Written(s) = WrittenRow(db.devices[s], c.old, c.new)
        BY <2>2
      <3> HIDE DEF Written
      <3>2. c.old \in Device /\ c.new \in Device /\ Gentle(c.old, c.new, now)
        BY <1>1 DEF Sweeps, Change
      <3>3. Written(s) \in Device /\ (db.devices[s] = c.old => Written(s) = c.new)
        BY <2>1, <3>1, <3>2, WrittenDevice
      <3>4. s \notin accidents'.clouded => db.devices[s] = c.old
        BY <1>5, <3>1
      <3> QED
        BY <3>2, <3>3, <3>4
    <2>3. CASE ~\E c \in sweep : c.device = s
      <3>1. Written(s) = db.devices[s]
        BY <2>3
      <3>2. s \notin accidents.clouded => Aged(db.devices[s], now)
        BY <1>1 DEF Records, Kept, Present
      <3> QED
        BY <1>5, <2>1, <3>1, <3>2 DEF Gentle
    <2> QED
      BY <2>2, <2>3
  <1>7. PICK devices : devices = [s \in DOMAIN db.devices |-> Written(s)]
    OBVIOUS
  <1>8. db' = [db EXCEPT !.devices = devices]
    BY <1>1, <1>7 DEF CommitSweep, Database
  <1> HIDE DEF Written
  <1>9. devices \in Seq(Device) /\ Len(devices) = Len(db.devices)
        /\ \A s \in DOMAIN db.devices : devices[s] = Written(s)
    <2>1. DOMAIN db.devices = 1 .. Len(db.devices) /\ Len(db.devices) \in Nat
      BY <1>1, DeviceAt
    <2>2. devices \in [1 .. Len(db.devices) -> Device]
      BY <1>6, <1>7, <2>1
    <2> QED
      BY <1>7, <2>1, <2>2
  <1>10. /\ db' \in Database /\ db'.devices = devices /\ db'.rows = db.rows
         /\ db'.identities = db.identities /\ db'.links = db.links
    BY <1>1, <1>8, <1>9 DEF Database
  <1>11. Mild(db, db', accidents', now)
    BY <1>6, <1>9, <1>10 DEF Mild
  <1>12. Consistent(db', now) /\ Kept(db', accidents', now) /\ Together(db', accidents', {})
    BY <1>1, <1>5, <1>10, <1>11, MildKeeps DEF Records
  <1>13. DOMAIN db'.devices = DOMAIN db.devices
    BY <1>7, <1>10
  <1>14. Advance(db, accidents, now, db', accidents', now')
    BY <1>2, <1>5, <1>10, <1>12, <1>13 DEF Advance, Records
  <1>15. now' \in 0 .. Horizon /\ now <= now' /\ sweep' \in SUBSET sweep
         /\ spent' \in 0 .. Budget /\ spent <= spent'
    BY <1>1, <1>2 DEF IInv
  <1> QED
    BY <1>2, <1>5, <1>10, <1>14, <1>15, RecordStep

-----------------------------------------------------------------------------

LEMMA MergeStep ==
  ASSUME IInv, NEW source \in Devices, NEW target \in Devices, Merge(source, target)
  PROVE  IInv'
  <1>1. now \in Nat /\ now \in 0 .. Horizon /\ Records(db, accidents, now)
    BY DEF IInv
  <1>2. /\ source # target /\ db' = Merged(db, target, source)
        /\ accidents' = MergeAccidents(accidents, db, target, source)
        /\ UNCHANGED <<now, places, batches, sweep>>
        /\ spent' \in 0 .. Budget /\ spent <= spent'
    BY TimesAssumption DEF Merge, CanMerge, Request, Spend, IInv
  <1>3. Together(db, accidents, {target, source})
    BY <1>1 DEF Records, Together
  <1>4. target \in DOMAIN db.devices /\ source \in DOMAIN db.devices
    BY DEF Devices
  <1>5. /\ accidents' \in Accidents /\ More(accidents, accidents')
        /\ accidents'.refused = accidents.refused
        /\ Consistent(db', now) /\ Kept(db', accidents', now) /\ Together(db', accidents', {})
        /\ DOMAIN db'.devices = DOMAIN db.devices /\ db'.identities = db.identities
    BY <1>1, <1>2, <1>3, <1>4, MergeKeeps DEF Records
  <1>6. Advance(db, accidents, now, db', accidents', now')
    BY <1>2, <1>5 DEF Advance, Records
  <1>7. now' \in 0 .. Horizon /\ now <= now' /\ sweep' \in SUBSET sweep
    BY <1>1, <1>2
  <1> QED
    BY <1>2, <1>5, <1>6, <1>7, RecordStep

LEMMA SplitStep ==
  ASSUME IInv, NEW i \in DOMAIN db.identities, NEW source \in Devices,
         NEW target \in 1 .. Len(db.devices) + 1, Split(i, source, target)
  PROVE  IInv'
  <1>1. now \in Nat /\ now \in 0 .. Horizon /\ Records(db, accidents, now)
    BY DEF IInv
  <1>2. PICK p : p = Parted(db, i, source, target)
    OBVIOUS
  <1>3. PICK to \in Refreshed(p, target), from \in Refreshed(p, source) :
          SplitInto(p, accidents, i, source, target, to, from, db', accidents')
    BY <1>2 DEF Split, Request, SplitInto
  <1>4. /\ source # target /\ target <= MaxDevices
        /\ UNCHANGED <<now, places, batches, sweep>>
        /\ spent' \in 0 .. Budget /\ spent <= spent'
    BY TimesAssumption DEF Split, Request, Spend, IInv
  <1>5. source \in DOMAIN db.devices
    BY DEF Devices
  <1>6. /\ accidents' \in Accidents /\ More(accidents, accidents')
        /\ accidents'.refused = accidents.refused
        /\ Consistent(db', now) /\ Kept(db', accidents', now) /\ Together(db', accidents', {})
        /\ DOMAIN db.devices \subseteq DOMAIN db'.devices /\ db'.identities = db.identities
    <2>1. /\ accidents \in Accidents /\ Consistent(db, now)
          /\ Kept(db, accidents, now) /\ Together(db, accidents, {})
      BY <1>1 DEF Records
    <2> QED
      BY <1>1, <1>2, <1>3, <1>4, <1>5, <2>1, SplitKeeps
  <1>7. Advance(db, accidents, now, db', accidents', now')
    BY <1>4, <1>6 DEF Advance, Records
  <1>8. now' \in 0 .. Horizon /\ now <= now' /\ sweep' \in SUBSET sweep
    BY <1>1, <1>4
  <1> QED
    BY <1>4, <1>6, <1>7, <1>8, RecordStep

LEMMA AcceptStep ==
  ASSUME IInv, NEW k \in DOMAIN db.links, Accept(k)
  PROVE  IInv'
  <1>1. now \in Nat /\ now \in 0 .. Horizon /\ Records(db, accidents, now)
    BY DEF IInv
  <1>2. /\ UNCHANGED <<now, places, batches, sweep>>
        /\ spent' \in 0 .. Budget /\ spent <= spent'
    BY TimesAssumption DEF Accept, Request, Spend, IInv
  <1>3. /\ accidents' \in Accidents /\ More(accidents, accidents')
        /\ accidents'.refused = accidents.refused
        /\ Consistent(db', now) /\ Kept(db', accidents', now) /\ Together(db', accidents', {})
        /\ DOMAIN db'.devices = DOMAIN db.devices /\ db'.identities = db.identities
    BY <1>1, AcceptKeeps DEF Records
  <1>4. Advance(db, accidents, now, db', accidents', now')
    BY <1>2, <1>3 DEF Advance, Records
  <1>5. now' \in 0 .. Horizon /\ now <= now' /\ sweep' \in SUBSET sweep
    BY <1>1, <1>2
  <1> QED
    BY <1>2, <1>3, <1>4, <1>5, RecordStep

LEMMA RejectStep ==
  ASSUME IInv, NEW k \in DOMAIN db.links, Reject(k)
  PROVE  IInv'
  <1>1. now \in Nat /\ now \in 0 .. Horizon /\ Records(db, accidents, now) /\ db \in Database
    BY DEF IInv, Records, Consistent
  <1>2. db.links \in Seq(Link) /\ db.links[k] \in Link
    <2>1. db.links \in Seq(Link)
      BY <1>1 DEF Database
    <2> QED
      BY <2>1
  <1>3. PICK link \in Link : link = [db.links[k] EXCEPT !.status = "rejected"]
    BY <1>2 DEF Link
  <1>4. /\ link.predecessor = db.links[k].predecessor /\ link.successor = db.links[k].successor
        /\ link.from = db.links[k].from /\ link.to = db.links[k].to /\ link.status = "rejected"
    BY <1>2, <1>3 DEF Link
  <1>5. PICK links \in Seq(Link) : links = [db.links EXCEPT ![k] = link]
    <2>1. [db.links EXCEPT ![k] = link] \in Seq(Link)
      BY <1>2, <1>3
    <2> QED
      BY <2>1
  <1>6. /\ DOMAIN links = DOMAIN db.links /\ links[k] = link
        /\ \A n \in DOMAIN links : n # k => links[n] = db.links[n]
    BY <1>5
  <1>7. db' = [db EXCEPT !.links = links] /\ accidents' = accidents
    BY <1>1, <1>3, <1>5 DEF Reject, Request, Database
  <1>8. \A n \in DOMAIN links :
          /\ {links[n].predecessor, links[n].successor} \subseteq DOMAIN db.identities
          /\ {links[n].from, links[n].to} \subseteq DOMAIN db.devices
    <2>1. \A n \in DOMAIN db.links :
            /\ {db.links[n].predecessor, db.links[n].successor} \subseteq DOMAIN db.identities
            /\ {db.links[n].from, db.links[n].to} \subseteq DOMAIN db.devices
      BY <1>1 DEF Records, Consistent
    <2>2. \A n \in DOMAIN links :
            /\ links[n].predecessor = db.links[n].predecessor
            /\ links[n].successor = db.links[n].successor
            /\ links[n].from = db.links[n].from /\ links[n].to = db.links[n].to
      BY <1>4, <1>6
    <2> QED
      BY <1>6, <2>1, <2>2
  <1>9. /\ Consistent(db', now) /\ Kept(db', accidents, now)
        /\ db'.identities = db.identities /\ db'.devices = db.devices /\ db'.rows = db.rows
        /\ db'.links = links
    BY <1>1, <1>7, <1>8, LinksApart DEF Records
  <1>10. Together(db', accidents, {})
    <2>1. \A n \in DOMAIN links :
            links[n].status = "accepted" => n \in DOMAIN db.links /\ links[n] = db.links[n]
      BY <1>4, <1>6
    <2> QED
      BY <1>1, <1>9, <2>1 DEF Records, Together
  <1>11. /\ UNCHANGED <<now, places, batches, sweep>>
         /\ spent' \in 0 .. Budget /\ spent <= spent'
    BY TimesAssumption DEF Reject, Request, Spend, IInv
  <1>12. Advance(db, accidents, now, db', accidents', now')
    BY <1>1, <1>7, <1>9, <1>10, <1>11, SameAccidents DEF Advance, Records
  <1>13. now' \in 0 .. Horizon /\ now <= now' /\ sweep' \in SUBSET sweep
    BY <1>1, <1>11
  <1> QED
    BY <1>7, <1>9, <1>11, <1>12, <1>13, RecordStep

-----------------------------------------------------------------------------
(* The steps of a batch.                                                   *)

\* A batch before it has an identity.
Fresh(b, time) ==
  /\ b \in BatchType /\ b.identity = 0 /\ b.device = 0 /\ b.homes = {}
  /\ b.at <= time /\ b.then <= time
  /\ b.place # Nowhere => b.place.scanner = b.obs.scanner
  /\ ~Retired(b.row) /\ ~Displaced(b.row) /\ b.row.status \notin Absent

LEMMA FreshRead ==
  ASSUME NEW b, NEW d, NEW a, NEW time, Fresh(b, time)
  PROVE  Read(b, d, a, time) /\ Holds(b, d, a, time)
  BY DEF Fresh, Read, Holds

\* What a batch reads of an identity.
LEMMA ReadsRead ==
  ASSUME NEW d, NEW a, NEW time, Records(d, a, time), NEW b, Fresh(b, time),
         NEW i \in 1 .. Budget, NEW r \in Reads(d, b, i)
  PROVE  Read(r, d, a, time) /\ r.identity = i
  <1>1. d \in Database /\ Consistent(d, time)
    BY DEF Records, Consistent
  <1>2. b \in BatchType
    BY DEF Fresh
  <1>3. PICK s \in DevicesFor(d, i, b.obs.address) :
          r = [b EXCEPT !.identity = i, !.device = s, !.homes = Homes(d, i),
                        !.row = IF s = 0 THEN @ ELSE d.devices[s]]
    BY DEF Reads
  <1>4. /\ Homes(d, i) # {} => s \in Homes(d, i)
        /\ s # 0 => s \in DOMAIN d.devices
        /\ Homes(d, i) \subseteq DOMAIN d.devices
    <2>1. \A q \in d.rows : q.device \in DOMAIN d.devices
      BY <1>1 DEF Consistent
    <2>2. Homes(d, i) \subseteq DOMAIN d.devices
      BY <2>1 DEF Homes, Evidence
    <2>3. CASE Evidence(d, i) # {}
      <3>1. s \in Homes(d, i)
        BY <2>3 DEF DevicesFor, Homes, Latest
      <3> QED
        BY <2>2, <3>1
    <2>4. CASE Evidence(d, i) = {}
      <3>1. Homes(d, i) = {}
        BY <2>4 DEF Homes
      <3>2. s # 0 => s \in DOMAIN d.devices
        BY <2>4 DEF DevicesFor
      <3> QED
        BY <3>1, <3>2
    <2> QED
      BY <2>3, <2>4
  <1>5. /\ DOMAIN d.devices \subseteq 1 .. MaxDevices
        /\ \A u \in DOMAIN d.devices : d.devices[u] \in Device
    <2>1. /\ DOMAIN d.devices = 1 .. Len(d.devices) /\ Len(d.devices) \in Nat
          /\ \A u \in DOMAIN d.devices : d.devices[u] \in Device
      BY <1>1, DeviceAt
    <2>2. Len(d.devices) <= MaxDevices
      BY <1>1 DEF Consistent
    <2> QED
      BY <2>1, <2>2, TimesAssumption
  <1>6. PICK row \in Device : row = IF s = 0 THEN b.row ELSE d.devices[s]
    BY <1>2, <1>4, <1>5 DEF BatchType
  <1>7. r = [b EXCEPT !.identity = i, !.device = s, !.homes = Homes(d, i), !.row = row]
    BY <1>3, <1>6
  <1>8. s \in 0 .. MaxDevices
    BY <1>4, <1>5, TimesAssumption
  <1>9. /\ r \in BatchType /\ r.identity = i /\ r.device = s /\ r.homes = Homes(d, i)
        /\ r.row = row /\ r.obs = b.obs /\ r.at = b.at /\ r.then = b.then /\ r.place = b.place
    <2>1. i \in 0 .. Budget /\ Homes(d, i) \in SUBSET (1 .. MaxDevices)
      BY <1>4, <1>5
    <2> QED
      BY <1>2, <1>7, <1>8, <2>1 DEF BatchType
  <1>10. i \notin Astray(a) => \A x, y \in Homes(d, i) : x = y
    BY DEF Records, Kept, OneHome, Homes, Evidence
  <1>11. Homes(d, i) # {} /\ Retired(row) => s \in a.hidden \cup a.clouded
    <2> SUFFICES ASSUME Homes(d, i) # {}, Retired(row)
                 PROVE  s \in a.hidden \cup a.clouded
      OBVIOUS
    <2>1. PICK q \in d.rows : q.device = s
      BY <1>4 DEF Homes, Evidence
    <2>2. s # 0
      BY <1>4, <1>5
    <2> QED
      BY <1>6, <2>1, <2>2 DEF Records, Kept, Shown
  <1> QED
    BY <1>4, <1>6, <1>9, <1>10, <1>11 DEF Read, Fresh

LEMMA OpenStep ==
  ASSUME IInv, NEW t \in Requests, NEW obs \in Observations,
         NEW again \in Observations \cup {NoObservation}, OpenBatch(t, obs, again)
  PROVE  IInv'
  <1> DEFINE found == Identities(db, obs.address)
             row == NewDevice(obs.address, obs.scanner, places[obs.scanner], now - obs.delay)
             last == IF again = NoObservation THEN obs ELSE again
             b == [obs |-> obs, again |-> again, at |-> now - obs.delay, then |-> now - last.delay,
                   place |-> places[obs.scanner], identity |-> 0, device |-> 0, homes |-> {},
                   row |-> row]
  <1>1. /\ now \in 0 .. Horizon /\ now' = now /\ now <= now' /\ db' = db
        /\ UNCHANGED <<places, sweep>> /\ spent' = spent + 1 /\ spent < Budget
        /\ obs.delay <= now /\ last.delay <= now /\ batches[t] = NoBatch
    <2>1. last \in Observations
      OBVIOUS
    <2>2. obs.delay \in Nat /\ last.delay \in Nat
      BY <2>1, ObservationsAssumption
    <2>3. last.delay <= obs.delay /\ obs.delay <= now
      BY DEF OpenBatch
    <2>4. now \in 0 .. Horizon
      BY DEF IInv
    <2> HIDE DEF last
    <2> QED
      BY <2>2, <2>3, <2>4 DEF OpenBatch, Spend
  <1>2. \/ /\ Cardinality(found) > 1
           /\ accidents' = [accidents EXCEPT !.refused = @ \cup {obs.address}]
           /\ batches' = batches
        \/ /\ accidents' = accidents
           /\ \E read : /\ read = b \/ \E i \in found : read \in Reads(db, b, i)
                        /\ batches' = [batches EXCEPT ![t] = read]
    <2>1. CASE Cardinality(found) > 1
      BY <2>1 DEF OpenBatch
    <2>2. CASE ~(Cardinality(found) > 1)
      <3>1. PICK read \in IF found = {} THEN {b} ELSE UNION {Reads(db, b, i) : i \in found} :
              batches' = [batches EXCEPT ![t] = read]
        BY <2>2 DEF OpenBatch
      <3> HIDE DEF b, found
      <3>2. read = b \/ \E i \in found : read \in Reads(db, b, i)
        BY <3>1
      <3>3. accidents' = accidents
        BY <2>2 DEF OpenBatch, found
      <3> QED
        BY <3>1, <3>2, <3>3
    <2> QED
      BY <2>1, <2>2
  <1>3. db \in Database /\ Records(db, accidents, now)
    BY DEF IInv, Records, Consistent
  <1>4. Fresh(b, now)
    <2>1. obs.scanner \in Scanners /\ obs.address \in Addresses /\ obs.delay \in Nat
      BY ObservationsAssumption DEF Addresses
    <2>7. last.delay \in Nat /\ again \in Observations \cup {NoObservation}
      BY ObservationsAssumption
    <2>2. /\ now - obs.delay \in 0 .. Horizon /\ now - obs.delay <= now
          /\ now - last.delay \in 0 .. Horizon /\ now - last.delay <= now
      <3> HIDE DEF last
      <3> QED
        BY <1>1, <2>1, <2>7, TimesAssumption
    <2>3. /\ places[obs.scanner] \in Places
          /\ places[obs.scanner] # Nowhere => places[obs.scanner].scanner = obs.scanner
      BY <2>1 DEF IInv, Located
    <2>4. /\ row \in Device /\ row.status = "newly_detected"
          /\ row.scanner = obs.scanner /\ row.place = places[obs.scanner]
      BY <2>1, <2>2, <2>3 DEF NewDevice, Device, Statuses
    <2>5. ~Retired(row) /\ ~Displaced(row) /\ row.status \notin Absent
      BY <2>3, <2>4 DEF Retired, Displaced, Absent
    <2> HIDE DEF row
    <2>6. b \in BatchType
      BY <2>2, <2>3, <2>4, <2>7, TimesAssumption DEF BatchType
    <2> QED
      BY <2>2, <2>3, <2>5, <2>6 DEF Fresh
  <1> HIDE DEF b, row, last
  <1>5. /\ accidents' \in Accidents /\ More(accidents, accidents')
        /\ accidents'.doubled = accidents.doubled
        /\ accidents'.refused \subseteq accidents'.doubled
    <2>1. CASE accidents' = accidents
      BY <2>1, SameAccidents DEF IInv
    <2>2. CASE /\ Cardinality(found) > 1
               /\ accidents' = [accidents EXCEPT !.refused = @ \cup {obs.address}]
      <3>1. \E i, j \in found : i # j
        <4> SUFFICES ASSUME \A i, j \in found : i = j PROVE FALSE
          OBVIOUS
        <4>1. CASE found = {}
          BY <2>2, <4>1, FS_EmptySet
        <4>2. CASE found # {}
          <5>1. PICK i : found = {i}
            BY <4>2
          <5> HIDE DEF found
          <5>2. Cardinality(found) = 1
            BY <5>1, FS_Singleton
          <5> QED
            BY <2>2, <5>2
        <4> QED
          BY <4>1, <4>2
      <3>2. obs.address \in accidents.doubled
        BY <1>3, <3>1 DEF Records, Kept, Named, Identities
      <3>3. accidents \in Accidents /\ accidents.refused \subseteq accidents.doubled
        BY <1>3 DEF IInv, Records
      <3>4. accidents.doubled \subseteq Addresses
        BY <3>3 DEF Accidents
      <3> QED
        BY <2>2, <3>2, <3>3, <3>4 DEF Accidents, More, Astray
    <2> QED
      BY <1>2, <2>1, <2>2
  <1>6. Advance(db, accidents, now, db', accidents', now')
    BY <1>1, <1>5, Still
  <1>7. /\ Records(db', accidents', now')
        /\ \A u \in Requests : Holds(batches[u], db', accidents', now')
        /\ Sweeps(sweep, db', now')
    BY <1>1, <1>6, StepParts
  <1>8. /\ DOMAIN batches' = Requests
        /\ \A u \in Requests : Holds(batches'[u], db', accidents', now')
    <2>1. DOMAIN batches = Requests
      BY DEF IInv
    <2>2. CASE batches' = batches
      BY <1>7, <2>1, <2>2
    <2>3. ASSUME accidents' = accidents, NEW read,
                 read = b \/ \E i \in found : read \in Reads(db, b, i),
                 batches' = [batches EXCEPT ![t] = read]
          PROVE  /\ DOMAIN batches' = Requests
                 /\ \A u \in Requests : Holds(batches'[u], db', accidents', now')
      <3>1. Holds(read, db, accidents, now)
        <4>1. CASE read = b
          BY <1>4, <4>1, FreshRead
        <4>2. ASSUME NEW i \in found, read \in Reads(db, b, i)
              PROVE  Holds(read, db, accidents, now)
          <5>1. i \in DOMAIN db.identities
            BY DEF Identities
          <5>2. i \in 1 .. Budget /\ i # 0
            <6>1. DOMAIN db.identities = 1 .. Len(db.identities) /\ Len(db.identities) \in Nat
              BY <1>3, DeviceAt
            <6>2. Len(db.identities) <= Budget
              BY <1>3 DEF Records, Consistent
            <6> QED
              BY <5>1, <6>1, <6>2, TimesAssumption
          <5>3. Read(read, db, accidents, now) /\ read.identity = i
            BY <1>3, <1>4, <4>2, <5>2, ReadsRead
          <5> QED
            BY <5>1, <5>2, <5>3 DEF Holds
        <4> QED
          BY <2>3, <4>1, <4>2
      <3>2. Holds(read, db', accidents', now')
        BY <1>1, <2>3, <3>1
      <3> QED
        BY <1>7, <2>1, <2>3, <3>2
    <2> QED
      BY <1>2, <2>2, <2>3
  <1>9. Len(db'.identities) + Cardinality(Newcomers') <= spent' /\ spent' \in 0 .. Budget
    <2>1. Newcomers' \subseteq Newcomers \cup {t}
      BY <1>2, <1>8 DEF Newcomers, IInv
    <2>2. IsFiniteSet(Newcomers)
      BY FS_Subset, RequestsAssumption DEF Newcomers
    <2>3. IsFiniteSet(Newcomers \cup {t}) /\ Cardinality(Newcomers) \in Nat
          /\ Cardinality(Newcomers \cup {t}) <= Cardinality(Newcomers) + 1
          /\ Cardinality(Newcomers \cup {t}) \in Nat
      <3>1. /\ IsFiniteSet(Newcomers \cup {t})
            /\ Cardinality(Newcomers \cup {t}) =
                 IF t \in Newcomers THEN Cardinality(Newcomers) ELSE Cardinality(Newcomers) + 1
        BY <2>2, FS_AddElement
      <3>2. Cardinality(Newcomers) \in Nat /\ Cardinality(Newcomers \cup {t}) \in Nat
        BY <2>2, <3>1, FS_CardinalityType
      <3> QED
        BY <3>1, <3>2
    <2>4. Cardinality(Newcomers') <= Cardinality(Newcomers \cup {t})
          /\ Cardinality(Newcomers') \in Nat
      BY <2>1, <2>3, FS_Subset, FS_CardinalityType
    <2>5. Len(db.identities) \in Nat
      BY <1>3, DeviceAt
    <2>6. Len(db.identities) + Cardinality(Newcomers) <= spent /\ spent \in 0 .. Budget
      BY DEF IInv
    <2>7. Len(db'.identities) = Len(db.identities)
      BY <1>1
    <2>8. spent' = spent + 1 /\ spent' \in 0 .. Budget
      <3>1. spent' = spent + 1 /\ spent < Budget
        BY <1>1
      <3>2. spent \in Nat /\ Budget \in Nat
        BY <2>6, TimesAssumption
      <3> QED
        BY <3>1, <3>2
    <2>9. Cardinality(Newcomers') <= Cardinality(Newcomers) + 1
      BY <2>3, <2>4
    <2>10. Len(db.identities) + Cardinality(Newcomers') <= spent + 1
      BY <2>3, <2>4, <2>5, <2>6, <2>9
    <2> QED
      BY <2>7, <2>8, <2>10
  <1> QED
    BY <1>1, <1>5, <1>7, <1>8, <1>9 DEF IInv

\* The writes of a batch, and correlation after them.
LEMMA BatchAdvance ==
  ASSUME IInv, NEW b, Read(b, db, accidents, now),
         b.identity \in 1 .. Len(db.identities) + 1,
         Len(Stored(b).devices) <= MaxDevices,
         \/ db' = Stored(b) /\ accidents' = BatchAccidents(b)
         \/ \E l \in Matches(Stored(b), b.identity) :
              /\ db' = Correlated(Stored(b), l)
              /\ accidents' =
                   IF l.method # "token" \/ l.from = l.to THEN BatchAccidents(b)
                   ELSE IF CanMerge(Stored(b), l.from, l.to)
                     THEN MergeAccidents(BatchAccidents(b), Stored(b), l.from, l.to)
                   ELSE [BatchAccidents(b) EXCEPT !.parted = @ \cup {b.identity}]
  PROVE  /\ Advance(db, accidents, now, db', accidents', now)
         /\ accidents'.refused \subseteq accidents.refused \cup accidents'.doubled
         /\ b.identity \in DOMAIN db.identities => db'.identities = db.identities
         /\ b.identity \notin DOMAIN db.identities =>
              Len(db'.identities) = Len(db.identities) + 1
  <1>1. now \in Nat /\ Records(db, accidents, now) /\ db \in Database
    BY DEF IInv, Records, Consistent
  <1>2. PICK stored : stored = Stored(b)
    OBVIOUS
  <1>3. PICK marked : marked = BatchAccidents(b)
    OBVIOUS
  <1>4. /\ marked \in Accidents /\ More(accidents, marked)
        /\ marked.refused \subseteq accidents.refused \cup marked.doubled
        /\ Consistent(stored, now) /\ Kept(stored, marked, now) /\ Together(stored, marked, {})
        /\ DOMAIN db.devices \subseteq DOMAIN stored.devices
        /\ b.identity \in DOMAIN db.identities => stored.identities = db.identities
        /\ b.identity \notin DOMAIN db.identities =>
             stored.identities = Append(db.identities, b.obs.address)
    BY <1>1, <1>2, <1>3, BatchKeeps DEF Records
  <1>5. /\ DOMAIN db.identities \subseteq DOMAIN stored.identities
        /\ b.identity \in DOMAIN stored.identities
        /\ b.identity \notin DOMAIN db.identities =>
             Len(stored.identities) = Len(db.identities) + 1
    <2>1. /\ DOMAIN db.identities = 1 .. Len(db.identities) /\ Len(db.identities) \in Nat
          /\ db.identities \in Seq(Addresses)
      BY <1>1, DeviceAt
    <2> QED
      BY <1>4, <2>1
  <1>6. CASE db' = stored /\ accidents' = marked
    BY <1>4, <1>5, <1>6 DEF Advance, Records
  <1>7. ASSUME NEW l \in Matches(stored, b.identity),
               db' = Correlated(stored, l),
               accidents' =
                 IF l.method # "token" \/ l.from = l.to THEN marked
                 ELSE IF CanMerge(stored, l.from, l.to)
                   THEN MergeAccidents(marked, stored, l.from, l.to)
                 ELSE [marked EXCEPT !.parted = @ \cup {b.identity}]
        PROVE  /\ Advance(db, accidents, now, db', accidents', now)
               /\ accidents'.refused \subseteq accidents.refused \cup accidents'.doubled
               /\ db'.identities = stored.identities
    <2>1. /\ accidents' \in Accidents /\ More(marked, accidents')
          /\ accidents'.refused = marked.refused
          /\ Consistent(db', now) /\ Kept(db', accidents', now) /\ Together(db', accidents', {})
          /\ DOMAIN db'.devices = DOMAIN stored.devices
          /\ db'.identities = stored.identities
      <3>1. /\ Consistent(stored, now) /\ Kept(stored, marked, now)
            /\ Together(stored, marked, {}) /\ marked \in Accidents /\ now \in Nat
            /\ b.identity \in DOMAIN stored.identities
        BY <1>1, <1>4, <1>5
      <3>2. PICK e : e = Correlated(stored, l)
        OBVIOUS
      <3>3. PICK a : a = IF l.method # "token" \/ l.from = l.to THEN marked
                         ELSE IF CanMerge(stored, l.from, l.to)
                           THEN MergeAccidents(marked, stored, l.from, l.to)
                         ELSE [marked EXCEPT !.parted = @ \cup {b.identity}]
        OBVIOUS
      <3>4. /\ a \in Accidents /\ More(marked, a) /\ a.refused = marked.refused
            /\ Consistent(e, now) /\ Kept(e, a, now) /\ Together(e, a, {})
            /\ DOMAIN e.devices = DOMAIN stored.devices /\ e.identities = stored.identities
        BY <3>1, <3>2, <3>3, CorrelateKeeps, SMTT(30)
      <3>5. db' = e /\ accidents' = a
        BY <1>7, <3>2, <3>3
      <3> QED
        BY <3>4, <3>5
    <2>2. /\ More(accidents, accidents')
          /\ accidents'.refused \subseteq accidents.refused \cup accidents'.doubled
      BY <1>4, <2>1 DEF More
    <2> QED
      BY <1>4, <1>5, <2>1, <2>2 DEF Advance, Records
  <1>8. \/ db' = stored /\ accidents' = marked
        \/ \E l \in Matches(stored, b.identity) :
             /\ db' = Correlated(stored, l)
             /\ accidents' =
                  IF l.method # "token" \/ l.from = l.to THEN marked
                  ELSE IF CanMerge(stored, l.from, l.to)
                    THEN MergeAccidents(marked, stored, l.from, l.to)
                  ELSE [marked EXCEPT !.parted = @ \cup {b.identity}]
    BY <1>2, <1>3
  <1> QED
    BY <1>4, <1>5, <1>6, <1>7, <1>8

LEMMA CommitStep ==
  ASSUME IInv, NEW t \in Requests, CommitBatch(t)
  PROVE  IInv'
  <1> DEFINE read == batches[t]
  <1>1. /\ now \in 0 .. Horizon /\ now \in Nat /\ db \in Database
        /\ Records(db, accidents, now) /\ DOMAIN batches = Requests
        /\ Holds(read, db, accidents, now)
    BY DEF IInv, Records, Consistent
  <1>2. /\ read # NoBatch /\ batches' = [batches EXCEPT ![t] = NoBatch]
        /\ UNCHANGED <<now, places, sweep, spent>>
    BY DEF CommitBatch
  <1>3. /\ IsFiniteSet(Newcomers) /\ Cardinality(Newcomers) \in Nat
        /\ IsFiniteSet(Newcomers') /\ Cardinality(Newcomers') \in Nat
        /\ Cardinality(Newcomers') <= Cardinality(Newcomers)
        /\ read.identity = 0 => Cardinality(Newcomers') = Cardinality(Newcomers) - 1
    <2>1. IsFiniteSet(Newcomers)
      BY FS_Subset, RequestsAssumption DEF Newcomers
    <2>2. Newcomers' = Newcomers \ {t}
      BY <1>1, <1>2 DEF Newcomers
    <2>3. /\ IsFiniteSet(Newcomers \ {t})
          /\ Cardinality(Newcomers \ {t}) =
               IF t \in Newcomers THEN Cardinality(Newcomers) - 1 ELSE Cardinality(Newcomers)
      BY <2>1, FS_RemoveElement
    <2>4. Cardinality(Newcomers) \in Nat /\ Cardinality(Newcomers \ {t}) \in Nat
      BY <2>1, <2>3, FS_CardinalityType
    <2>5. read.identity = 0 => t \in Newcomers
      BY <1>2 DEF Newcomers
    <2> QED
      BY <2>1, <2>2, <2>3, <2>4, <2>5
  <1>4. /\ Len(db.identities) \in Nat /\ DOMAIN db.identities = 1 .. Len(db.identities)
        /\ Len(db.identities) + Cardinality(Newcomers) <= spent /\ spent \in 0 .. Budget
    BY <1>1, DeviceAt DEF IInv
  <1>5. /\ Advance(db, accidents, now, db', accidents', now)
        /\ accidents'.refused \subseteq accidents.refused \cup accidents'.doubled
        /\ \/ db'.identities = db.identities
           \/ read.identity = 0 /\ Len(db'.identities) = Len(db.identities) + 1
    <2>1. CASE \E r \in db.rows : r.obs = read.obs \/ (read.identity # 0 /\ r.obs = read.again)
      <3>1. db' = db /\ accidents' = accidents
        BY <2>1 DEF CommitBatch
      <3>2. Advance(db, accidents, now, db', accidents', now)
        BY <1>1, <1>2, <3>1, SameAccidents, Still
      <3> QED
        BY <3>1, <3>2
    <2>2. CASE ~\E r \in db.rows : r.obs = read.obs \/ (read.identity # 0 /\ r.obs = read.again)
      <3>1. PICK b \in IF read.identity # 0 THEN {read}
                       ELSE Reads(db, read, Len(db.identities) + 1) :
              /\ Len(Stored(b).devices) <= MaxDevices
              /\ \/ db' = Stored(b) /\ accidents' = BatchAccidents(b)
                 \/ \E l \in Matches(Stored(b), b.identity) :
                      /\ db' = Correlated(Stored(b), l)
                      /\ accidents' =
                           IF l.method # "token" \/ l.from = l.to THEN BatchAccidents(b)
                           ELSE IF CanMerge(Stored(b), l.from, l.to)
                             THEN MergeAccidents(BatchAccidents(b), Stored(b), l.from, l.to)
                           ELSE [BatchAccidents(b) EXCEPT !.parted = @ \cup {b.identity}]
        BY <2>2 DEF CommitBatch
      <3>2. /\ Read(b, db, accidents, now)
            /\ b.identity \in 1 .. Len(db.identities) + 1
            /\ b.identity \notin DOMAIN db.identities => read.identity = 0
        <4>1. CASE read.identity # 0
          <5>1. b = read
            BY <3>1, <4>1
          <5>2. Read(read, db, accidents, now) /\ read.identity \in DOMAIN db.identities
            BY <1>1, <1>2, <4>1 DEF Holds
          <5> QED
            BY <1>4, <5>1, <5>2
        <4>2. CASE read.identity = 0
          <5>1. Fresh(read, now)
            <6>1. Read(read, db, accidents, now) /\ read.device = 0 /\ read.homes = {}
              BY <1>1, <1>2, <4>2 DEF Holds
            <6> QED
              BY <4>2, <6>1 DEF Read, Fresh
          <5>2. Len(db.identities) + 1 \in 1 .. Budget
            BY <1>3, <1>4, <4>2, TimesAssumption, SMTT(30)
          <5>3. b \in Reads(db, read, Len(db.identities) + 1)
            BY <3>1, <4>2
          <5>4. Read(b, db, accidents, now) /\ b.identity = Len(db.identities) + 1
            BY <1>1, <5>1, <5>2, <5>3, ReadsRead
          <5> QED
            BY <1>4, <4>2, <5>4
        <4> QED
          BY <4>1, <4>2
      <3>3. /\ Advance(db, accidents, now, db', accidents', now)
            /\ accidents'.refused \subseteq accidents.refused \cup accidents'.doubled
            /\ b.identity \in DOMAIN db.identities => db'.identities = db.identities
            /\ b.identity \notin DOMAIN db.identities =>
                 Len(db'.identities) = Len(db.identities) + 1
        BY <3>1, <3>2, BatchAdvance
      <3> QED
        BY <3>2, <3>3
    <2> QED
      BY <2>1, <2>2
  <1>6. /\ Records(db', accidents', now')
        /\ \A u \in Requests : Holds(batches[u], db', accidents', now')
        /\ Sweeps(sweep, db', now')
    <2>1. now' \in 0 .. Horizon /\ now <= now' /\ Advance(db, accidents, now, db', accidents', now')
      BY <1>1, <1>2, <1>5
    <2> QED
      BY <2>1, StepParts
  <1>7. DOMAIN batches' = Requests
        /\ \A u \in Requests : Holds(batches'[u], db', accidents', now')
    <2>1. Holds(NoBatch, db', accidents', now')
      BY DEF Holds
    <2> QED
      BY <1>1, <1>2, <1>6, <2>1
  <1>8. Len(db'.identities) + Cardinality(Newcomers') <= spent'
    BY <1>2, <1>3, <1>4, <1>5
  <1>9. accidents'.refused \subseteq accidents'.doubled
    BY <1>5 DEF IInv, Advance, More
  <1>10. /\ now' \in 0 .. Horizon /\ spent' \in 0 .. Budget
         /\ Located(places') /\ Sweeps(sweep', db', now')
    BY <1>1, <1>2, <1>4, <1>6 DEF IInv
  <1> QED
    BY <1>6, <1>7, <1>8, <1>9, <1>10 DEF IInv

-----------------------------------------------------------------------------
(* The theorems.                                                           *)

LEMMA Start == Init => IInv
  <1> SUFFICES ASSUME Init PROVE IInv
    OBVIOUS
  <1>1. /\ db.identities = <<>> /\ db.devices = <<>> /\ db.rows = {} /\ db.links = <<>>
        /\ db.enriched = {} /\ db \in Database
    BY DEF Init, Database
  <1>2. Len(db.identities) = 0 /\ Len(db.devices) = 0
        /\ DOMAIN db.identities = {} /\ DOMAIN db.devices = {} /\ DOMAIN db.links = {}
    BY <1>1
  <1>3. Consistent(db, now)
    BY <1>1, <1>2, TimesAssumption DEF Consistent
  <1>4. Kept(db, accidents, now) /\ Together(db, accidents, {})
    BY <1>1, <1>2 DEF Kept, Named, OneHome, Shown, Present, InPlace, Together
  <1>5. accidents \in Accidents /\ accidents.refused \subseteq accidents.doubled
    BY DEF Init, Accidents
  <1>6. /\ DOMAIN batches = Requests
        /\ \A t \in Requests : Holds(batches[t], db, accidents, now)
    BY DEF Init, Holds
  <1>7. Sweeps(sweep, db, now)
    BY DEF Init, Sweeps
  <1>8. Located(places)
    BY TimesAssumption DEF Init, Located, Places
  <1>9. Newcomers = {}
    BY DEF Init, Newcomers
  <1>10. Len(db.identities) + Cardinality(Newcomers) <= spent
    BY <1>2, <1>9, FS_EmptySet DEF Init
  <1>11. now \in 0 .. Horizon /\ spent \in 0 .. Budget
    BY TimesAssumption DEF Init
  <1> QED
    BY <1>3, <1>4, <1>5, <1>6, <1>7, <1>8, <1>10, <1>11 DEF IInv, Records

LEMMA StepInv == IInv /\ [Next]_vars => IInv'
  <1> SUFFICES ASSUME IInv, [Next]_vars PROVE IInv'
    OBVIOUS
  <1>1. ASSUME NEW t \in Requests, Batch(t) PROVE IInv'
    BY <1>1, OpenStep, CommitStep DEF Batch
  <1>2. CASE BeginSweep
    BY <1>2, BeginSweepStep
  <1>3. CASE CommitSweep
    BY <1>3, CommitSweepStep
  <1>4. CASE Operator
    <2>1. ASSUME NEW s \in Devices, MarkKnown(s) \/ Ignore(s, TRUE) \/ Ignore(s, FALSE)
          PROVE  IInv'
      BY <2>1, KnownStep
    <2> QED
      BY <1>4, <2>1, MergeStep, SplitStep, AcceptStep, RejectStep DEF Operator
  <1>5. ASSUME NEW scanner \in Mobile, MovePlace(scanner) PROVE IInv'
    BY <1>5, PlaceStep
  <1>6. ASSUME NEW r \in db.rows, Enrich(r) \/ TrackingEvidence(r) PROVE IInv'
    BY <1>6, EnrichStep, EvidenceStep
  <1>7. CASE Retain
    BY <1>7, RetainStep
  <1>8. CASE Tick
    BY <1>8, TickStep
  <1>9. CASE UNCHANGED vars
    <2>1. Newcomers' = Newcomers
      BY <1>9 DEF vars, Newcomers
    <2> QED
      BY <1>9, <2>1 DEF vars, IInv
  <1> QED
    BY <1>1, <1>2, <1>3, <1>4, <1>5, <1>6, <1>7, <1>8, <1>9 DEF Next

LEMMA Invariance == Spec => []IInv
  BY Start, StepInv, PTL DEF Spec

LEMMA AtMostOne ==
  ASSUME NEW S, \A x, y \in S : x = y
  PROVE  Cardinality(S) <= 1
  <1>1. CASE S = {}
    BY <1>1, FS_EmptySet
  <1>2. CASE S # {}
    <2>1. PICK x : S = {x}
      BY <1>2
    <2> QED
      BY <2>1, FS_Singleton
  <1> QED
    BY <1>1, <1>2

\* Whatever overlaps, the rows refer to rows that exist, and every column keeps a
\* value that the code gives it (process_observation, device_records.py).
THEOREM TypeCorrect == Spec => []TypeOK
  <1>1. IInv => TypeOK
    <2> SUFFICES ASSUME IInv PROVE TypeOK
      OBVIOUS
    <2>1. db \in Database /\ accidents \in Accidents
      BY DEF IInv, Records, Consistent
    <2>2. \A t \in Requests : batches[t] = NoBatch \/ batches[t] \in BatchType
      BY DEF IInv, Holds, Read
    <2>3. sweep \subseteq Change
      BY DEF IInv, Sweeps
    <2>4. places \in [Scanners -> Places] /\ now \in 0 .. Horizon /\ spent \in 0 .. Budget
      BY DEF IInv, Located
    <2> QED
      BY <2>1, <2>2, <2>3, <2>4 DEF TypeOK, Accidents, BatchType, Change
  <1> QED
    BY <1>1, Invariance, PTL

\* merge_logical_devices and split_logical_identity: a device with observations
\* is merged or emptied only by the accidents hidden and clouded.
THEOREM EvidenceStaysShown == Spec => []EvidenceShown
  <1>1. IInv => EvidenceShown
    BY DEF IInv, Records, Kept, Shown, EvidenceShown
  <1> QED
    BY <1>1, Invariance, PTL

\* _logical_for_identity takes the device of the latest row for the device of
\* all rows of an identity, and it is, but for the accidents: rows moved while a
\* batch had the device in hand (raced), and two observations of a random address
\* without rows in one batch, which make two devices (twinned).
THEOREM LatestRowNamesAll == Spec => []LatestRowIsCanonical
  <1>1. ASSUME IInv, NEW i \in DOMAIN db.identities \ (accidents.raced \cup accidents.twinned)
        PROVE  Cardinality(Homes(db, i)) <= 1
    <2>1. \A x, y \in Homes(db, i) : x = y
      BY <1>1 DEF IInv, Records, Kept, OneHome, Homes, Evidence, Astray
    <2> QED
      BY <2>1, AtMostOne
  <1>2. IInv => LatestRowIsCanonical
    BY <1>1 DEF LatestRowIsCanonical
  <1> QED
    BY <1>2, Invariance, PTL

\* process_observation, refresh_presence_states, merges, splits and tracking
\* samples in any order: a device was not seen later than it says, and is not
\* said to be absent too early, but for the accident clouded.
THEOREM PresenceStaysTrue == Spec => []PresenceTrue
  <1>1. IInv => PresenceTrue
    BY DEF IInv, Records, Kept, Present, Aged, PresenceTrue, Devices, RowsOf
  <1> QED
    BY <1>1, Invariance, PTL

\* process_observation and merge_logical_devices: the coordinates of a device
\* are those of its scanner, but for the accidents clouded and misplaced.
THEOREM AnchorStaysWithScanner == Spec => []AnchorOfScanner
  <1>1. IInv => AnchorOfScanner
    BY DEF IInv, Records, Kept, InPlace, AnchorOfScanner, Devices
  <1> QED
    BY <1>1, Invariance, PTL

\* _merge_accepted_identity_correlation: what was accepted to be one device is
\* on one device until it is parted, but for the identities that had two devices
\* (raced, twinned), since the merge moves the rows of one of them.
THEOREM AcceptedStayTogether == Spec => []AcceptedTogether
  <1>1. ASSUME IInv, NEW k \in DOMAIN db.links, db.links[k].status = "accepted",
               {db.links[k].predecessor, db.links[k].successor}
                 \cap (accidents.parted \cup accidents.raced \cup accidents.twinned) = {}
        PROVE  Cardinality(Homes(db, db.links[k].predecessor)
                             \cup Homes(db, db.links[k].successor)) <= 1
    <2>1. \A q, r \in db.rows : q.identity = r.identity
              /\ q.identity \in {db.links[k].predecessor, db.links[k].successor}
            => q.device = r.device
      BY <1>1 DEF IInv, Records, Kept, OneHome, Astray
    <2>2. \A q, r \in db.rows : q.identity = db.links[k].predecessor
              /\ r.identity = db.links[k].successor => q.device = r.device
      BY <1>1 DEF IInv, Records, Together, Astray
    <2>3. \A x, y \in Homes(db, db.links[k].predecessor)
                        \cup Homes(db, db.links[k].successor) : x = y
      BY <2>1, <2>2 DEF Homes, Evidence
    <2> QED
      BY <2>3, AtMostOne
  <1>2. IInv => AcceptedTogether
    BY <1>1 DEF AcceptedTogether
  <1> QED
    BY <1>2, Invariance, PTL

\* find_or_create_observed_identity: the observations of an address are refused
\* only when overlapping batches made two identities of it.
THEOREM RefusedAfterRace == Spec => []RefusedOnlyAfterRace
  <1>1. IInv => RefusedOnlyAfterRace
    BY DEF IInv, RefusedOnlyAfterRace
  <1> QED
    BY <1>1, Invariance, PTL
=============================================================================

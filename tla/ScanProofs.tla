----------------------------- MODULE ScanProofs -----------------------------
(***************************************************************************)
(* Theorems about ConnectorScan for every number of paths, documents,      *)
(* scanners, edits, scans and failures.                                    *)
(***************************************************************************)
EXTENDS ConnectorScan, FiniteSetTheorems, WellFoundedInduction, TLAPS

-----------------------------------------------------------------------------
(* The inductive invariant                                                 *)

Running(s) == ~At(s, "no")
Visiting(s) == scan[s].step \in {"visit", "send"}

\* A scan that sends has a file, a document and a content to send, and what it has still to
\* visit has no entry in its next state.  A path keeps its document from state to state.
ScansFit ==
    \A s \in Scanners :
        /\ At(s, "send") =>
              /\ scan[s].todo # {} /\ scan[s].id \in Ids /\ scan[s].content \in Contents
              /\ Known(s) # NoEntry => Known(s).id = scan[s].id
        /\ \A p \in scan[s].todo : scan[s].next[p] = NoEntry
        /\ \A p \in Paths : scan[s].old[p] # NoEntry /\ scan[s].next[p] # NoEntry =>
              scan[s].next[p].id = scan[s].old[p].id
        /\ s \notin scan[s].after

\* What is not deleted can be missed once more; no two documents have the same path.
DocsFit ==
    /\ \A d \in Ids : ~docs[d].deleted => docs[d].missing < Confirmations
    /\ \A d, e \in Ids : Exists(d) /\ Exists(e) /\ docs[d].path = docs[e].path => d = e

\* No entry that a scan read or made, or that was saved, is ahead of the server.
Accepted(e) == e # NoEntry => e.content \in uploaded[e.id]
EntriesAccepted ==
    /\ \A p \in Paths : Accepted(saved[p])
    /\ \A s \in Scanners, p \in Paths : Accepted(scan[s].old[p]) /\ Accepted(scan[s].next[p])

ScanInv == STypeOK /\ ScansFit /\ DocsFit /\ EntriesAccepted

\* A file that was never touched is still where it was once met.
Met(p) ==
    \/ saved[p] # NoEntry
    \/ \E d \in Ids : docs[d].path = p
    \/ \E s \in Scanners : p \in scan[s].todo \/ scan[s].old[p] # NoEntry \/ scan[s].next[p] # NoEntry
Untouched == \A p \in Paths \ touched : Met(p) => disk[p] # None

\* The scans that would count d as missing although they found a file at its path: a scan
\* that began earlier has reported it since.
Late(d) ==
    {s \in Scanners : /\ Visiting(s) /\ scan[s].complete
                      /\ docs[d].path \notin scan[s].todo /\ d \in scan[s].behind}

\* They count once each, and the scan that reported d last is none of them.
LateScansFit ==
    \A d \in Ids :
        Exists(d) /\ docs[d].path \notin touched /\ ~docs[d].deleted =>
            docs[d].missing + Cardinality(Late(d)) < Cardinality(Scanners)

\* The other parts are about scans that run alone; such a scan has read the saved state.
OneScan ==
    ~overlapped =>
        /\ \A s, t \in Scanners : Running(s) /\ Running(t) => s = t
        /\ \A s \in Scanners : Running(s) => scan[s].old = saved

\* It has met just the documents of its next state, and the one that it is sending; none of
\* them is counted as missing.
MetFit ==
    ~overlapped =>
        \A s \in Scanners : Visiting(s) =>
            /\ \A d \in Ids : Exists(d) /\ d \notin scan[s].behind => docs[d].missing = 0
            /\ scan[s].complete =>
                  /\ \A d \in Ids : Exists(d) /\ d \notin scan[s].behind =>
                        \/ \E p \in Paths : scan[s].next[p].id = d
                        \/ At(s, "send") /\ scan[s].id = d
                  /\ \A p \in Paths : scan[s].next[p] # NoEntry =>
                        Exists(scan[s].next[p].id) /\ scan[s].next[p].id \notin scan[s].behind

\* Once it has confirmed the deletions, the rest are its next state's documents.
SavingFit ==
    ~overlapped =>
        \A s \in Scanners : At(s, "save") /\ scan[s].complete =>
            /\ \A d \in Ids : Exists(d) /\ ~docs[d].deleted =>
                  (docs[d].missing = 0 <=> \E p \in Paths : scan[s].next[p].id = d)
            /\ \A p \in Paths : scan[s].next[p] # NoEntry => Exists(scan[s].next[p].id)

\* It has an entry for every file that was known before and never touched, and the documents
\* of such files are there.
Kept(d) == Exists(d) /\ ~docs[d].deleted /\ docs[d].missing = 0
KeptFit ==
    /\ \A s \in Scanners : Visiting(s) /\ scan[s].complete =>
          \A p \in Paths \ (touched \cup scan[s].todo) :
              scan[s].old[p] # NoEntry => scan[s].next[p] # NoEntry
    /\ ~overlapped =>
          /\ \A p \in Paths \ touched :
                /\ saved[p] # NoEntry => Kept(saved[p].id)
                /\ \A s \in Scanners : Running(s) /\ scan[s].next[p] # NoEntry =>
                      Kept(scan[s].next[p].id)
          /\ \A d \in Ids : docs[d].deleted => docs[d].path \in touched

AloneFit == OneScan /\ MetFit /\ SavingFit
KeptInv == ScanInv /\ Untouched /\ LateScansFit /\ AloneFit /\ KeptFit

-----------------------------------------------------------------------------
(* A scan's step                                                           *)

LEMMA LeastMember ==
    ASSUME NEW S \in SUBSET Nat, S # {}
    PROVE  \E p \in S : \A q \in S : p <= q
<1>1. IsWellFoundedOn({ss \in Nat \X Nat : ss[1] < ss[2]}, Nat)
  BY NatLessThanWellFounded DEF OpToRel
<1>2. PICK x \in S : \A y \in S : ~(<<y, x>> \in {ss \in Nat \X Nat : ss[1] < ss[2]})
  BY <1>1, WFMin
<1>3. ASSUME NEW y \in S PROVE x <= y
  <2>1. <<y, x>> \in Nat \X Nat /\ ~(y < x)
    BY <1>2
  <2> QED
    BY <2>1
<1> QED
  BY <1>3

\* The walk comes to the files in their order.
LEMMA HereIsToDo ==
    ASSUME STypeOK, NEW s \in Scanners, scan[s].todo # {}
    PROVE  Here(s) \in scan[s].todo /\ Here(s) \in Paths
<1>1. scan[s].todo \subseteq Paths /\ Paths \subseteq Nat
  BY DEF STypeOK, ScanType, Paths
<1>2. \E p \in scan[s].todo : \A q \in scan[s].todo : p <= q
  BY <1>1, LeastMember
<1> QED
  BY <1>1, <1>2 DEF Here

LEMMA RecordFacts ==
    /\ NoEntry \in Entries /\ NoScan \in ScanType /\ NoState \in [Paths -> Entries]
    /\ NoEntry.id = 0 /\ NoEntry.content = None /\ NoDoc.path = 0
    /\ NoScan.step = "no" /\ NoScan.todo = {} /\ NoScan.next = NoState /\ NoScan.old = NoState
    /\ NoScan.behind = {} /\ NoScan.after = {} /\ ~NoScan.complete
    /\ \A e \in Entries : e # NoEntry => e.id \in Ids /\ e.content \in Contents /\ e.content # None
    /\ \A x \in DocType : x # NoDoc /\ x.path # 0
    /\ \A d \in Ids : d # 0
<1> USE ScanAssumption DEF Paths, Ids
<1>1. NoEntry \in Entries /\ NoState \in [Paths -> Entries] /\ NoEntry.id = 0 /\ NoEntry.content = None
  BY DEF NoEntry, Entries, NoState
<1>2. \A e \in Entries : e # NoEntry => e.id \in Ids /\ e.content \in Contents /\ e.content # None
  BY DEF Entries
<1>3. NoDoc.path = 0 /\ \A x \in DocType : x # NoDoc /\ x.path # 0
  BY DEF NoDoc, DocType
<1>4. /\ NoScan.step = "no" /\ NoScan.todo = {} /\ NoScan.next = NoState /\ NoScan.old = NoState
      /\ NoScan.behind = {} /\ NoScan.after = {} /\ ~NoScan.complete
  BY DEF NoScan
<1>5. NoScan \in ScanType
  <2>1. MaxEdits \in Nat
    OBVIOUS
  <2>2. 0 \in 0..MaxEdits
    BY <2>1
  <2> QED
    BY <1>1, <2>2 DEF NoScan, ScanType
<1> QED
  BY <1>1, <1>2, <1>3, <1>4, <1>5

\* What an entry for the file at hand makes of a scan.
LEMMA EnteredFacts ==
    ASSUME NEW s, Here(s) \in Paths, NEW e \in Entries, NEW r \in ScanType
    PROVE  /\ Entered(e, s, r) \in ScanType
           /\ Entered(e, s, r).next = [r.next EXCEPT ![Here(s)] = e]
           /\ Entered(e, s, r).todo = r.todo \ {Here(s)}
           /\ Entered(e, s, r).step = "visit"
           /\ Entered(e, s, r).old = r.old
           /\ Entered(e, s, r).complete = r.complete
           /\ Entered(e, s, r).behind = r.behind
           /\ Entered(e, s, r).after = r.after
<1>1. Entered(e, s, r) = [r EXCEPT !.next = [r.next EXCEPT ![Here(s)] = e], !.todo = r.todo \ {Here(s)},
                                   !.step = "visit", !.id = 0, !.content = None]
  BY DEF Entered, ScanType
<1>2. [r.next EXCEPT ![Here(s)] = e] \in [Paths -> Entries]
  BY DEF ScanType
<1> DEFINE n == [r.next EXCEPT ![Here(s)] = e]
<1> HIDE DEF n
<1>3. ASSUME n \in [Paths -> Entries]
      PROVE  LET x == [r EXCEPT !.next = n, !.todo = r.todo \ {Here(s)}, !.step = "visit", !.id = 0,
                                !.content = None]
             IN  /\ x \in ScanType /\ x.next = n /\ x.todo = r.todo \ {Here(s)} /\ x.step = "visit"
                 /\ x.old = r.old /\ x.complete = r.complete /\ x.behind = r.behind
                 /\ x.after = r.after
  BY <1>3 DEF ScanType
<1> QED
  BY <1>1, <1>2, <1>3 DEF n

LEMMA FailedFacts ==
    ASSUME NEW r \in ScanType
    PROVE  /\ Failed(r) \in ScanType /\ ~Failed(r).complete
           /\ Failed(r).next = r.next /\ Failed(r).todo = r.todo /\ Failed(r).step = r.step
           /\ Failed(r).old = r.old /\ Failed(r).behind = r.behind /\ Failed(r).after = r.after
           /\ Failed(r).id = r.id /\ Failed(r).content = r.content
BY DEF Failed, ScanType

LEMMA SendingFacts ==
    ASSUME NEW s, NEW d \in Ids, disk[Here(s)] \in Contents, NEW r \in ScanType
    PROVE  /\ Sending(d, s, r) \in ScanType
           /\ Sending(d, s, r).next = r.next /\ Sending(d, s, r).todo = r.todo
           /\ Sending(d, s, r).step = "send" /\ Sending(d, s, r).old = r.old
           /\ Sending(d, s, r).complete = r.complete
           /\ Sending(d, s, r).behind = r.behind /\ Sending(d, s, r).after = r.after
           /\ Sending(d, s, r).id = d /\ Sending(d, s, r).content = disk[Here(s)]
BY DEF Sending, ScanType

\* Scan t after scan s has reported document d.
Marked(s, d, t, x) ==
    /\ x.behind = IF s \in scan[t].after THEN scan[t].behind \cup {d} ELSE scan[t].behind \ {d}
    /\ x.next = scan[t].next /\ x.todo = scan[t].todo /\ x.step = scan[t].step
    /\ x.old = scan[t].old /\ x.complete = scan[t].complete /\ x.after = scan[t].after
    /\ x.id = scan[t].id /\ x.content = scan[t].content

LEMMA MarkFacts ==
    ASSUME STypeOK, NEW s, NEW d \in Ids
    PROVE  /\ Mark(s, d) \in [Scanners -> ScanType]
           /\ \A t \in Scanners : Marked(s, d, t, Mark(s, d)[t])
<1> DEFINE B(t) == IF s \in scan[t].after THEN scan[t].behind \cup {d} ELSE scan[t].behind \ {d}
<1>1. \A t \in Scanners : scan[t] \in ScanType /\ B(t) \in SUBSET Ids
  BY DEF STypeOK, ScanType
<1>2. Mark(s, d) = [t \in Scanners |-> [scan[t] EXCEPT !.behind = B(t)]]
  BY DEF Mark
<1> HIDE DEF B
<1>3. ASSUME NEW t \in Scanners
      PROVE  [scan[t] EXCEPT !.behind = B(t)] =
                [step |-> scan[t].step, old |-> scan[t].old, next |-> scan[t].next,
                 todo |-> scan[t].todo, complete |-> scan[t].complete, id |-> scan[t].id,
                 content |-> scan[t].content, after |-> scan[t].after, behind |-> B(t),
                 since |-> scan[t].since]
  BY <1>1 DEF ScanType
<1>4. ASSUME NEW t \in Scanners
      PROVE  [scan[t] EXCEPT !.behind = B(t)] \in ScanType
  <2>1. scan[t] \in ScanType /\ B(t) \in SUBSET Ids
    BY <1>1
  <2>2. /\ scan[t].step \in {"no", "visit", "send", "save"} /\ scan[t].old \in [Paths -> Entries]
        /\ scan[t].next \in [Paths -> Entries] /\ scan[t].todo \in SUBSET Paths
        /\ scan[t].complete \in BOOLEAN /\ scan[t].id \in Ids \cup {0}
        /\ scan[t].content \in Contents \cup {None} /\ scan[t].after \in SUBSET Scanners
        /\ scan[t].since \in 0..MaxEdits
    BY <2>1 DEF ScanType
  <2> QED
    BY <1>3, <2>1, <2>2 DEF ScanType
<1>5. Mark(s, d) \in [Scanners -> ScanType]
  BY <1>2, <1>4
<1>6. ASSUME NEW t \in Scanners
      PROVE  /\ Mark(s, d)[t].behind = B(t)
             /\ Mark(s, d)[t].next = scan[t].next /\ Mark(s, d)[t].todo = scan[t].todo
             /\ Mark(s, d)[t].step = scan[t].step /\ Mark(s, d)[t].old = scan[t].old
             /\ Mark(s, d)[t].complete = scan[t].complete
             /\ Mark(s, d)[t].after = scan[t].after
             /\ Mark(s, d)[t].id = scan[t].id /\ Mark(s, d)[t].content = scan[t].content
  <2>1. Mark(s, d)[t] = [scan[t] EXCEPT !.behind = B(t)]
    BY <1>2
  <2> QED
    BY <1>3, <2>1
<1> QED
  BY <1>5, <1>6 DEF B, Marked

-----------------------------------------------------------------------------
(* What a step on a file does: either the document d is reported at the    *)
(* file's path and gets its row, or no document changes.  The scan goes on *)
(* to send the file or has an entry for it.                                *)

Unmoved ==
    /\ UNCHANGED <<disk, saved, shared, tallies>>
    /\ troubles' \in 0..MaxTroubles

Sends(d, s, r) ==
    /\ r.step = "send" /\ r.todo = scan[s].todo /\ r.next = scan[s].next
    /\ r.id = d /\ r.content \in Contents

Enters(e, s, r) ==
    /\ r.step = "visit" /\ r.todo = scan[s].todo \ {Here(s)}
    /\ r.next = [scan[s].next EXCEPT ![Here(s)] = e]

AtFile(s, r) ==
    /\ Visiting(s) /\ Here(s) \in scan[s].todo /\ Here(s) \in Paths
    /\ r \in ScanType /\ r.old = scan[s].old /\ r.after = scan[s].after
    /\ r.complete => scan[s].complete
    /\ scan' \in [Scanners -> ScanType] /\ scan'[s] = r

Passed(s, r) ==
    /\ AtFile(s, r)
    /\ UNCHANGED <<docs, uploaded>>
    /\ \A t \in Scanners \ {s} : scan'[t] = scan[t]
    /\ r.behind = scan[s].behind
    /\ \/ \E d \in Ids : At(s, "visit") /\ Sends(d, s, r) /\ (Known(s) # NoEntry => Known(s).id = d)
       \/ Enters(NoEntry, s, r) /\ ~r.complete

Reported(d, s, row, r) ==
    /\ AtFile(s, r)
    /\ d \in Ids /\ ~PathTaken(d, Here(s)) /\ (Known(s) # NoEntry => Known(s).id = d)
    /\ At(s, "send") => scan[s].id = d
    /\ row \in DocType /\ row.path = Here(s) /\ row.missing = 0
    /\ row.deleted => docs[d].deleted /\ Known(s) # NoEntry
    /\ docs' = [docs EXCEPT ![d] = row]
    /\ uploaded' \in [Ids -> SUBSET Contents] /\ \A e \in Ids : uploaded[e] \subseteq uploaded'[e]
    /\ \A t \in Scanners \ {s} : Marked(s, d, t, scan'[t])
    /\ r.behind = scan[s].behind \ {d}
    /\ \/ Sends(d, s, r)
       \/ Enters(NoEntry, s, r) /\ ~r.complete
       \/ \E c \in uploaded'[d] : Enters([id |-> d, content |-> c], s, r) 

LEMMA SkipPasses ==
    ASSUME STypeOK, NEW s \in Scanners, Skip(s)
    PROVE  Unmoved /\ \E r : Passed(s, r)
<1> DEFINE r == Failed(Entered(NoEntry, s, scan[s]))
<1>1. scan[s] \in ScanType /\ scan[s].todo # {} /\ Here(s) \in scan[s].todo /\ Here(s) \in Paths
      /\ scan \in [Scanners -> ScanType] /\ troubles \in 0..MaxTroubles /\ MaxTroubles \in Nat
  BY HereIsToDo, ScanAssumption DEF Skip, STypeOK
<1>2. scan' = [scan EXCEPT ![s] = r] /\ Visiting(s) /\ UNCHANGED <<docs, uploaded>>
  BY DEF Skip, At, Visiting
<1>3. /\ r \in ScanType /\ ~r.complete /\ r.step = "visit" /\ r.todo = scan[s].todo \ {Here(s)}
      /\ r.next = [scan[s].next EXCEPT ![Here(s)] = NoEntry] /\ r.old = scan[s].old
      /\ r.behind = scan[s].behind /\ r.after = scan[s].after
  BY <1>1, EnteredFacts, FailedFacts, RecordFacts
<1> HIDE DEF r
<1>4. scan' \in [Scanners -> ScanType] /\ scan'[s] = r /\ \A t \in Scanners \ {s} : scan'[t] = scan[t]
  BY <1>1, <1>2, <1>3
<1>5. Passed(s, r)
  BY <1>1, <1>2, <1>3, <1>4 DEF Passed, AtFile, Enters
<1>6. Unmoved
  BY <1>1 DEF Skip, Unmoved, NoTrouble, Trouble
<1> QED
  BY <1>5, <1>6

LEMMA ChoosePasses ==
    ASSUME STypeOK, NEW s \in Scanners, Choose(s)
    PROVE  Unmoved /\ \E r : Passed(s, r)
<1>1. scan[s] \in ScanType /\ scan[s].todo # {} /\ Here(s) \in scan[s].todo /\ Here(s) \in Paths
      /\ scan \in [Scanners -> ScanType] /\ scan[s].old \in [Paths -> Entries]
  BY HereIsToDo DEF Choose, STypeOK, ScanType
<1>2. disk[Here(s)] \in Contents /\ disk[Here(s)] # None
  BY <1>1 DEF Choose, STypeOK
<1>3. PICK d \in IF Known(s) # NoEntry THEN {Known(s).id}
                 ELSE IF Candidates(s) # {} THEN Candidates(s) ELSE Fresh :
          scan' = [scan EXCEPT ![s] = Sending(d, s, scan[s])]
  BY <1>1 DEF Choose
<1>4. d \in Ids /\ (Known(s) # NoEntry => Known(s).id = d)
  <2>1. CASE Known(s) # NoEntry
    BY <2>1, <1>1, <1>3, RecordFacts DEF Known
  <2>2. CASE Known(s) = NoEntry /\ Candidates(s) # {}
    <3>1. PICK q \in Paths : scan[s].old[q].content = disk[Here(s)] /\ d = scan[s].old[q].id
      BY <2>2, <1>3 DEF Candidates
    <3>2. scan[s].old[q] \in Entries /\ scan[s].old[q] # NoEntry
      BY <3>1, <1>1, <1>2, RecordFacts
    <3> QED
      BY <2>2, <3>1, <3>2, RecordFacts
  <2>3. CASE Known(s) = NoEntry /\ Candidates(s) = {}
    BY <2>3, <1>3 DEF Fresh
  <2> QED
    BY <2>1, <2>2, <2>3
<1> DEFINE r == Sending(d, s, scan[s])
<1>5. /\ r \in ScanType /\ r.step = "send" /\ r.todo = scan[s].todo
      /\ r.next = scan[s].next /\ r.old = scan[s].old /\ r.complete = scan[s].complete
      /\ r.behind = scan[s].behind /\ r.after = scan[s].after /\ r.id = d /\ r.content \in Contents
  BY <1>1, <1>2, <1>4, SendingFacts
<1>6. scan' = [scan EXCEPT ![s] = r] /\ At(s, "visit") /\ Visiting(s) /\ UNCHANGED <<docs, uploaded>>
  BY <1>3 DEF Choose, At, Visiting
<1> HIDE DEF r
<1>7. scan' \in [Scanners -> ScanType] /\ scan'[s] = r /\ \A t \in Scanners \ {s} : scan'[t] = scan[t]
  BY <1>1, <1>5, <1>6
<1>8. Passed(s, r)
  BY <1>1, <1>4, <1>5, <1>6, <1>7 DEF Passed, AtFile, Sends
<1>9. Unmoved
  BY DEF Choose, Unmoved, STypeOK
<1> QED
  BY <1>8, <1>9

\* A report of d by scan s at the file at hand.
LEMMA MarkedReport ==
    ASSUME STypeOK, ScansFit, NEW s \in Scanners, NEW d \in Ids, NEW row, NEW r,
           Visiting(s), Here(s) \in scan[s].todo, Here(s) \in Paths,
           r \in ScanType, r.old = scan[s].old, r.after = scan[s].after,
           r.complete => scan[s].complete, r.behind = scan[s].behind \ {d},
           ~PathTaken(d, Here(s)), Known(s) # NoEntry => Known(s).id = d,
           At(s, "send") => scan[s].id = d,
           row \in DocType, row.path = Here(s), row.missing = 0,
           row.deleted => docs[d].deleted /\ Known(s) # NoEntry,
           docs' = [docs EXCEPT ![d] = row],
           uploaded' \in [Ids -> SUBSET Contents], \A e \in Ids : uploaded[e] \subseteq uploaded'[e],
           scan' = [Mark(s, d) EXCEPT ![s] = r],
           \/ Sends(d, s, r)
           \/ Enters(NoEntry, s, r) /\ ~r.complete
           \/ \E c \in uploaded'[d] : Enters([id |-> d, content |-> c], s, r)
    PROVE  Reported(d, s, row, r)
<1> DEFINE m == Mark(s, d)
<1>1. m \in [Scanners -> ScanType]
  BY MarkFacts
<1>2. \A t \in Scanners : Marked(s, d, t, m[t])
  BY MarkFacts
<1> HIDE DEF m
<1>3. scan' = [m EXCEPT ![s] = r]
  BY DEF m
<1>4. scan' \in [Scanners -> ScanType] /\ scan'[s] = r /\ \A t \in Scanners \ {s} : scan'[t] = m[t]
  BY <1>1, <1>3
<1>5. AtFile(s, r)
  BY <1>4 DEF AtFile
<1>6. \A t \in Scanners \ {s} : Marked(s, d, t, scan'[t])
  BY <1>2, <1>4
<1> QED
  BY <1>5, <1>6 DEF Reported

\* Marked itself, the reporting scan has the document no longer behind it.
LEMMA MarkedSelf ==
    ASSUME STypeOK, ScansFit, NEW s \in Scanners, NEW d \in Ids
    PROVE  /\ Mark(s, d)[s] \in ScanType /\ Mark(s, d)[s].behind = scan[s].behind \ {d}
           /\ Mark(s, d)[s].next = scan[s].next /\ Mark(s, d)[s].todo = scan[s].todo
           /\ Mark(s, d)[s].old = scan[s].old /\ Mark(s, d)[s].complete = scan[s].complete
           /\ Mark(s, d)[s].after = scan[s].after
<1>1. s \notin scan[s].after
  BY DEF ScansFit
<1>2. Mark(s, d) \in [Scanners -> ScanType] /\ Marked(s, d, s, Mark(s, d)[s])
  BY MarkFacts
<1> QED
  BY <1>1, <1>2 DEF Marked

\* The row that a report makes, and the one that an upload makes of it.
Rows(P, C) == [path : P, content : C, missing : 0..Confirmations, deleted : BOOLEAN]
Uploaded(d, p, c, x) == [Report(d, p, x) EXCEPT !.content = c, !.deleted = FALSE]

LEMMA ReportFacts ==
    ASSUME NEW d, NEW p \in Paths, NEW x \in DocType \cup {NoDoc}
    PROVE  /\ x \in DocType => Report(d, p, x) \in DocType
           /\ Report(d, p, x) \in Rows(Paths, Contents \cup {None})
           /\ Report(d, p, x).path = p /\ Report(d, p, x).missing = 0
           /\ Report(d, p, x).deleted = x.deleted
<1>1. 0 \in 0..Confirmations
  BY ScanAssumption
<1>2. x \in Rows(Paths \cup {0}, Contents \cup {None})
  <2>1. NoDoc \in Rows(Paths \cup {0}, Contents \cup {None})
    BY <1>1 DEF NoDoc, Rows
  <2>2. ASSUME NEW z \in DocType PROVE z \in Rows(Paths \cup {0}, Contents \cup {None})
    BY DEF DocType, Rows
  <2> QED
    BY <2>1, <2>2
<1>3. x \in DocType => Report(d, p, x) \in DocType
  BY <1>1 DEF Report, DocType
<1>4. /\ Report(d, p, x) \in Rows(Paths, Contents \cup {None})
      /\ Report(d, p, x).path = p /\ Report(d, p, x).missing = 0
      /\ Report(d, p, x).deleted = x.deleted
  BY <1>1, <1>2 DEF Report, Rows
<1> QED
  BY <1>3, <1>4

LEMMA UploadFacts ==
    ASSUME NEW d, NEW p \in Paths, NEW x \in DocType \cup {NoDoc}, NEW c \in Contents
    PROVE  /\ Uploaded(d, p, c, x) \in DocType /\ Uploaded(d, p, c, x).path = p
           /\ Uploaded(d, p, c, x).missing = 0 /\ ~Uploaded(d, p, c, x).deleted
<1>1. ASSUME NEW z \in Rows(Paths, Contents \cup {None})
      PROVE  LET y == [z EXCEPT !.content = c, !.deleted = FALSE]
             IN  y \in DocType /\ y.path = z.path /\ y.missing = z.missing /\ ~y.deleted
  BY DEF DocType, Rows
<1>2. /\ Report(d, p, x) \in Rows(Paths, Contents \cup {None})
      /\ Report(d, p, x).path = p /\ Report(d, p, x).missing = 0
  BY ReportFacts
<1> DEFINE z == Report(d, p, x)
<1> HIDE DEF z
<1>3. LET y == [z EXCEPT !.content = c, !.deleted = FALSE]
      IN  y \in DocType /\ y.path = z.path /\ y.missing = z.missing /\ ~y.deleted
  BY <1>1, <1>2 DEF z
<1> QED
  BY <1>2, <1>3 DEF Uploaded, z

LEMMA SendCases ==
    ASSUME STypeOK, ScansFit, NEW s \in Scanners, Send(s)
    PROVE  Unmoved /\ ((\E r : Passed(s, r)) \/ \E d, row, r : Reported(d, s, row, r))
<1> DEFINE d == scan[s].id
           c == scan[s].content
           p == Here(s)
<1>1. scan[s] \in ScanType /\ scan[s].todo # {} /\ p \in scan[s].todo /\ p \in Paths
      /\ scan \in [Scanners -> ScanType] /\ d \in Ids /\ c \in Contents
      /\ (Known(s) # NoEntry => Known(s).id = d) /\ Visiting(s)
  BY HereIsToDo DEF Send, STypeOK, ScansFit, Visiting, At
<1>2. Unmoved
  BY ScanAssumption DEF Send, Unmoved, NoTrouble, Trouble, STypeOK
<1>3. c # None /\ [id |-> d, content |-> c] \in Entries /\ NoEntry \in Entries
  BY <1>1, ScanAssumption, RecordFacts DEF Entries
<1>4. CASE ~(IngestAccepted(d, p) /\ Ingest(d, p, c))
  <2> DEFINE r == Failed(Entered(NoEntry, s, scan[s]))
  <2>1. scan' = [scan EXCEPT ![s] = r] /\ UNCHANGED <<docs, uploaded>>
    BY <1>4 DEF Send, Unsent
  <2>2. /\ r \in ScanType /\ ~r.complete /\ r.step = "visit" /\ r.todo = scan[s].todo \ {Here(s)}
        /\ r.next = [scan[s].next EXCEPT ![Here(s)] = NoEntry] /\ r.old = scan[s].old
        /\ r.behind = scan[s].behind /\ r.after = scan[s].after
    BY <1>1, <1>3, EnteredFacts, FailedFacts
  <2> HIDE DEF r
  <2>3. scan' \in [Scanners -> ScanType] /\ scan'[s] = r /\ \A t \in Scanners \ {s} : scan'[t] = scan[t]
    BY <1>1, <2>1, <2>2
  <2>4. Passed(s, r)
    BY <1>1, <2>1, <2>2, <2>3 DEF Passed, AtFile, Enters
  <2> QED
    BY <1>2, <2>4
<1>5. CASE IngestAccepted(d, p) /\ Ingest(d, p, c)
  <2> DEFINE row == Uploaded(d, p, c, docs[d])
             m == Mark(s, d)[s]
  <2>1. row \in DocType /\ row.path = p /\ row.missing = 0 /\ ~row.deleted
    <3>1. docs[d] \in DocType \cup {NoDoc}
      BY <1>1 DEF STypeOK
    <3> QED
      BY <1>1, <3>1, UploadFacts
  <2>2. /\ docs' = [docs EXCEPT ![d] = row] /\ uploaded' = [uploaded EXCEPT ![d] = @ \cup {c}]
        /\ ~PathTaken(d, p)
    BY <1>5 DEF Ingest, IngestAccepted, Uploaded
  <2>3. /\ uploaded' \in [Ids -> SUBSET Contents] /\ c \in uploaded'[d]
        /\ \A e \in Ids : uploaded[e] \subseteq uploaded'[e]
    BY <2>2, <1>1 DEF STypeOK
  <2>4. /\ m \in ScanType /\ m.behind = scan[s].behind \ {d}
        /\ m.next = scan[s].next /\ m.todo = scan[s].todo /\ m.old = scan[s].old
        /\ m.complete = scan[s].complete /\ m.after = scan[s].after
    BY <1>1, MarkedSelf
  <2>5. \/ scan' = [Mark(s, d) EXCEPT ![s] = Entered([id |-> d, content |-> c], s, m)]
        \/ scan' = [Mark(s, d) EXCEPT ![s] = Failed(Entered(NoEntry, s, m))]
        \/ UNCHANGED <<docs, uploaded>> /\ scan' = [scan EXCEPT ![s] = Failed(Entered(NoEntry, s, scan[s]))]
    BY DEF Send, Unsent
  <2> HIDE DEF row, m
  <2>6. CASE scan' = [Mark(s, d) EXCEPT ![s] = Entered([id |-> d, content |-> c], s, m)]
    <3> DEFINE r == Entered([id |-> d, content |-> c], s, m)
    <3>1. /\ r \in ScanType /\ r.step = "visit" /\ r.todo = scan[s].todo \ {Here(s)}
          /\ r.next = [scan[s].next EXCEPT ![Here(s)] = [id |-> d, content |-> c]]
          /\ r.old = scan[s].old /\ r.complete = scan[s].complete
          /\ r.behind = scan[s].behind \ {d} /\ r.after = scan[s].after
      BY <1>1, <1>3, <2>4, EnteredFacts
    <3> HIDE DEF r
    <3>2. Enters([id |-> d, content |-> c], s, r)
      BY <3>1 DEF Enters
    <3>3. Reported(d, s, row, r)
      BY <1>1, <2>1, <2>2, <2>3, <3>1, <3>2, <2>6, MarkedReport DEF r
    <3> QED
      BY <1>2, <3>3
  <2>7. CASE scan' = [Mark(s, d) EXCEPT ![s] = Failed(Entered(NoEntry, s, m))]
    <3> DEFINE r == Failed(Entered(NoEntry, s, m))
    <3>1. /\ r \in ScanType /\ r.step = "visit" /\ r.todo = scan[s].todo \ {Here(s)}
          /\ r.next = [scan[s].next EXCEPT ![Here(s)] = NoEntry]
          /\ r.old = scan[s].old /\ ~r.complete
          /\ r.behind = scan[s].behind \ {d} /\ r.after = scan[s].after
      BY <1>1, <1>3, <2>4, EnteredFacts, FailedFacts
    <3> HIDE DEF r
    <3>2. Enters(NoEntry, s, r)
      BY <3>1 DEF Enters
    <3>3. Reported(d, s, row, r)
      BY <1>1, <2>1, <2>2, <2>3, <3>1, <3>2, <2>7, MarkedReport DEF r
    <3> QED
      BY <1>2, <3>3
  <2>8. CASE UNCHANGED <<docs, uploaded>> /\ scan' = [scan EXCEPT ![s] = Failed(Entered(NoEntry, s, scan[s]))]
    <3> DEFINE r == Failed(Entered(NoEntry, s, scan[s]))
    <3>2. /\ r \in ScanType /\ ~r.complete /\ r.step = "visit" /\ r.todo = scan[s].todo \ {Here(s)}
          /\ r.next = [scan[s].next EXCEPT ![Here(s)] = NoEntry] /\ r.old = scan[s].old
          /\ r.behind = scan[s].behind /\ r.after = scan[s].after
      BY <1>1, <1>3, EnteredFacts, FailedFacts
    <3> HIDE DEF r
    <3>1. scan' = [scan EXCEPT ![s] = r]
      BY <2>8 DEF r
    <3>3. scan' \in [Scanners -> ScanType] /\ scan'[s] = r /\ \A t \in Scanners \ {s} : scan'[t] = scan[t]
      BY <1>1, <3>1, <3>2
    <3>4. Passed(s, r)
      BY <1>1, <2>8, <3>2, <3>3 DEF Passed, AtFile, Enters
    <3> QED
      BY <1>2, <3>4
  <2> QED
    BY <2>5, <2>6, <2>7, <2>8
<1> QED
  BY <1>4, <1>5

LEMMA SeenCases ==
    ASSUME STypeOK, ScansFit, EntriesAccepted, NEW s \in Scanners, ReportSeen(s)
    PROVE  Unmoved /\ ((\E r : Passed(s, r)) \/ \E d, row, r : Reported(d, s, row, r))
<1> DEFINE d == Known(s).id
           p == Here(s)
<1>1. scan[s] \in ScanType /\ scan[s].todo # {} /\ p \in scan[s].todo /\ p \in Paths
      /\ scan \in [Scanners -> ScanType] /\ scan[s].old \in [Paths -> Entries] /\ Visiting(s)
      /\ At(s, "visit") /\ ~At(s, "send")
  BY HereIsToDo DEF ReportSeen, STypeOK, ScanType, Visiting, At
<1>2. disk[p] \in Contents /\ disk[p] # None
  BY <1>1 DEF ReportSeen, STypeOK
<1>3. Known(s) # NoEntry /\ Known(s) \in Entries /\ d \in Ids /\ Known(s).content = disk[p]
  BY <1>1, RecordFacts DEF ReportSeen, Unchanged, Known
<1>4. Unmoved
  BY ScanAssumption DEF ReportSeen, Unmoved, NoTrouble, Trouble, STypeOK
<1> DEFINE m == Mark(s, d)[s]
<1>5. \/ /\ UNCHANGED <<docs, uploaded>>
         /\ scan' = [scan EXCEPT ![s] = Failed(Sending(d, s, scan[s]))]
      \/ /\ SeenAccepted(d, p) /\ Seen(d, p)
         /\ \/ scan' = [Mark(s, d) EXCEPT ![s] = Entered(Known(s), s, m)]
            \/ scan' = [Mark(s, d) EXCEPT ![s] = Sending(d, s, m)]
            \/ scan' = [Mark(s, d) EXCEPT ![s] = Failed(Sending(d, s, m))]
  BY DEF ReportSeen
<1>6. CASE /\ UNCHANGED <<docs, uploaded>>
           /\ scan' = [scan EXCEPT ![s] = Failed(Sending(d, s, scan[s]))]
  <2> DEFINE r == Failed(Sending(d, s, scan[s]))
  <2>1. /\ r \in ScanType /\ ~r.complete /\ r.step = "send" /\ r.todo = scan[s].todo
        /\ r.next = scan[s].next /\ r.old = scan[s].old
        /\ r.behind = scan[s].behind /\ r.after = scan[s].after /\ r.id = d /\ r.content = disk[p]
    BY <1>1, <1>2, <1>3, SendingFacts, FailedFacts
  <2> HIDE DEF r
  <2>2. scan' = [scan EXCEPT ![s] = r]
    BY <1>6 DEF r
  <2>3. scan' \in [Scanners -> ScanType] /\ scan'[s] = r /\ \A t \in Scanners \ {s} : scan'[t] = scan[t]
    BY <1>1, <2>1, <2>2
  <2>4. Passed(s, r)
    BY <1>1, <1>2, <1>3, <1>6, <2>1, <2>3 DEF Passed, AtFile, Sends
  <2> QED
    BY <1>4, <2>4
<1>7. CASE /\ SeenAccepted(d, p) /\ Seen(d, p)
           /\ \/ scan' = [Mark(s, d) EXCEPT ![s] = Entered(Known(s), s, m)]
              \/ scan' = [Mark(s, d) EXCEPT ![s] = Sending(d, s, m)]
              \/ scan' = [Mark(s, d) EXCEPT ![s] = Failed(Sending(d, s, m))]
  <2> DEFINE row == Report(d, p, docs[d])
  <2>1. /\ ~PathTaken(d, p) /\ docs' = [docs EXCEPT ![d] = row] /\ UNCHANGED uploaded /\ Exists(d)
    BY <1>7 DEF SeenAccepted, Seen
  <2>2. row \in DocType /\ row.path = p /\ row.missing = 0 /\ row.deleted = docs[d].deleted
    <3>1. docs[d] \in DocType
      BY <1>3, <2>1 DEF STypeOK, Exists
    <3>2. docs[d] \in DocType \cup {NoDoc}
      BY <3>1
    <3> QED
      BY <3>1, <3>2, <1>1, ReportFacts
  <2>3. uploaded' \in [Ids -> SUBSET Contents] /\ \A e \in Ids : uploaded[e] \subseteq uploaded'[e]
    BY <2>1 DEF STypeOK
  <2>4. /\ m \in ScanType /\ m.behind = scan[s].behind \ {d}
        /\ m.next = scan[s].next /\ m.todo = scan[s].todo /\ m.old = scan[s].old
        /\ m.complete = scan[s].complete /\ m.after = scan[s].after
    BY <1>3, MarkedSelf
  <2>5. /\ Sending(d, s, m) \in ScanType /\ Sending(d, s, m).step = "send"
        /\ Sending(d, s, m).todo = scan[s].todo /\ Sending(d, s, m).next = scan[s].next
        /\ Sending(d, s, m).old = scan[s].old /\ Sending(d, s, m).complete = scan[s].complete
        /\ Sending(d, s, m).behind = scan[s].behind \ {d} /\ Sending(d, s, m).after = scan[s].after
        /\ Sending(d, s, m).id = d /\ Sending(d, s, m).content = disk[p]
    BY <1>2, <1>3, <2>4, SendingFacts
  <2>6. CASE scan' = [Mark(s, d) EXCEPT ![s] = Entered(Known(s), s, m)]
    <3> DEFINE r == Entered(Known(s), s, m)
    <3>1. /\ r \in ScanType /\ r.step = "visit" /\ r.todo = scan[s].todo \ {Here(s)}
          /\ r.next = [scan[s].next EXCEPT ![Here(s)] = Known(s)]
          /\ r.old = scan[s].old /\ r.complete = scan[s].complete
          /\ r.behind = scan[s].behind \ {d} /\ r.after = scan[s].after
      BY <1>1, <1>3, <2>4, EnteredFacts
    <3>2. Known(s) = [id |-> d, content |-> Known(s).content]
      BY <1>3 DEF Entries
    <3>3. Known(s).content \in uploaded'[d]
      BY <1>1, <1>3, <2>1 DEF EntriesAccepted, Accepted, Known
    <3> HIDE DEF r
    <3>4. Enters([id |-> d, content |-> Known(s).content], s, r)
      BY <3>1, <3>2 DEF Enters
    <3>5. scan' = [Mark(s, d) EXCEPT ![s] = r]
      BY <2>6 DEF r
    <3>6. \E c \in uploaded'[d] : Enters([id |-> d, content |-> c], s, r)
      BY <3>3, <3>4
    <3> HIDE DEF row, d
    <3>7. Reported(d, s, row, r)
      BY <1>1, <1>3, <2>1, <2>2, <2>3, <3>1, <3>5, <3>6, MarkedReport DEF d
    <3> QED
      BY <1>4, <3>7
  <2>7. CASE scan' = [Mark(s, d) EXCEPT ![s] = Sending(d, s, m)]
    <3> DEFINE r == Sending(d, s, m)
    <3>1. Sends(d, s, r)
      BY <1>2, <2>5 DEF Sends
    <3>2. scan' = [Mark(s, d) EXCEPT ![s] = r]
      BY <2>7
    <3>3. /\ r \in ScanType /\ r.old = scan[s].old /\ r.complete = scan[s].complete
          /\ r.behind = scan[s].behind \ {d} /\ r.after = scan[s].after
      BY <2>5
    <3> HIDE DEF row, d, r, m
    <3>4. Reported(d, s, row, r)
      BY <1>1, <1>3, <2>1, <2>2, <2>3, <3>1, <3>2, <3>3, MarkedReport DEF d
    <3> QED
      BY <1>4, <3>4
  <2>8. CASE scan' = [Mark(s, d) EXCEPT ![s] = Failed(Sending(d, s, m))]
    <3> DEFINE r == Failed(Sending(d, s, m))
    <3>1. /\ r \in ScanType /\ r.old = scan[s].old /\ ~r.complete
          /\ r.behind = scan[s].behind \ {d} /\ r.after = scan[s].after
          /\ r.step = "send" /\ r.todo = scan[s].todo /\ r.next = scan[s].next
          /\ r.id = d /\ r.content = disk[p]
      BY <2>5, FailedFacts
    <3>2. scan' = [Mark(s, d) EXCEPT ![s] = r]
      BY <2>8
    <3> HIDE DEF r
    <3>3. Sends(d, s, r)
      BY <1>2, <3>1 DEF Sends
    <3> HIDE DEF row, d, m
    <3>4. Reported(d, s, row, r)
      BY <1>1, <1>3, <2>1, <2>2, <2>3, <3>1, <3>2, <3>3, MarkedReport DEF d
    <3> QED
      BY <1>4, <3>4
  <2> QED
    BY <1>7, <2>6, <2>7, <2>8
<1> QED
  BY <1>5, <1>6, <1>7

-----------------------------------------------------------------------------
(* The other steps                                                         *)

Edited ==
    /\ UNCHANGED <<saved, docs, scan, scans, troubles, uploaded, overlapped, shared>>
    /\ edits' \in 0..MaxEdits
    /\ \E p \in Paths, c \in Contents \cup {None} :
          disk' = [disk EXCEPT ![p] = c] /\ touched' = touched \cup {p}

SameBut(t, x) ==
    /\ x.step = scan[t].step /\ x.old = scan[t].old /\ x.next = scan[t].next
    /\ x.todo = scan[t].todo /\ x.complete = scan[t].complete /\ x.id = scan[t].id
    /\ x.content = scan[t].content /\ x.behind = scan[t].behind

Started(s) ==
    /\ UNCHANGED <<disk, saved, docs, edits, troubles, touched, uploaded, shared>>
    /\ ~Running(s) /\ scans' \in 0..MaxScans
    /\ overlapped' = (overlapped \/ \E t \in Scanners : Running(t))
    /\ scan' \in [Scanners -> ScanType]
    /\ scan'[s].step = "visit" /\ scan'[s].old = saved /\ scan'[s].next = NoState
    /\ scan'[s].todo = {p \in Paths : disk[p] # None} /\ scan'[s].behind = Ids
    /\ scan'[s].complete /\ scan'[s].after = {u \in Scanners : Running(u)}
    /\ \A t \in Scanners \ {s} : SameBut(t, scan'[t]) /\ scan'[t].after = scan[t].after \ {s}

Counted(s, d) ==
    /\ scan[s].complete /\ d \in Unreported(s)
    /\ docs'[d] \in DocType /\ docs'[d].path = docs[d].path
    /\ docs'[d].missing = docs[d].missing + 1
    /\ docs'[d].deleted = (docs[d].missing + 1 >= Confirmations)

Reconciled(s) ==
    /\ Unmoved /\ UNCHANGED uploaded
    /\ At(s, "visit") /\ scan[s].todo = {}
    /\ scan' \in [Scanners -> ScanType] /\ \A t \in Scanners \ {s} : scan'[t] = scan[t]
    /\ scan'[s].step = "save" /\ scan'[s].old = scan[s].old /\ scan'[s].next = scan[s].next
    /\ scan'[s].todo = {} /\ scan'[s].after = scan[s].after /\ scan'[s].behind = scan[s].behind
    /\ scan'[s].complete => scan[s].complete
    /\ docs' \in [Ids -> DocType \cup {NoDoc}]
    /\ \A d \in Ids : Counted(s, d) \/ docs'[d] = docs[d]
    /\ scan'[s].complete => \A d \in Unreported(s) : Counted(s, d)

Ended(s) ==
    /\ UNCHANGED <<disk, docs, uploaded, tallies>>
    /\ Running(s)
    /\ troubles' \in 0..MaxTroubles /\ shared' \in SUBSET Ids
    /\ scan' = [scan EXCEPT ![s] = NoScan]
    /\ saved' \in [Paths -> Entries]
    /\ \A p \in Paths : saved'[p] \in {NoEntry, saved[p], scan[s].old[p], scan[s].next[p]}

LEMMA EditCase == STypeOK /\ Edit => Edited
<1> SUFFICES ASSUME STypeOK, Edit PROVE Edited
  OBVIOUS
<1>1. edits < MaxEdits /\ edits' = edits + 1 /\ edits \in 0..MaxEdits /\ MaxEdits \in Nat
  BY ScanAssumption DEF STypeOK, Edit
<1>2. edits' \in 0..MaxEdits
  BY <1>1
<1>3. \E p \in Paths, c \in Contents \cup {None} :
          disk' = [disk EXCEPT ![p] = c] /\ touched' = touched \cup {p}
  BY DEF Edit
<1>4. UNCHANGED <<saved, docs, scan, scans, troubles, uploaded, overlapped, shared>>
  BY DEF Edit
<1> QED
  BY <1>2, <1>3, <1>4 DEF Edited

LEMMA StartCase == ASSUME STypeOK, NEW s \in Scanners, Start(s) PROVE Started(s)
<1> DEFINE L == {p \in Paths : disk[p] # None}
           A == {u \in Scanners : ~At(u, "no")}
           x == [NoScan EXCEPT !.step = "visit", !.old = saved, !.complete = TRUE, !.todo = L,
                               !.after = A, !.behind = Ids, !.since = edits]
           y(t) == [scan[t] EXCEPT !.after = scan[t].after \ {s}]
<1>1. L \in SUBSET Paths /\ A \in SUBSET Scanners /\ saved \in [Paths -> Entries] /\ edits \in 0..MaxEdits
      /\ Ids \in SUBSET Ids
  BY DEF STypeOK
<1>2. scan' = [t \in Scanners |-> IF t = s THEN x ELSE y(t)]
  BY DEF Start
<1> HIDE DEF L, A
<1>3. /\ x \in ScanType /\ x.step = "visit" /\ x.old = saved /\ x.next = NoState /\ x.todo = L
      /\ x.behind = Ids /\ x.complete /\ x.after = A
  <2>1. NoScan \in ScanType /\ NoScan.next = NoState
    BY RecordFacts
  <2> QED
    BY <1>1, <2>1 DEF ScanType
<1>4. ASSUME NEW t \in Scanners
      PROVE  y(t) \in ScanType /\ SameBut(t, y(t)) /\ y(t).after = scan[t].after \ {s}
  <2>1. scan[t] \in ScanType /\ scan[t].after \ {s} \in SUBSET Scanners
    BY DEF STypeOK, ScanType
  <2> DEFINE a == scan[t].after \ {s}
  <2> HIDE DEF a
  <2>2. a \in SUBSET Scanners
    BY <2>1 DEF a
  <2>3. LET z == [scan[t] EXCEPT !.after = a] IN z \in ScanType /\ SameBut(t, z) /\ z.after = a
    BY <2>1, <2>2 DEF ScanType, SameBut
  <2> QED
    BY <2>3 DEF a
<1> HIDE DEF x, y
<1>5. scan' \in [Scanners -> ScanType] /\ scan'[s] = x /\ \A t \in Scanners \ {s} : scan'[t] = y(t)
  BY <1>2, <1>3, <1>4
<1>6. \A t \in Scanners \ {s} : SameBut(t, scan'[t]) /\ scan'[t].after = scan[t].after \ {s}
  BY <1>4, <1>5
<1>7. /\ UNCHANGED <<disk, saved, docs, edits, troubles, touched, uploaded, shared>>
      /\ ~Running(s) /\ overlapped' = (overlapped \/ \E t \in Scanners : Running(t))
  BY DEF Start, Running
<1>8. scans' \in 0..MaxScans
  <2>1. scans < MaxScans /\ scans' = scans + 1 /\ scans \in 0..MaxScans /\ MaxScans \in Nat
    BY ScanAssumption DEF Start, STypeOK
  <2> QED
    BY <2>1
<1>9. A = {u \in Scanners : Running(u)}
  BY DEF A, Running
<1> QED
  BY <1>3, <1>5, <1>6, <1>7, <1>8, <1>9 DEF Started, L

LEMMA ReconcileCase == ASSUME STypeOK, DocsFit, NEW s \in Scanners, Reconcile(s) PROVE Reconciled(s)
<1>1. scan[s] \in ScanType /\ scan \in [Scanners -> ScanType] /\ docs \in [Ids -> DocType \cup {NoDoc}]
  BY DEF STypeOK
<1> DEFINE new(d) == [docs[d] EXCEPT !.missing = @ + 1,
                                     !.deleted = (docs[d].missing + 1 >= Confirmations)]
<1>2. ASSUME NEW d \in Unreported(s)
      PROVE  /\ new(d) \in DocType /\ new(d).path = docs[d].path
             /\ new(d).missing = docs[d].missing + 1
             /\ new(d).deleted = (docs[d].missing + 1 >= Confirmations)
  <2>1. d \in Ids /\ docs[d] \in DocType /\ docs[d].missing < Confirmations
    BY <1>1 DEF Unreported, Exists, DocsFit
  <2>2. docs[d].missing + 1 \in 0..Confirmations /\ (docs[d].missing + 1 >= Confirmations) \in BOOLEAN
    BY <2>1, ScanAssumption DEF DocType
  <2> DEFINE n == docs[d].missing + 1
             g == (docs[d].missing + 1 >= Confirmations)
  <2>3. new(d) = [docs[d] EXCEPT !.missing = n, !.deleted = g]
    BY <2>1 DEF DocType
  <2>4. n \in 0..Confirmations /\ g \in BOOLEAN
    BY <2>2
  <2> HIDE DEF n, g, new
  <2>5. new(d) \in DocType /\ new(d).path = docs[d].path /\ new(d).missing = n /\ new(d).deleted = g
    BY <2>1, <2>3, <2>4 DEF DocType
  <2> QED
    BY <2>5 DEF n, g
<1>3. Confirm(s) =>
         docs' = [d \in Ids |-> IF scan[s].complete /\ d \in Unreported(s) THEN new(d) ELSE docs[d]]
  BY DEF Confirm
<1> HIDE DEF new
<1>4. Confirm(s) =>
         /\ docs' \in [Ids -> DocType \cup {NoDoc}]
         /\ \A d \in Ids : Counted(s, d) \/ docs'[d] = docs[d]
         /\ scan[s].complete => \A d \in Unreported(s) : Counted(s, d)
  <2> SUFFICES ASSUME Confirm(s)
               PROVE  /\ docs' \in [Ids -> DocType \cup {NoDoc}]
                      /\ \A d \in Ids : Counted(s, d) \/ docs'[d] = docs[d]
                      /\ scan[s].complete => \A d \in Unreported(s) : Counted(s, d)
    OBVIOUS
  <2>1. \A d \in Ids : docs'[d] = IF scan[s].complete /\ d \in Unreported(s) THEN new(d) ELSE docs[d]
    BY <1>3
  <2>2. docs' \in [Ids -> DocType \cup {NoDoc}]
    BY <1>1, <1>2, <1>3
  <2>3. ASSUME NEW d \in Unreported(s), scan[s].complete PROVE d \in Ids /\ Counted(s, d)
    <3>1. d \in Ids
      BY DEF Unreported
    <3>2. docs'[d] = new(d)
      BY <2>1, <2>3, <3>1
    <3> QED
      BY <1>2, <2>3, <3>1, <3>2 DEF Counted
  <2> QED
    BY <2>1, <2>2, <2>3
<1>5. UNCHANGED docs => docs' \in [Ids -> DocType \cup {NoDoc}] /\ \A d \in Ids : docs'[d] = docs[d]
  BY <1>1
<1>6. At(s, "visit") /\ scan[s].todo = {} /\ Unmoved /\ UNCHANGED uploaded
  BY ScanAssumption DEF Reconcile, Unmoved, NoTrouble, Trouble, STypeOK
<1> DEFINE S(x) ==
        /\ x \in ScanType /\ x.step = "save" /\ x.old = scan[s].old /\ x.next = scan[s].next
        /\ x.todo = scan[s].todo /\ x.after = scan[s].after /\ x.behind = scan[s].behind
<1>7. /\ S([scan[s] EXCEPT !.step = "save"])
      /\ [scan[s] EXCEPT !.step = "save"].complete = scan[s].complete
  BY <1>1 DEF ScanType
<1>8. /\ S([scan[s] EXCEPT !.step = "save", !.complete = FALSE])
      /\ ~[scan[s] EXCEPT !.step = "save", !.complete = FALSE].complete
  BY <1>1 DEF ScanType
<1>9. CASE Confirm(s) /\ scan' = [scan EXCEPT ![s].step = "save"]
  <2>1. scan' = [scan EXCEPT ![s] = [scan[s] EXCEPT !.step = "save"]]
    BY <1>9
  <2> DEFINE x == [scan[s] EXCEPT !.step = "save"]
  <2>2. S(x) /\ x.complete = scan[s].complete
    BY <1>7
  <2> HIDE DEF x, S
  <2>3. scan' = [scan EXCEPT ![s] = x] /\ x \in ScanType
    BY <2>1, <2>2 DEF x, S
  <2>4. scan' \in [Scanners -> ScanType] /\ scan'[s] = x /\ \A t \in Scanners \ {s} : scan'[t] = scan[t]
    BY <1>1, <2>3
  <2> QED
    BY <1>4, <1>6, <1>9, <2>2, <2>4 DEF Reconciled, S
<1>10. CASE (Confirm(s) \/ UNCHANGED docs) /\ scan' = [scan EXCEPT ![s].step = "save", ![s].complete = FALSE]
  <2>1. scan' = [scan EXCEPT ![s] = [scan[s] EXCEPT !.step = "save", !.complete = FALSE]]
    BY <1>1, <1>10
  <2> DEFINE x == [scan[s] EXCEPT !.step = "save", !.complete = FALSE]
  <2>2. S(x) /\ ~x.complete
    BY <1>8
  <2> HIDE DEF x, S
  <2>3. scan' = [scan EXCEPT ![s] = x] /\ x \in ScanType
    BY <2>1, <2>2 DEF x, S
  <2>4. scan' \in [Scanners -> ScanType] /\ scan'[s] = x /\ \A t \in Scanners \ {s} : scan'[t] = scan[t]
    BY <1>1, <2>3
  <2>5. /\ docs' \in [Ids -> DocType \cup {NoDoc}]
        /\ \A d \in Ids : Counted(s, d) \/ docs'[d] = docs[d]
    BY <1>4, <1>5, <1>10
  <2> QED
    BY <1>6, <2>2, <2>4, <2>5 DEF Reconciled, S
<1> QED
  BY <1>9, <1>10 DEF Reconcile

LEMMA EndCases == ASSUME STypeOK, NEW s \in Scanners, Save(s) \/ Die(s) PROVE Ended(s)
<1>1. /\ scan[s].next \in [Paths -> Entries] /\ scan[s].old \in [Paths -> Entries]
      /\ saved \in [Paths -> Entries] /\ NoEntry \in Entries /\ troubles \in 0..MaxTroubles
      /\ shared \in SUBSET Ids
  BY RecordFacts DEF STypeOK, ScanType
<1>2. CASE Save(s)
  <2>1. \A p \in Paths : saved'[p] \in {scan[s].old[p], scan[s].next[p]}
    BY <1>2 DEF Save
  <2>2. saved' \in [Paths -> Entries]
    BY <1>1, <1>2 DEF Save
  <2>3. shared' \in SUBSET Ids /\ troubles' = troubles
    BY <1>1, <1>2 DEF Save
  <2>4. Running(s) /\ UNCHANGED <<disk, docs, uploaded, tallies>> /\ scan' = [scan EXCEPT ![s] = NoScan]
    BY <1>2 DEF Save, Running, At
  <2> QED
    BY <1>1, <2>1, <2>2, <2>3, <2>4 DEF Ended
<1>3. CASE Die(s)
  <2>1. Running(s) /\ UNCHANGED <<disk, docs, uploaded, shared, tallies>> /\ scan' = [scan EXCEPT ![s] = NoScan]
    BY <1>3 DEF Die, Running, At
  <2>2. troubles' \in 0..MaxTroubles
    BY <1>1, <1>3, ScanAssumption DEF Die, Trouble
  <2>3. saved' = saved \/ saved' = NoState
    BY <1>3 DEF Die
  <2>4. NoState \in [Paths -> Entries] /\ \A p \in Paths : NoState[p] = NoEntry
    BY RecordFacts DEF NoState
  <2> QED
    BY <1>1, <2>1, <2>2, <2>3, <2>4 DEF Ended
<1> QED
  BY <1>2, <1>3

LEMMA StepCases ==
    ASSUME ScanInv, SNext
    PROVE  \/ Edited
           \/ \E s \in Scanners :
                 \/ Started(s)
                 \/ Unmoved /\ \E r : Passed(s, r)
                 \/ Unmoved /\ \E d, row, r : Reported(d, s, row, r)
                 \/ Reconciled(s)
                 \/ Ended(s)
<1>1. STypeOK /\ ScansFit /\ DocsFit /\ EntriesAccepted
  BY DEF ScanInv
<1>2. CASE Edit
  BY <1>1, <1>2, EditCase
<1>3. ASSUME NEW s \in Scanners,
             \/ Start(s) \/ Skip(s) \/ ReportSeen(s) \/ Choose(s) \/ Send(s) \/ Reconcile(s)
             \/ Save(s) \/ Die(s)
      PROVE  \/ Started(s)
             \/ Unmoved /\ \E r : Passed(s, r)
             \/ Unmoved /\ \E d, row, r : Reported(d, s, row, r)
             \/ Reconciled(s)
             \/ Ended(s)
  BY <1>1, <1>3, StartCase, SkipPasses, SeenCases, ChoosePasses, SendCases, ReconcileCase, EndCases
<1> QED
  BY <1>2, <1>3 DEF SNext

-----------------------------------------------------------------------------
(* The types, and what the server has accepted                             *)

LEMMA InitScanInv == SInit => KeptInv
<1> SUFFICES ASSUME SInit PROVE KeptInv
  OBVIOUS
<1>1. /\ saved = NoState /\ docs = [d \in Ids |-> NoDoc] /\ scan = [s \in Scanners |-> NoScan]
      /\ edits = 0 /\ scans = 0 /\ troubles = 0
      /\ touched = {} /\ uploaded = [d \in Ids |-> {}] /\ overlapped = FALSE /\ shared = {}
  BY DEF SInit
<1>2. 0 \in 0..MaxEdits /\ 0 \in 0..MaxScans /\ 0 \in 0..MaxTroubles
  BY ScanAssumption
<1>3. STypeOK
  BY <1>1, <1>2, RecordFacts DEF SInit, STypeOK
<1>4. /\ \A d \in Ids : docs[d] = NoDoc /\ ~docs[d].deleted /\ docs[d].missing = 0 /\ docs[d].path = 0
      /\ \A s \in Scanners : scan[s] = NoScan
      /\ \A p \in Paths : saved[p] = NoEntry /\ NoState[p] = NoEntry
  BY <1>1 DEF NoDoc, NoState
<1>5. \A s \in Scanners :
         /\ ~Visiting(s) /\ ~Running(s) /\ ~At(s, "save") /\ ~At(s, "send") /\ scan[s].todo = {}
         /\ scan[s].after = {} /\ \A p \in Paths : scan[s].old[p] = NoEntry /\ scan[s].next[p] = NoEntry
  BY <1>4, RecordFacts DEF Visiting, Running, At
<1>6. ScansFit
  BY <1>5 DEF ScansFit
<1>7. DocsFit
  BY <1>4, ScanAssumption DEF DocsFit, Exists
<1>8. EntriesAccepted
  BY <1>4, <1>5 DEF EntriesAccepted, Accepted
<1>9. Untouched
  BY <1>4, <1>5 DEF Untouched, Met, Paths
<1>10. LateScansFit
  BY <1>4 DEF LateScansFit, Exists
<1>11. AloneFit
  BY <1>5 DEF AloneFit, OneScan, MetFit, SavingFit
<1>12. KeptFit
  BY <1>4, <1>5 DEF KeptFit
<1> QED
  BY <1>3, <1>6, <1>7, <1>8, <1>9, <1>10, <1>11, <1>12 DEF KeptInv, ScanInv

LEMMA TypesKept ==
    ASSUME ScanInv, SNext
    PROVE  STypeOK'
<1>1. STypeOK
  BY DEF ScanInv
<1>2. CASE Edited
  <2>1. PICK p \in Paths, c \in Contents \cup {None} :
            disk' = [disk EXCEPT ![p] = c] /\ touched' = touched \cup {p}
    BY <1>2 DEF Edited
  <2>2. disk' \in [Paths -> Contents \cup {None}] /\ touched' \in SUBSET Paths
    BY <1>1, <2>1 DEF STypeOK
  <2> QED
    BY <1>1, <1>2, <2>2 DEF STypeOK, Edited
<1>3. ASSUME NEW s \in Scanners, Started(s) PROVE STypeOK'
  <2>1. overlapped' \in BOOLEAN
    BY <1>1, <1>3 DEF STypeOK, Started
  <2> QED
    BY <1>1, <1>3, <2>1 DEF STypeOK, Started
<1>4. ASSUME NEW s \in Scanners, NEW r, Unmoved, Passed(s, r) PROVE STypeOK'
  BY <1>1, <1>4 DEF STypeOK, Unmoved, Passed, AtFile, tallies
<1>5. ASSUME NEW s \in Scanners, NEW d, NEW row, NEW r, Unmoved, Reported(d, s, row, r) PROVE STypeOK'
  <2>1. docs' = [docs EXCEPT ![d] = row] /\ row \in DocType /\ scan' \in [Scanners -> ScanType]
        /\ uploaded' \in [Ids -> SUBSET Contents]
    BY <1>5 DEF Reported, AtFile
  <2>2. docs' \in [Ids -> DocType \cup {NoDoc}]
    BY <1>1, <2>1 DEF STypeOK
  <2> QED
    BY <1>1, <1>5, <2>1, <2>2 DEF STypeOK, Unmoved, tallies
<1>6. ASSUME NEW s \in Scanners, Reconciled(s) PROVE STypeOK'
  BY <1>1, <1>6 DEF STypeOK, Unmoved, Reconciled, tallies
<1>7. ASSUME NEW s \in Scanners, Ended(s) PROVE STypeOK'
  <2>1. scan' \in [Scanners -> ScanType]
    BY <1>1, <1>7, RecordFacts DEF STypeOK, Ended
  <2> QED
    BY <1>1, <1>7, <2>1 DEF STypeOK, Ended, tallies
<1> QED
  BY <1>2, <1>3, <1>4, <1>5, <1>6, <1>7, StepCases

\* The file at hand in a scan that is as far as it was.
LEMMA SameHere ==
    ASSUME NEW s \in Scanners, scan'[s].todo = scan[s].todo, scan'[s].old = scan[s].old
    PROVE  Here(s)' = Here(s) /\ Known(s)' = Known(s)
BY DEF Here, Known

LEMMA ScansFitKept ==
    ASSUME ScanInv, SNext
    PROVE  ScansFit'
<1>1. STypeOK /\ ScansFit /\ STypeOK'
  BY TypesKept DEF ScanInv
<1> DEFINE P(s) ==
        /\ At(s, "send") =>
              /\ scan[s].todo # {} /\ scan[s].id \in Ids /\ scan[s].content \in Contents
              /\ Known(s) # NoEntry => Known(s).id = scan[s].id
        /\ \A p \in scan[s].todo : scan[s].next[p] = NoEntry
        /\ \A p \in Paths : scan[s].old[p] # NoEntry /\ scan[s].next[p] # NoEntry =>
              scan[s].next[p].id = scan[s].old[p].id
        /\ s \notin scan[s].after
<1>2. \A s \in Scanners : P(s)
  BY <1>1 DEF ScansFit
<1>3. ASSUME NEW t \in Scanners, scan'[t].step = scan[t].step, scan'[t].old = scan[t].old,
             scan'[t].next = scan[t].next, scan'[t].todo = scan[t].todo, scan'[t].id = scan[t].id,
             scan'[t].content = scan[t].content, t \notin scan'[t].after
      PROVE  P(t)'
  BY <1>2, <1>3, SameHere DEF At
<1>4. ASSUME NEW s \in Scanners, NEW r, AtFile(s, r), NEW d \in Ids, Sends(d, s, r),
             Known(s) # NoEntry => Known(s).id = d
      PROVE  P(s)'
  BY <1>2, <1>4, SameHere DEF AtFile, Sends, At
<1>5. ASSUME NEW s \in Scanners, NEW r, AtFile(s, r), NEW e \in Entries, Enters(e, s, r),
             e # NoEntry /\ Known(s) # NoEntry => Known(s).id = e.id
      PROVE  P(s)'
  <2>1. /\ scan'[s] = r /\ r.step = "visit" /\ r.todo = scan[s].todo \ {Here(s)}
        /\ r.next = [scan[s].next EXCEPT ![Here(s)] = e] /\ r.old = scan[s].old
        /\ r.after = scan[s].after /\ Here(s) \in Paths
        /\ scan[s].next \in [Paths -> Entries] /\ scan[s].todo \subseteq Paths
    BY <1>1, <1>5 DEF AtFile, Enters, STypeOK, ScanType
  <2>2. ~At(s, "send")' /\ s \notin scan'[s].after
    BY <1>2, <2>1 DEF At
  <2>3. \A p \in scan'[s].todo : scan'[s].next[p] = NoEntry
    BY <1>2, <2>1
  <2>4. \A p \in Paths : scan'[s].old[p] # NoEntry /\ scan'[s].next[p] # NoEntry =>
              scan'[s].next[p].id = scan'[s].old[p].id
    BY <1>2, <1>5, <2>1 DEF Known
  <2> QED
    BY <2>2, <2>3, <2>4
<1> SUFFICES ASSUME NEW t \in Scanners PROVE P(t)'
  BY DEF ScansFit
<1>6. CASE Edited
  BY <1>2, <1>3, <1>6 DEF Edited
<1>7. ASSUME NEW s \in Scanners, Started(s) PROVE P(t)'
  <2>1. CASE t = s
    <3>1. \A p \in Paths : NoState[p] = NoEntry
      BY DEF NoState
    <3>2. scan'[s].step = "visit" /\ scan'[s].next = NoState /\ scan'[s].todo \subseteq Paths
          /\ s \notin scan'[s].after
      BY <1>7 DEF Started
    <3> QED
      BY <2>1, <3>1, <3>2 DEF At
  <2>2. CASE t # s
    BY <1>2, <1>3, <1>7, <2>2 DEF Started, SameBut
  <2> QED
    BY <2>1, <2>2
<1>8. ASSUME NEW s \in Scanners, NEW r, Passed(s, r) PROVE P(t)'
  <2>1. CASE t = s
    BY <1>4, <1>5, <1>8, <2>1, RecordFacts DEF Passed
  <2>2. CASE t # s
    BY <1>2, <1>3, <1>8, <2>2 DEF Passed
  <2> QED
    BY <2>1, <2>2
<1>9. ASSUME NEW s \in Scanners, NEW d, NEW row, NEW r, Reported(d, s, row, r) PROVE P(t)'
  <2>1. CASE t = s
    <3>1. CASE Sends(d, s, r)
      BY <1>4, <1>9, <2>1, <3>1 DEF Reported
    <3>2. CASE Enters(NoEntry, s, r)
      BY <1>5, <1>9, <2>1, <3>2, RecordFacts DEF Reported
    <3>3. ASSUME NEW c \in uploaded'[d], Enters([id |-> d, content |-> c], s, r) PROVE P(s)'
      <4>1. d \in Ids /\ c \in Contents /\ AtFile(s, r) /\ (Known(s) # NoEntry => Known(s).id = d)
        BY <1>1, <1>9 DEF STypeOK, Reported
      <4>2. [id |-> d, content |-> c] \in Entries /\ [id |-> d, content |-> c].id = d
        BY <4>1 DEF Entries
      <4> QED
        BY <1>5, <3>3, <4>1, <4>2
    <3> QED
      BY <1>9, <2>1, <3>1, <3>2, <3>3 DEF Reported
  <2>2. CASE t # s
    BY <1>2, <1>3, <1>9, <2>2 DEF Reported, Marked
  <2> QED
    BY <2>1, <2>2
<1>10. ASSUME NEW s \in Scanners, Reconciled(s) PROVE P(t)'
  <2>1. CASE t = s
    BY <1>2, <1>10, <2>1 DEF Reconciled, At
  <2>2. CASE t # s
    BY <1>2, <1>3, <1>10, <2>2 DEF Reconciled
  <2> QED
    BY <2>1, <2>2
<1>11. ASSUME NEW s \in Scanners, Ended(s) PROVE P(t)'
  <2>1. CASE t = s
    <3>1. \A p \in Paths : NoState[p] = NoEntry
      BY DEF NoState
    <3>2. scan'[s] = NoScan
      BY <1>1, <1>11 DEF Ended, STypeOK
    <3> QED
      BY <2>1, <3>1, <3>2, RecordFacts DEF At
  <2>2. CASE t # s
    <3>1. scan'[t] = scan[t]
      BY <1>1, <1>11, <2>2 DEF Ended, STypeOK
    <3> QED
      BY <1>2, <1>3, <3>1
  <2> QED
    BY <2>1, <2>2
<1> QED
  BY <1>6, <1>7, <1>8, <1>9, <1>10, <1>11, StepCases

LEMMA DocsFitKept ==
    ASSUME ScanInv, SNext
    PROVE  DocsFit'
<1>1. STypeOK /\ DocsFit
  BY DEF ScanInv
<1>2. docs \in [Ids -> DocType \cup {NoDoc}]
  BY <1>1 DEF STypeOK
<1>3. CASE UNCHANGED docs
  BY <1>1, <1>3 DEF DocsFit, Exists
<1>4. ASSUME NEW s \in Scanners, NEW d, NEW row, NEW r, Reported(d, s, row, r) PROVE DocsFit'
  <2>1. /\ d \in Ids /\ ~PathTaken(d, Here(s)) /\ row.path = Here(s) /\ row.missing = 0
        /\ docs'[d] = row /\ \A e \in Ids \ {d} : docs'[e] = docs[e]
    BY <1>2, <1>4 DEF Reported
  <2>2. \A e \in Ids \ {d} : docs[e].path # Here(s)
    BY <2>1 DEF PathTaken
  <2>3. \A e \in Ids : ~docs'[e].deleted => docs'[e].missing < Confirmations
    BY <1>1, <2>1, ScanAssumption DEF DocsFit
  <2>4. ASSUME NEW e \in Ids, NEW f \in Ids, docs'[e] # NoDoc, docs'[f] # NoDoc,
               docs'[e].path = docs'[f].path
        PROVE  e = f
    BY <1>1, <2>1, <2>2, <2>4 DEF DocsFit, Exists
  <2> QED
    BY <2>3, <2>4 DEF DocsFit, Exists
<1>5. ASSUME NEW s \in Scanners, Reconciled(s) PROVE DocsFit'
  <2>1. ASSUME NEW d \in Ids
        PROVE  /\ docs'[d].path = docs[d].path /\ (docs'[d] # NoDoc => Exists(d))
               /\ ~docs'[d].deleted => docs'[d].missing < Confirmations
    <3>1. CASE docs'[d] = docs[d]
      BY <1>1, <3>1 DEF DocsFit, Exists
    <3>2. CASE Counted(s, d)
      <4>1. Exists(d) /\ docs[d] \in DocType
        BY <1>2, <3>2 DEF Counted, Unreported, Exists
      <4>2. docs[d].missing \in Nat
        BY <4>1, ScanAssumption DEF DocType
      <4>3. CASE docs[d].missing + 1 >= Confirmations
        BY <3>2, <4>1, <4>3 DEF Counted
      <4>4. CASE docs[d].missing + 1 < Confirmations
        BY <3>2, <4>1, <4>4 DEF Counted
      <4> QED
        BY <4>2, <4>3, <4>4, ScanAssumption
    <3> QED
      BY <1>5, <3>1, <3>2 DEF Reconciled
  <2> QED
    BY <1>1, <2>1 DEF DocsFit, Exists
<1> QED
  BY <1>3, <1>4, <1>5, StepCases DEF Edited, Started, Passed, Ended

LEMMA EntriesAcceptedKept ==
    ASSUME ScanInv, SNext
    PROVE  EntriesAccepted'
<1>1. STypeOK /\ EntriesAccepted /\ STypeOK'
  BY TypesKept DEF ScanInv
<1>2. /\ \A p \in Paths : Accepted(saved[p])
      /\ \A t \in Scanners, p \in Paths : Accepted(scan[t].old[p]) /\ Accepted(scan[t].next[p])
  BY <1>1 DEF EntriesAccepted
<1>3. \A p \in Paths : NoState[p] = NoEntry
  BY DEF NoState
<1>4. CASE /\ UNCHANGED <<saved, uploaded>>
           /\ \A t \in Scanners : scan'[t].old = scan[t].old /\ scan'[t].next = scan[t].next
  BY <1>2, <1>4 DEF EntriesAccepted, Accepted
<1>5. ASSUME NEW s \in Scanners, Started(s) PROVE EntriesAccepted'
  BY <1>2, <1>3, <1>5 DEF EntriesAccepted, Accepted, Started, SameBut
<1>6. ASSUME NEW s \in Scanners, NEW r, Unmoved, Passed(s, r) PROVE EntriesAccepted'
  <2>1. /\ UNCHANGED <<saved, uploaded>> /\ scan'[s] = r /\ r.old = scan[s].old
        /\ \A t \in Scanners \ {s} : scan'[t] = scan[t]
    BY <1>6 DEF Passed, AtFile, Unmoved
  <2>2. \A p \in Paths : r.next[p] \in {NoEntry, scan[s].next[p]}
    BY <1>1, <1>6 DEF Passed, Sends, Enters, STypeOK, ScanType
  <2> QED
    BY <1>2, <2>1, <2>2 DEF EntriesAccepted, Accepted
<1>7. ASSUME NEW s \in Scanners, NEW d, NEW row, NEW r, Unmoved, Reported(d, s, row, r)
      PROVE  EntriesAccepted'
  <2>1. /\ saved' = saved /\ scan'[s] = r /\ r.old = scan[s].old /\ d \in Ids
        /\ \A t \in Scanners \ {s} : scan'[t].old = scan[t].old /\ scan'[t].next = scan[t].next
        /\ \A e \in Ids : uploaded[e] \subseteq uploaded'[e]
        /\ scan[s].next \in [Paths -> Entries]
    BY <1>1, <1>7 DEF Reported, AtFile, Unmoved, Marked, STypeOK, ScanType
  <2> DEFINE Now(e) == e # NoEntry => e.content \in uploaded'[e.id]
  <2>2. ASSUME NEW e \in Entries, Accepted(e) PROVE Now(e)
    BY <2>1, <2>2, RecordFacts DEF Accepted
  <2>3. ASSUME NEW p \in Paths PROVE Now(r.next[p])
    <3>1. CASE r.next[p] = NoEntry
      BY <3>1
    <3>2. CASE r.next[p] = scan[s].next[p]
      BY <1>2, <2>1, <2>2, <3>2
    <3>3. ASSUME NEW c \in uploaded'[d], r.next[p] = [id |-> d, content |-> c] PROVE Now(r.next[p])
      BY <3>3
    <3>4. \/ r.next[p] \in {NoEntry, scan[s].next[p]}
          \/ \E c \in uploaded'[d] : r.next[p] = [id |-> d, content |-> c]
      BY <1>7, <2>1 DEF Reported, Sends, Enters
    <3> QED
      BY <3>1, <3>2, <3>3, <3>4
  <2>4. \A p \in Paths : saved[p] \in Entries /\ \A t \in Scanners :
            scan[t].old[p] \in Entries /\ scan[t].next[p] \in Entries
    BY <1>1 DEF STypeOK, ScanType
  <2>5. \A p \in Paths : Now(saved'[p])
    BY <1>2, <2>1, <2>2, <2>4
  <2>6. ASSUME NEW t \in Scanners, NEW p \in Paths
        PROVE  Now(scan'[t].old[p]) /\ Now(scan'[t].next[p])
    <3>1. CASE t = s
      <4>1. scan'[t].old[p] = scan[s].old[p] /\ scan'[t].next[p] = r.next[p]
        BY <2>1, <3>1
      <4>2. Now(scan[s].old[p])
        BY <1>2, <2>2, <2>4
      <4> HIDE DEF Now
      <4> QED
        BY <2>3, <4>1, <4>2
    <3>2. CASE t # s
      <4>1. scan'[t].old[p] = scan[t].old[p] /\ scan'[t].next[p] = scan[t].next[p]
        BY <2>1, <3>2
      <4>2. Now(scan[t].old[p]) /\ Now(scan[t].next[p])
        BY <1>2, <2>2, <2>4
      <4> HIDE DEF Now
      <4> QED
        BY <4>1, <4>2
    <3> QED
      BY <3>1, <3>2
  <2> QED
    BY <2>5, <2>6 DEF EntriesAccepted, Accepted
<1>8. ASSUME NEW s \in Scanners, Reconciled(s) PROVE EntriesAccepted'
  BY <1>4, <1>8 DEF Reconciled, Unmoved
<1>9. ASSUME NEW s \in Scanners, Ended(s) PROVE EntriesAccepted'
  <2>1. uploaded' = uploaded /\ scan'[s] = NoScan /\ \A t \in Scanners \ {s} : scan'[t] = scan[t]
    BY <1>1, <1>9 DEF Ended, STypeOK
  <2>2. \A p \in Paths : saved'[p] \in {NoEntry, saved[p], scan[s].old[p], scan[s].next[p]}
    BY <1>9 DEF Ended
  <2> QED
    BY <1>2, <1>3, <2>1, <2>2, RecordFacts DEF EntriesAccepted, Accepted
<1>10. CASE Edited
  BY <1>4, <1>10 DEF Edited
<1> QED
  BY <1>5, <1>6, <1>7, <1>8, <1>9, <1>10, StepCases

LEMMA ScanInvKept == ScanInv /\ [SNext]_scanVars => ScanInv'
<1>1. ASSUME ScanInv, SNext PROVE ScanInv'
  BY <1>1, TypesKept, ScansFitKept, DocsFitKept, EntriesAcceptedKept DEF ScanInv
<1>2. ASSUME ScanInv, UNCHANGED scanVars PROVE ScanInv'
  <2>1. STypeOK' /\ DocsFit' /\ EntriesAccepted'
    BY <1>2 DEF ScanInv, scanVars, STypeOK, DocsFit, Exists, EntriesAccepted, Accepted
  <2>2. ScansFit'
    BY <1>2 DEF ScanInv, scanVars, ScansFit, At, Known, Here
  <2> QED
    BY <2>1, <2>2 DEF ScanInv
<1> QED
  BY <1>1, <1>2

\* Scan keeps every variable of the folder, the state file and the catalog in its type,
\* whatever number of scanners run at once.
THEOREM ScanTypeCorrect == SSpec => []STypeOK
<1>1. SInit => ScanInv
  BY InitScanInv DEF KeptInv
<1>2. ScanInv => STypeOK
  BY DEF ScanInv
<1> QED
  BY <1>1, <1>2, ScanInvKept, PTL DEF SSpec

\* saveState never writes an entry whose content the server has not accepted for that
\* document: /api/seen would report the file as known, and it would never be sent.
THEOREM SavedIsAcceptedHolds == SSpec => []SavedIsAccepted
<1>1. SInit => ScanInv
  BY InitScanInv DEF KeptInv
<1>2. ScanInv => SavedIsAccepted
  BY DEF ScanInv, EntriesAccepted, Accepted, SavedIsAccepted
<1> QED
  BY <1>1, <1>2, ScanInvKept, PTL DEF SSpec

-----------------------------------------------------------------------------
(* Deletions                                                               *)

LEMMA ReportedNext ==
    ASSUME STypeOK, NEW s \in Scanners, NEW d, NEW row, NEW r, Reported(d, s, row, r)
    PROVE  /\ \A p \in Paths \ {Here(s)} : r.next[p] = scan[s].next[p]
           /\ \/ Sends(d, s, r)
              \/ Enters(NoEntry, s, r) /\ ~r.complete
              \/ r.step = "visit" /\ r.next[Here(s)] # NoEntry /\ r.next[Here(s)].id = d
<1>1. scan[s].next \in [Paths -> Entries] /\ Here(s) \in Paths /\ d \in Ids
  BY DEF STypeOK, ScanType, Reported, AtFile
<1>2. CASE Sends(d, s, r)
  BY <1>2 DEF Sends
<1>3. CASE Enters(NoEntry, s, r) /\ ~r.complete
  BY <1>1, <1>3 DEF Enters
<1>4. ASSUME NEW c \in uploaded'[d], Enters([id |-> d, content |-> c], s, r)
      PROVE  /\ \A p \in Paths \ {Here(s)} : r.next[p] = scan[s].next[p]
             /\ r.step = "visit" /\ r.next[Here(s)] # NoEntry /\ r.next[Here(s)].id = d
  <2>1. r.next = [scan[s].next EXCEPT ![Here(s)] = [id |-> d, content |-> c]] /\ r.step = "visit"
    BY <1>4 DEF Enters
  <2>2. r.next[Here(s)] = [id |-> d, content |-> c] /\ \A p \in Paths \ {Here(s)} : r.next[p] = scan[s].next[p]
    BY <1>1, <2>1
  <2> QED
    BY <1>1, <2>1, <2>2, RecordFacts
<1> QED
  BY <1>2, <1>3, <1>4 DEF Reported

LEMMA UntouchedKept ==
    ASSUME ScanInv, Untouched, SNext
    PROVE  Untouched'
<1>1. STypeOK
  BY DEF ScanInv
<1>2. \A p \in Paths : NoState[p] = NoEntry
  BY DEF NoState
<1>3. CASE Edited
  <2>1. PICK q \in Paths, c \in Contents \cup {None} :
            disk' = [disk EXCEPT ![q] = c] /\ touched' = touched \cup {q}
    BY <1>3 DEF Edited
  <2>2. ASSUME NEW p \in Paths PROVE Met(p)' <=> Met(p)
    BY <1>3 DEF Edited, Met
  <2> QED
    BY <1>1, <2>1, <2>2 DEF Untouched, STypeOK
<1>4. ASSUME UNCHANGED <<disk, touched>>,
             \A p \in Paths : Met(p)' => Met(p) \/ disk[p] # None
      PROVE  Untouched'
  BY <1>4 DEF Untouched
<1>5. ASSUME NEW s \in Scanners, Started(s) PROVE Untouched'
  <2>1. ASSUME NEW p \in Paths, Met(p)' PROVE Met(p) \/ disk[p] # None
    <3>1. CASE saved'[p] # NoEntry \/ \E d \in Ids : docs'[d].path = p
      BY <1>5, <3>1 DEF Met, Started
    <3>2. ASSUME NEW t \in Scanners,
                 p \in scan'[t].todo \/ scan'[t].old[p] # NoEntry \/ scan'[t].next[p] # NoEntry
          PROVE  Met(p) \/ disk[p] # None
      BY <1>2, <1>5, <3>2 DEF Met, Started, SameBut
    <3> QED
      BY <2>1, <3>1, <3>2 DEF Met
  <2> QED
    BY <1>4, <1>5, <2>1 DEF Started
<1>6. ASSUME NEW s \in Scanners, NEW r, Unmoved, Passed(s, r) PROVE Untouched'
  <2>1. /\ UNCHANGED <<saved, docs>> /\ scan'[s] = r /\ r.old = scan[s].old
        /\ r.todo \subseteq scan[s].todo
        /\ \A t \in Scanners \ {s} : scan'[t] = scan[t]
    BY <1>6 DEF Passed, AtFile, Unmoved, Sends, Enters
  <2>2. \A p \in Paths : r.next[p] \in {NoEntry, scan[s].next[p]}
    BY <1>1, <1>6 DEF Passed, Sends, Enters, STypeOK, ScanType
  <2> QED
    BY <1>4, <1>6, <2>1, <2>2 DEF Met, Unmoved, tallies
<1>7. ASSUME NEW s \in Scanners, NEW d, NEW row, NEW r, Unmoved, Reported(d, s, row, r)
      PROVE  Untouched'
  <2>1. /\ UNCHANGED saved /\ scan'[s] = r /\ r.old = scan[s].old
        /\ r.todo \subseteq scan[s].todo /\ Here(s) \in scan[s].todo
        /\ \A t \in Scanners \ {s} : /\ scan'[t].old = scan[t].old /\ scan'[t].next = scan[t].next
                                     /\ scan'[t].todo = scan[t].todo
    BY <1>7 DEF Reported, AtFile, Unmoved, Sends, Enters, Marked
  <2>2. \A p \in Paths \ {Here(s)} : r.next[p] = scan[s].next[p]
    BY <1>1, <1>7, ReportedNext
  <2>3. \A e \in Ids : docs'[e].path \in {docs[e].path, Here(s)}
    BY <1>1, <1>7 DEF Reported, STypeOK
  <2>4. ASSUME NEW p \in Paths, Met(p)' PROVE Met(p)
    <3>1. CASE p = Here(s)
      BY <2>1, <3>1 DEF Met
    <3>2. CASE p # Here(s)
      <4>1. CASE saved'[p] # NoEntry \/ \E e \in Ids : docs'[e].path = p
        BY <2>1, <2>3, <3>2, <4>1 DEF Met
      <4>2. ASSUME NEW t \in Scanners,
                   p \in scan'[t].todo \/ scan'[t].old[p] # NoEntry \/ scan'[t].next[p] # NoEntry
            PROVE  Met(p)
        <5>1. CASE t = s
          BY <2>1, <2>2, <3>2, <4>2, <5>1 DEF Met
        <5>2. CASE t # s
          BY <2>1, <4>2, <5>2 DEF Met
        <5> QED
          BY <5>1, <5>2
      <4> QED
        BY <2>4, <4>1, <4>2 DEF Met
    <3> QED
      BY <3>1, <3>2
  <2> QED
    BY <1>4, <1>7, <2>4 DEF Unmoved, tallies
<1>8. ASSUME NEW s \in Scanners, Reconciled(s) PROVE Untouched'
  <2>1. \A e \in Ids : docs'[e].path = docs[e].path
    BY <1>8 DEF Reconciled, Counted
  <2>2. \A t \in Scanners : /\ scan'[t].old = scan[t].old /\ scan'[t].next = scan[t].next
                            /\ scan'[t].todo = scan[t].todo
    BY <1>8 DEF Reconciled
  <2> QED
    BY <1>4, <1>8, <2>1, <2>2 DEF Met, Reconciled, Unmoved, tallies
<1>9. ASSUME NEW s \in Scanners, Ended(s) PROVE Untouched'
  <2>1. docs' = docs /\ scan'[s] = NoScan /\ \A t \in Scanners \ {s} : scan'[t] = scan[t]
    BY <1>1, <1>9 DEF Ended, STypeOK
  <2>2. \A p \in Paths : saved'[p] \in {NoEntry, saved[p], scan[s].old[p], scan[s].next[p]}
    BY <1>9 DEF Ended
  <2>3. ASSUME NEW p \in Paths, Met(p)' PROVE Met(p)
    <3>1. CASE saved'[p] # NoEntry \/ \E e \in Ids : docs'[e].path = p
      BY <2>1, <2>2, <3>1 DEF Met
    <3>2. ASSUME NEW t \in Scanners,
                 p \in scan'[t].todo \/ scan'[t].old[p] # NoEntry \/ scan'[t].next[p] # NoEntry
          PROVE  Met(p)
      BY <1>2, <2>1, <3>2, RecordFacts DEF Met
    <3> QED
      BY <2>3, <3>1, <3>2 DEF Met
  <2> QED
    BY <1>4, <1>9, <2>3 DEF Ended, tallies
<1> QED
  BY <1>3, <1>5, <1>6, <1>7, <1>8, <1>9, StepCases

\* What lets a document be counted once more: the late scans are finitely many.
LEMMA FewerLate ==
    ASSUME IsFiniteSet(Scanners), NEW L \in SUBSET Scanners, NEW M \in SUBSET L
    PROVE  /\ Cardinality(L) \in Nat /\ Cardinality(M) \in Nat /\ Cardinality(Scanners) \in Nat
           /\ Cardinality(M) <= Cardinality(L) /\ Cardinality(L) <= Cardinality(Scanners)
           /\ M # L => Cardinality(M) < Cardinality(L)
<1>1. IsFiniteSet(L) /\ Cardinality(L) <= Cardinality(Scanners)
  BY FS_Subset
<1>2. IsFiniteSet(M) /\ Cardinality(M) <= Cardinality(L) /\ (Cardinality(M) = Cardinality(L) => M = L)
  BY <1>1, FS_Subset
<1>3. Cardinality(L) \in Nat /\ Cardinality(M) \in Nat /\ Cardinality(Scanners) \in Nat
  BY <1>1, <1>2, FS_CardinalityType
<1> QED
  BY <1>1, <1>2, <1>3

LEMMA LateScansFitKept ==
    ASSUME ScanInv, Untouched, LateScansFit, IsFiniteSet(Scanners), SNext
    PROVE  LateScansFit'
<1>1. STypeOK /\ ScansFit
  BY DEF ScanInv
<1> SUFFICES ASSUME NEW d \in Ids, docs'[d] # NoDoc, docs'[d].path \notin touched', ~docs'[d].deleted
             PROVE  docs'[d].missing + Cardinality(Late(d)') < Cardinality(Scanners)
  BY DEF LateScansFit, Exists
<1>2. Late(d) \in SUBSET Scanners /\ Late(d)' \in SUBSET Scanners
  BY DEF Late
<1>3. ASSUME docs'[d] = docs[d], touched \subseteq touched', Late(d)' \subseteq Late(d)
      PROVE  docs'[d].missing + Cardinality(Late(d)') < Cardinality(Scanners)
  <2>1. docs[d].missing + Cardinality(Late(d)) < Cardinality(Scanners)
    BY <1>3 DEF LateScansFit, Exists
  <2>2. docs[d].missing \in Nat
    BY <1>1, <1>3, ScanAssumption DEF STypeOK, DocType
  <2>3. /\ Cardinality(Late(d)) \in Nat /\ Cardinality(Late(d)') \in Nat
        /\ Cardinality(Scanners) \in Nat /\ Cardinality(Late(d)') <= Cardinality(Late(d))
    BY <1>2, <1>3, FewerLate
  <2> QED
    BY <1>3, <2>1, <2>2, <2>3
<1>4. CASE Edited
  <2>1. Late(d)' = Late(d) /\ docs'[d] = docs[d] /\ touched \subseteq touched'
    BY <1>4 DEF Late, Edited, Visiting
  <2> QED
    BY <1>3, <2>1
<1>5. ASSUME NEW s \in Scanners, Started(s)
      PROVE  docs'[d].missing + Cardinality(Late(d)') < Cardinality(Scanners)
  <2>1. docs'[d] = docs[d] /\ docs[d].path \in Paths /\ docs[d].path \notin touched /\ touched' = touched
    BY <1>1, <1>5 DEF Started, STypeOK, DocType
  <2>2. disk[docs[d].path] # None
    BY <2>1 DEF Untouched, Met
  <2>3. docs[d].path \in scan'[s].todo
    BY <1>5, <2>1, <2>2 DEF Started
  <2>4. Late(d)' \subseteq Late(d)
    BY <1>5, <2>1, <2>3 DEF Late, Started, SameBut, Visiting
  <2> QED
    BY <1>3, <2>1, <2>4
<1>6. ASSUME NEW s \in Scanners, NEW r, Unmoved, Passed(s, r)
      PROVE  docs'[d].missing + Cardinality(Late(d)') < Cardinality(Scanners)
  <2>1. /\ docs' = docs /\ touched' = touched /\ scan'[s] = r /\ r.behind = scan[s].behind
        /\ \A t \in Scanners \ {s} : scan'[t] = scan[t]
        /\ Visiting(s) /\ (r.complete => scan[s].complete /\ r.todo = scan[s].todo)
    BY <1>6 DEF Passed, AtFile, Unmoved, tallies, Sends
  <2>2. Late(d)' \subseteq Late(d)
    BY <2>1 DEF Late, Visiting
  <2> QED
    BY <1>3, <2>1, <2>2
<1>7. ASSUME NEW s \in Scanners, NEW f, NEW row, NEW r, Unmoved, Reported(f, s, row, r)
      PROVE  docs'[d].missing + Cardinality(Late(d)') < Cardinality(Scanners)
  <2>1. /\ f \in Ids /\ docs' = [docs EXCEPT ![f] = row] /\ row.missing = 0 /\ touched' = touched
        /\ scan'[s] = r /\ r.behind = scan[s].behind \ {f} /\ (r.complete => scan[s].complete)
        /\ Visiting(s) /\ \A t \in Scanners \ {s} : Marked(s, f, t, scan'[t])
        /\ \A e \in Ids \ {f} : docs[e].path # Here(s)
    BY <1>7 DEF Reported, AtFile, Unmoved, tallies, PathTaken
  <2>2. docs'[f] = row /\ \A e \in Ids \ {f} : docs'[e] = docs[e]
    BY <1>1, <2>1 DEF STypeOK
  <2>3. CASE d = f
    <3>1. s \notin Late(d)'
      BY <2>1, <2>3 DEF Late
    <3>2. Late(d)' # Scanners
      BY <3>1
    <3>3. /\ Cardinality(Late(d)') < Cardinality(Scanners) /\ Cardinality(Late(d)') \in Nat
      BY <1>2, <3>2, FewerLate
    <3> QED
      BY <2>1, <2>2, <2>3, <3>3
  <2>4. CASE d # f
    <3>1. docs'[d] = docs[d] /\ docs[d].path # Here(s)
      BY <2>1, <2>2, <2>4
    <3>2. r.todo \in {scan[s].todo, scan[s].todo \ {Here(s)}}
      BY <1>7 DEF Reported, Sends, Enters
    <3>3. Late(d)' \subseteq Late(d)
      <4>1. ASSUME NEW t \in Late(d)' PROVE t \in Late(d)
        <5>1. CASE t = s
          BY <2>1, <3>1, <3>2, <4>1, <5>1 DEF Late
        <5>2. CASE t # s
          <6>1. /\ t \in Scanners /\ scan'[t].step \in {"visit", "send"} /\ scan'[t].complete
                /\ docs[d].path \notin scan'[t].todo /\ d \in scan'[t].behind
            BY <3>1, <4>1 DEF Late, Visiting
          <6>2. Marked(s, f, t, scan'[t])
            BY <2>1, <5>2, <6>1
          <6> QED
            BY <2>4, <6>1, <6>2 DEF Late, Visiting, Marked
        <5> QED
          BY <5>1, <5>2
      <4> QED
        BY <4>1
    <3> QED
      BY <1>3, <2>1, <3>1, <3>3
  <2> QED
    BY <2>3, <2>4
<1>8. ASSUME NEW s \in Scanners, Reconciled(s)
      PROVE  docs'[d].missing + Cardinality(Late(d)') < Cardinality(Scanners)
  <2>1. /\ touched' = touched /\ \A t \in Scanners \ {s} : scan'[t] = scan[t]
        /\ scan'[s].step = "save" /\ At(s, "visit") /\ scan[s].todo = {}
        /\ docs'[d].path = docs[d].path
    BY <1>8 DEF Reconciled, Unmoved, tallies, Counted
  <2>2. Late(d)' \subseteq Late(d) /\ s \notin Late(d)'
    BY <2>1 DEF Late, Visiting
  <2>3. CASE docs'[d] = docs[d]
    BY <1>3, <2>1, <2>2, <2>3
  <2>4. CASE Counted(s, d)
    <3>1. /\ Exists(d) /\ ~docs[d].deleted /\ s \in Late(d) /\ docs[d].path \notin touched
      BY <2>1, <2>4 DEF Counted, Unreported, Late, Visiting, At
    <3>2. docs[d].missing + Cardinality(Late(d)) < Cardinality(Scanners)
      BY <3>1 DEF LateScansFit
    <3>3. Cardinality(Late(d)') < Cardinality(Late(d)) /\ Cardinality(Late(d)') \in Nat
          /\ Cardinality(Late(d)) \in Nat /\ Cardinality(Scanners) \in Nat
      BY <1>2, <2>2, <3>1, FewerLate
    <3>4. docs'[d].missing = docs[d].missing + 1 /\ docs[d].missing \in Nat
      BY <1>1, <2>4, <3>1, ScanAssumption DEF Counted, STypeOK, DocType, Exists
    <3> QED
      BY <3>2, <3>3, <3>4
  <2> QED
    BY <1>8, <2>3, <2>4 DEF Reconciled
<1>9. ASSUME NEW s \in Scanners, Ended(s)
      PROVE  docs'[d].missing + Cardinality(Late(d)') < Cardinality(Scanners)
  <2>1. /\ docs' = docs /\ touched' = touched /\ scan'[s] = NoScan
        /\ \A t \in Scanners \ {s} : scan'[t] = scan[t]
    BY <1>1, <1>9 DEF Ended, STypeOK, tallies
  <2>2. Late(d)' \subseteq Late(d)
    BY <2>1, RecordFacts DEF Late, Visiting
  <2> QED
    BY <1>3, <2>1, <2>2
<1> QED
  BY <1>4, <1>5, <1>6, <1>7, <1>8, <1>9, StepCases

\* So a reconciliation does not delete the document of a file that was never touched.
LEMMA CountedIsKept ==
    ASSUME STypeOK, LateScansFit, IsFiniteSet(Scanners), Cardinality(Scanners) <= Confirmations,
           NEW s \in Scanners, Reconciled(s), NEW d \in Ids, Counted(s, d), docs[d].path \notin touched
    PROVE  ~docs'[d].deleted
<1>1. /\ Exists(d) /\ ~docs[d].deleted /\ s \in Late(d)
  BY DEF Counted, Unreported, Late, Visiting, At, Reconciled
<1>2. docs[d].missing + Cardinality(Late(d)) < Cardinality(Scanners)
  BY <1>1 DEF LateScansFit
<1>3. Late(d) \ {s} \in SUBSET Late(d) /\ Late(d) \in SUBSET Scanners /\ Late(d) \ {s} # Late(d)
  BY <1>1 DEF Late
<1>4. Cardinality(Late(d)) \in Nat /\ Cardinality(Late(d) \ {s}) \in Nat
      /\ Cardinality(Late(d) \ {s}) < Cardinality(Late(d)) /\ Cardinality(Scanners) \in Nat
  BY <1>3, FewerLate
<1>5. docs[d].missing \in Nat /\ Confirmations \in Nat
  BY <1>1, ScanAssumption DEF STypeOK, DocType, Exists
<1>6. ~(docs[d].missing + 1 >= Confirmations)
  BY <1>2, <1>4, <1>5
<1> QED
  BY <1>6 DEF Counted

-----------------------------------------------------------------------------
(* A scan that runs alone                                                  *)

LEMMA OneScanKept ==
    ASSUME ScanInv, OneScan, SNext
    PROVE  OneScan'
<1>1. STypeOK
  BY DEF ScanInv
<1> SUFFICES ASSUME ~overlapped'
             PROVE  /\ \A t, u \in Scanners : Running(t)' /\ Running(u)' => t = u
                    /\ \A t \in Scanners : Running(t)' => scan'[t].old = saved'
  BY DEF OneScan
<1>2. ASSUME UNCHANGED <<saved, overlapped>>,
             \A t \in Scanners : (Running(t)' => Running(t)) /\ scan'[t].old = scan[t].old
      PROVE  /\ \A t, u \in Scanners : Running(t)' /\ Running(u)' => t = u
             /\ \A t \in Scanners : Running(t)' => scan'[t].old = saved'
  BY <1>2 DEF OneScan
<1>3. CASE Edited
  BY <1>2, <1>3 DEF Edited, Running, At
<1>4. ASSUME NEW s \in Scanners, Started(s)
      PROVE  /\ \A t, u \in Scanners : Running(t)' /\ Running(u)' => t = u
             /\ \A t \in Scanners : Running(t)' => scan'[t].old = saved'
  <2>1. \A t \in Scanners : ~Running(t)
    BY <1>4 DEF Started
  <2>2. \A t \in Scanners \ {s} : ~Running(t)'
    BY <1>4, <2>1 DEF Started, SameBut, Running, At
  <2> QED
    BY <1>4, <2>2 DEF Started
<1>5. ASSUME NEW s \in Scanners, NEW r, Unmoved, Passed(s, r)
      PROVE  /\ \A t, u \in Scanners : Running(t)' /\ Running(u)' => t = u
             /\ \A t \in Scanners : Running(t)' => scan'[t].old = saved'
  BY <1>2, <1>5 DEF Passed, AtFile, Unmoved, tallies, Running, At, Visiting
<1>6. ASSUME NEW s \in Scanners, NEW d, NEW row, NEW r, Unmoved, Reported(d, s, row, r)
      PROVE  /\ \A t, u \in Scanners : Running(t)' /\ Running(u)' => t = u
             /\ \A t \in Scanners : Running(t)' => scan'[t].old = saved'
  BY <1>2, <1>6 DEF Reported, AtFile, Unmoved, tallies, Running, At, Visiting, Marked
<1>7. ASSUME NEW s \in Scanners, Reconciled(s)
      PROVE  /\ \A t, u \in Scanners : Running(t)' /\ Running(u)' => t = u
             /\ \A t \in Scanners : Running(t)' => scan'[t].old = saved'
  BY <1>2, <1>7 DEF Reconciled, Unmoved, tallies, Running, At
<1>8. ASSUME NEW s \in Scanners, Ended(s)
      PROVE  /\ \A t, u \in Scanners : Running(t)' /\ Running(u)' => t = u
             /\ \A t \in Scanners : Running(t)' => scan'[t].old = saved'
  <2>1. /\ ~overlapped /\ Running(s) /\ scan'[s] = NoScan /\ \A t \in Scanners \ {s} : scan'[t] = scan[t]
    BY <1>1, <1>8 DEF Ended, tallies, STypeOK
  <2>2. \A t \in Scanners \ {s} : ~Running(t)
    BY <2>1 DEF OneScan
  <2>3. \A t \in Scanners : ~Running(t)'
    BY <2>1, <2>2, RecordFacts DEF Running, At
  <2> QED
    BY <2>3
<1> QED
  BY <1>3, <1>4, <1>5, <1>6, <1>7, <1>8, StepCases

\* When scan s runs alone and moves on, no other is under way.
LEMMA OthersAreNot ==
    ASSUME OneScan, ~overlapped, NEW s \in Scanners, Running(s),
           \A t \in Scanners \ {s} : scan'[t].step = scan[t].step
    PROVE  \A t \in Scanners \ {s} : ~Running(t)' /\ ~Visiting(t)' /\ ~At(t, "save")'
BY DEF OneScan, Running, At, Visiting

LEMMA MetFitKept ==
    ASSUME ScanInv, OneScan, MetFit, SNext
    PROVE  MetFit'
<1>1. STypeOK /\ ScansFit
  BY DEF ScanInv
<1> DEFINE P(s) ==
        Visiting(s) =>
            /\ \A d \in Ids : Exists(d) /\ d \notin scan[s].behind => docs[d].missing = 0
            /\ scan[s].complete =>
                  /\ \A d \in Ids : Exists(d) /\ d \notin scan[s].behind =>
                        \/ \E p \in Paths : scan[s].next[p].id = d
                        \/ At(s, "send") /\ scan[s].id = d
                  /\ \A p \in Paths : scan[s].next[p] # NoEntry =>
                        Exists(scan[s].next[p].id) /\ scan[s].next[p].id \notin scan[s].behind
<1> SUFFICES ASSUME ~overlapped', NEW t \in Scanners PROVE P(t)'
  BY DEF MetFit
<1>2. ~overlapped => \A s \in Scanners : P(s)
  BY DEF MetFit
<1>3. CASE Edited
  BY <1>2, <1>3 DEF Edited, Visiting, At, Exists
<1>4. ASSUME NEW s \in Scanners, Started(s) PROVE P(t)'
  <2>1. CASE t = s
    <3>1. \A p \in Paths : NoState[p] = NoEntry
      BY DEF NoState
    <3> QED
      BY <1>4, <2>1, <3>1 DEF Started
  <2>2. CASE t # s
    BY <1>4, <2>2 DEF Started, SameBut, Visiting, Running, At
  <2> QED
    BY <2>1, <2>2
<1>5. ASSUME NEW s \in Scanners, NEW r, Unmoved, Passed(s, r) PROVE P(t)'
  <2>1. /\ ~overlapped /\ Visiting(s) /\ Running(s) /\ docs' = docs
        /\ scan'[s] = r /\ r.behind = scan[s].behind
        /\ \A u \in Scanners \ {s} : scan'[u] = scan[u]
        /\ r.complete => scan[s].complete /\ At(s, "visit") /\ r.next = scan[s].next
    BY <1>5 DEF Passed, AtFile, Unmoved, tallies, Visiting, Running, At, Sends
  <2>2. CASE t = s
    BY <1>2, <2>1, <2>2 DEF Exists, At
  <2>3. CASE t # s
    BY <2>1, <2>3, OthersAreNot
  <2> QED
    BY <2>2, <2>3
<1>6. ASSUME NEW s \in Scanners, NEW d, NEW row, NEW r, Unmoved, Reported(d, s, row, r)
      PROVE  P(t)'
  <2>1. /\ ~overlapped /\ Visiting(s) /\ Running(s) /\ d \in Ids /\ row # NoDoc /\ row.missing = 0
        /\ scan'[s] = r /\ r.behind = scan[s].behind \ {d}
        /\ \A u \in Scanners \ {s} : scan'[u].step = scan[u].step
        /\ r.complete => scan[s].complete
        /\ Here(s) \in Paths /\ scan[s].next[Here(s)] = NoEntry
        /\ At(s, "send") => scan[s].id = d
    <3>1. /\ AtFile(s, r) /\ d \in Ids /\ row \in DocType /\ row.missing = 0
          /\ r.behind = scan[s].behind \ {d} /\ (At(s, "send") => scan[s].id = d)
          /\ \A u \in Scanners \ {s} : Marked(s, d, u, scan'[u])
      BY <1>6 DEF Reported
    <3>2. row # NoDoc /\ \A u \in Scanners \ {s} : scan'[u].step = scan[u].step
      BY <3>1, RecordFacts DEF Marked
    <3>3. ~overlapped /\ Visiting(s) /\ Running(s)
      BY <1>6, <3>1 DEF AtFile, Unmoved, tallies, Visiting, Running, At
    <3>4. scan'[s] = r /\ (r.complete => scan[s].complete) /\ Here(s) \in Paths
          /\ Here(s) \in scan[s].todo
      BY <3>1 DEF AtFile
    <3>5. scan[s].next[Here(s)] = NoEntry
      BY <1>1, <3>4 DEF ScansFit
    <3> QED
      BY <3>1, <3>2, <3>3, <3>4, <3>5
  <2>2. docs'[d] = row /\ \A e \in Ids \ {d} : docs'[e] = docs[e]
    BY <1>1, <1>6 DEF Reported, STypeOK
  <2>3. /\ \A p \in Paths \ {Here(s)} : r.next[p] = scan[s].next[p]
        /\ r.complete =>
              \/ r.next = scan[s].next /\ r.step = "send" /\ r.id = d
              \/ r.next[Here(s)] # NoEntry /\ r.next[Here(s)].id = d
    BY <1>1, <1>6, ReportedNext DEF Sends
  <2>4. \A e \in Ids : docs'[e] # NoDoc /\ e \notin r.behind => docs'[e].missing = 0
    BY <1>2, <2>1, <2>2 DEF Exists
  <2>5. ASSUME r.complete, NEW e \in Ids, docs'[e] # NoDoc, e \notin r.behind
        PROVE  (\E p \in Paths : r.next[p].id = e) \/ (r.step = "send" /\ r.id = e)
    <3>1. CASE e = d
      BY <2>1, <2>3, <2>5, <3>1
    <3>2. CASE e # d
      <4>1. PICK p \in Paths : scan[s].next[p].id = e
        BY <1>2, <2>1, <2>2, <2>5, <3>2 DEF Exists
      <4>2. p # Here(s)
        BY <2>1, <4>1, RecordFacts
      <4> QED
        BY <2>3, <4>1, <4>2
    <3> QED
      BY <3>1, <3>2
  <2>6. ASSUME r.complete, NEW p \in Paths, r.next[p] # NoEntry
        PROVE  docs'[r.next[p].id] # NoDoc /\ r.next[p].id \notin r.behind
    <3>1. CASE p = Here(s)
      BY <2>1, <2>2, <2>3, <2>6, <3>1
    <3>2. CASE p # Here(s)
      <4>1. r.next[p] = scan[s].next[p] /\ scan[s].next[p] \in Entries
        BY <1>1, <2>3, <3>2 DEF STypeOK, ScanType
      <4>2. r.next[p].id \in Ids /\ docs[r.next[p].id] # NoDoc /\ r.next[p].id \notin scan[s].behind
        BY <1>2, <2>1, <2>6, <4>1, RecordFacts DEF Exists
      <4> QED
        BY <2>1, <2>2, <4>2
    <3> QED
      BY <3>1, <3>2
  <2>7. CASE t = s
    BY <2>1, <2>4, <2>5, <2>6, <2>7 DEF Exists, At
  <2>8. CASE t # s
    BY <2>1, <2>8, OthersAreNot
  <2> QED
    BY <2>7, <2>8
<1>7. ASSUME NEW s \in Scanners, Reconciled(s) \/ Ended(s) PROVE P(t)'
  <2>1. /\ ~overlapped /\ Running(s) /\ ~Visiting(s)'
        /\ \A u \in Scanners \ {s} : scan'[u].step = scan[u].step
    BY <1>1, <1>7, RecordFacts DEF Reconciled, Ended, Unmoved, tallies, Visiting, Running, At, STypeOK
  <2> QED
    BY <2>1, OthersAreNot
<1> QED
  BY <1>3, <1>4, <1>5, <1>6, <1>7, StepCases

LEMMA SavingFitKept ==
    ASSUME ScanInv, OneScan, MetFit, SavingFit, SNext
    PROVE  SavingFit'
<1>1. STypeOK
  BY DEF ScanInv
<1> DEFINE P(s) ==
        At(s, "save") /\ scan[s].complete =>
            /\ \A d \in Ids : Exists(d) /\ ~docs[d].deleted =>
                  (docs[d].missing = 0 <=> \E p \in Paths : scan[s].next[p].id = d)
            /\ \A p \in Paths : scan[s].next[p] # NoEntry => Exists(scan[s].next[p].id)
<1> SUFFICES ASSUME ~overlapped', NEW t \in Scanners PROVE P(t)'
  BY DEF SavingFit
<1>2. ~overlapped => \A s \in Scanners : P(s)
  BY DEF SavingFit
<1>3. CASE Edited
  BY <1>2, <1>3 DEF Edited, At, Exists
<1>4. ASSUME NEW s \in Scanners, Started(s) PROVE P(t)'
  BY <1>4 DEF Started, SameBut, Running, At
<1>5. ASSUME NEW s \in Scanners, Unmoved,
             (\E r : Passed(s, r)) \/ (\E d, row, r : Reported(d, s, row, r))
      PROVE  P(t)'
  <2>1. PICK r : AtFile(s, r) /\ r.step \in {"visit", "send"}
                 /\ \A u \in Scanners \ {s} : scan'[u].step = scan[u].step
    BY <1>5 DEF Passed, Reported, Sends, Enters, Marked
  <2>2. ~overlapped /\ Running(s) /\ scan'[s].step \in {"visit", "send"}
    BY <1>5, <2>1 DEF AtFile, Unmoved, tallies, Visiting, Running, At
  <2> QED
    BY <2>1, <2>2, OthersAreNot DEF At
<1>6. ASSUME NEW s \in Scanners, Reconciled(s) PROVE P(t)'
  <2>1. /\ ~overlapped /\ Running(s) /\ Visiting(s) /\ ~At(s, "send")
        /\ \A u \in Scanners \ {s} : scan'[u].step = scan[u].step
        /\ scan'[s].next = scan[s].next /\ (scan'[s].complete => scan[s].complete)
    BY <1>6 DEF Reconciled, Unmoved, tallies, Visiting, Running, At
  <2>2. CASE t # s
    BY <2>1, <2>2, OthersAreNot
  <2>3. CASE t = s
    <3> SUFFICES ASSUME scan'[s].complete
                 PROVE  /\ \A d \in Ids : docs'[d] # NoDoc /\ ~docs'[d].deleted =>
                              (docs'[d].missing = 0 <=> \E p \in Paths : scan[s].next[p].id = d)
                        /\ \A p \in Paths : scan[s].next[p] # NoEntry => docs'[scan[s].next[p].id] # NoDoc
      BY <2>1, <2>3 DEF Exists
    <3>1. \A d \in Ids : Counted(s, d) \/ docs'[d] = docs[d]
      BY <1>6 DEF Reconciled
    <3>2. \A p \in Paths : scan[s].next[p] # NoEntry =>
             Exists(scan[s].next[p].id) /\ scan[s].next[p].id \notin scan[s].behind
      BY <1>2, <2>1 DEF MetFit
    <3>3. ASSUME NEW p \in Paths, scan[s].next[p] # NoEntry PROVE docs'[scan[s].next[p].id] # NoDoc
      <4>1. scan[s].next[p].id \in Ids
        BY <1>1, <3>3, RecordFacts DEF STypeOK, ScanType
      <4> QED
        BY <3>1, <3>2, <3>3, <4>1, RecordFacts DEF Exists, Counted
    <3>4. ASSUME NEW d \in Ids, docs'[d] # NoDoc, ~docs'[d].deleted
          PROVE  docs'[d].missing = 0 <=> \E p \in Paths : scan[s].next[p].id = d
      <4>1. CASE d \in scan[s].behind
        <5>1. Counted(s, d)
          <6>1. docs'[d] = docs[d] => d \in Unreported(s)
            BY <3>4, <4>1 DEF Unreported, Exists
          <6> QED
            BY <1>6, <3>1, <6>1 DEF Reconciled
        <5>2. docs'[d].missing # 0
          <6>1. docs[d].missing \in Nat
            BY <1>1, <5>1, ScanAssumption DEF Counted, Unreported, Exists, STypeOK, DocType
          <6> QED
            BY <5>1, <6>1 DEF Counted
        <5>3. ~\E p \in Paths : scan[s].next[p].id = d
          BY <3>2, <4>1, RecordFacts
        <5> QED
          BY <5>2, <5>3
      <4>2. CASE d \notin scan[s].behind
        <5>1. docs'[d] = docs[d]
          BY <3>1, <4>2 DEF Counted, Unreported
        <5>2. docs[d].missing = 0 /\ \E p \in Paths : scan[s].next[p].id = d
          BY <2>1, <3>4, <4>2, <5>1 DEF MetFit, Exists
        <5> QED
          BY <5>1, <5>2
      <4> QED
        BY <4>1, <4>2
    <3> QED
      BY <3>3, <3>4
  <2> QED
    BY <2>2, <2>3
<1>7. ASSUME NEW s \in Scanners, Ended(s) PROVE P(t)'
  <2>1. /\ ~overlapped /\ Running(s) /\ ~At(s, "save")'
        /\ \A u \in Scanners \ {s} : scan'[u].step = scan[u].step
    BY <1>1, <1>7, RecordFacts DEF Ended, tallies, At, STypeOK
  <2> QED
    BY <2>1, OthersAreNot
<1> QED
  BY <1>3, <1>4, <1>5, <1>6, <1>7, StepCases

LEMMA KnownAreMet ==
    ASSUME ScanInv, Untouched, KeptFit, SNext,
           NEW t \in Scanners, Visiting(t)', scan'[t].complete,
           NEW p \in Paths, p \notin touched', p \notin scan'[t].todo, scan'[t].old[p] # NoEntry
    PROVE  scan'[t].next[p] # NoEntry
<1>1. STypeOK /\ p \in Paths
  BY DEF ScanInv
<1>2. ASSUME Visiting(t), scan[t].complete, scan[t].old[p] # NoEntry, p \notin scan[t].todo, p \notin touched
      PROVE  scan[t].next[p] # NoEntry
  BY <1>2 DEF KeptFit
<1>3. CASE Edited
  BY <1>2, <1>3 DEF Edited, Visiting
<1>4. ASSUME NEW s \in Scanners, Started(s) PROVE scan'[t].next[p] # NoEntry
  <2>1. CASE t = s
    <3>1. saved[p] # NoEntry /\ p \notin touched
      BY <1>4, <2>1 DEF Started
    <3>2. disk[p] # None
      BY <3>1 DEF Untouched, Met
    <3> QED
      BY <1>4, <2>1, <3>2 DEF Started
  <2>2. CASE t # s
    BY <1>2, <1>4, <2>2 DEF Started, SameBut, Visiting
  <2> QED
    BY <2>1, <2>2
<1>5. ASSUME NEW s \in Scanners, NEW r, Unmoved, Passed(s, r) PROVE scan'[t].next[p] # NoEntry
  <2>1. CASE t = s
    BY <1>2, <1>5, <2>1 DEF Passed, AtFile, Sends, Unmoved, tallies
  <2>2. CASE t # s
    BY <1>2, <1>5, <2>2 DEF Passed, Visiting, Unmoved, tallies
  <2> QED
    BY <2>1, <2>2
<1>6. ASSUME NEW s \in Scanners, NEW d, NEW row, NEW r, Unmoved, Reported(d, s, row, r)
      PROVE  scan'[t].next[p] # NoEntry
  <2>1. touched' = touched
    BY <1>6 DEF Unmoved, tallies
  <2>2. CASE t = s
    <3>1. /\ scan'[s] = r /\ r.old = scan[s].old /\ (r.complete => scan[s].complete) /\ Visiting(s)
          /\ r.todo \in {scan[s].todo, scan[s].todo \ {Here(s)}}
      BY <1>6 DEF Reported, AtFile, Sends, Enters
    <3>2. /\ \A q \in Paths \ {Here(s)} : r.next[q] = scan[s].next[q]
          /\ \/ r.todo = scan[s].todo /\ r.next = scan[s].next
             \/ r.next[Here(s)] # NoEntry
      BY <1>1, <1>6, <2>2, <3>1, ReportedNext DEF Sends
    <3> QED
      BY <1>2, <2>1, <2>2, <3>1, <3>2
  <2>3. CASE t # s
    BY <1>2, <1>6, <2>1, <2>3 DEF Reported, Marked, Visiting
  <2> QED
    BY <2>2, <2>3
<1>7. ASSUME NEW s \in Scanners, Reconciled(s) PROVE scan'[t].next[p] # NoEntry
  <2>1. t # s
    BY <1>7 DEF Reconciled, Visiting
  <2> QED
    BY <1>2, <1>7, <2>1 DEF Reconciled, Visiting, Unmoved, tallies
<1>8. ASSUME NEW s \in Scanners, Ended(s) PROVE scan'[t].next[p] # NoEntry
  <2>1. t # s /\ scan'[t] = scan[t]
    BY <1>1, <1>8, RecordFacts DEF Ended, Visiting, STypeOK
  <2> QED
    BY <1>2, <1>8, <2>1 DEF Ended, Visiting, tallies
<1> QED
  BY <1>3, <1>4, <1>5, <1>6, <1>7, <1>8, StepCases

\* The documents of the files that were never touched, after a step of scans that run alone.
KeptAlone ==
    /\ \A p \in Paths \ touched :
          /\ saved[p] # NoEntry => Kept(saved[p].id)
          /\ \A s \in Scanners : Running(s) /\ scan[s].next[p] # NoEntry => Kept(scan[s].next[p].id)
    /\ \A d \in Ids : docs[d].deleted => docs[d].path \in touched

LEMMA KeptAloneKept ==
    ASSUME KeptInv, IsFiniteSet(Scanners), Cardinality(Scanners) <= Confirmations, SNext,
           ~overlapped'
    PROVE  KeptAlone'
<1>1. STypeOK /\ ScansFit /\ LateScansFit /\ OneScan /\ MetFit /\ KeptFit /\ (~overlapped => KeptAlone)
  BY DEF KeptInv, ScanInv, AloneFit, KeptFit, KeptAlone
<1>2. \A p \in Paths : NoState[p] = NoEntry
  BY DEF NoState
<1>3. CASE Edited
  <2>1. touched \subseteq touched'
    BY <1>3 DEF Edited
  <2> QED
    BY <1>1, <1>3, <2>1 DEF Edited, KeptAlone, Kept, Exists, Running, At
<1>4. ASSUME NEW s \in Scanners, Started(s) PROVE KeptAlone'
  <2>1. ~overlapped /\ \A t \in Scanners : ~Running(t)
    BY <1>4 DEF Started
  <2>2. \A t \in Scanners \ {s} : ~Running(t)'
    BY <1>4, <2>1 DEF Started, SameBut, Running, At
  <2> QED
    BY <1>1, <1>2, <1>4, <2>1, <2>2 DEF Started, KeptAlone, Kept, Exists
<1>5. ASSUME NEW s \in Scanners, NEW r, Unmoved, Passed(s, r) PROVE KeptAlone'
  <2>1. /\ ~overlapped /\ UNCHANGED <<saved, docs, touched>> /\ scan'[s] = r /\ Running(s)
        /\ \A t \in Scanners \ {s} : scan'[t] = scan[t]
    BY <1>5 DEF Passed, AtFile, Unmoved, tallies, Running, Visiting, At
  <2>2. \A p \in Paths : r.next[p] \in {NoEntry, scan[s].next[p]}
    BY <1>1, <1>5 DEF Passed, Sends, Enters, STypeOK, ScanType
  <2> QED
    BY <1>1, <2>1, <2>2 DEF KeptAlone, Kept, Exists, Running, At
<1>6. ASSUME NEW s \in Scanners, NEW d, NEW row, NEW r, Unmoved, Reported(d, s, row, r)
      PROVE  KeptAlone'
  <2>1. /\ ~overlapped /\ UNCHANGED <<saved, touched>> /\ scan'[s] = r /\ Running(s)
        /\ \A t \in Scanners \ {s} : scan'[t].next = scan[t].next /\ scan'[t].step = scan[t].step
    BY <1>6 DEF Reported, AtFile, Unmoved, tallies, Running, Visiting, At, Marked
  <2>2. /\ d \in Ids /\ row # NoDoc /\ row.missing = 0 /\ row.path = Here(s) /\ Here(s) \in Paths
        /\ row.deleted => docs[d].deleted /\ Known(s) # NoEntry /\ Known(s).id = d
    BY <1>6, RecordFacts DEF Reported, AtFile
  <2>3. docs'[d] = row /\ \A e \in Ids \ {d} : docs'[e] = docs[e]
    BY <1>1, <1>6 DEF Reported, STypeOK
  <2>4. scan[s].old = saved /\ \A t \in Scanners \ {s} : ~Running(t)
    BY <1>1, <2>1 DEF OneScan
  <2>5. row.deleted => Here(s) \in touched
    <3> SUFFICES ASSUME row.deleted, Here(s) \notin touched PROVE FALSE
      OBVIOUS
    <3>1. saved[Here(s)] # NoEntry /\ saved[Here(s)].id = d
      BY <2>2, <2>4 DEF Known
    <3>2. Kept(d)
      BY <1>1, <2>1, <2>2, <3>1 DEF KeptAlone
    <3> QED
      BY <2>2, <3>2 DEF Kept
  <2> DEFINE Now(e) == docs'[e] # NoDoc /\ ~docs'[e].deleted /\ docs'[e].missing = 0
  <2>6. ASSUME NEW e \in Ids, Kept(e) PROVE Now(e)
    BY <2>2, <2>3, <2>6 DEF Kept, Exists
  <2>7. \A e \in Ids : docs'[e].deleted => docs'[e].path \in touched
    BY <1>1, <2>1, <2>2, <2>3, <2>5 DEF KeptAlone
  <2>8. ASSUME NEW p \in Paths \ touched, saved[p] # NoEntry PROVE Now(saved[p].id)
    <3>1. saved[p].id \in Ids
      BY <1>1, <2>8, RecordFacts DEF STypeOK
    <3>2. Kept(saved[p].id)
      BY <1>1, <2>1, <2>8 DEF KeptAlone
    <3> HIDE DEF Now
    <3> QED
      BY <2>6, <3>1, <3>2
  <2>9. ASSUME NEW p \in Paths \ touched, r.next[p] # NoEntry PROVE Now(r.next[p].id)
    <3>1. \/ r.next[p] = scan[s].next[p]
          \/ p = Here(s) /\ r.next[p].id = d
      <4>1. scan[s].next \in [Paths -> Entries]
        BY <1>1 DEF STypeOK, ScanType
      <4>2. CASE p # Here(s)
        BY <1>1, <1>6, <4>2, ReportedNext
      <4>3. CASE p = Here(s)
        BY <1>1, <1>6, <2>2, <2>9, <4>1, <4>3, ReportedNext DEF Sends, Enters
      <4> QED
        BY <4>2, <4>3
    <3>2. CASE r.next[p] = scan[s].next[p]
      <4>1. scan[s].next[p].id \in Ids /\ Kept(scan[s].next[p].id)
        BY <1>1, <2>1, <2>9, <3>2, RecordFacts DEF KeptAlone, STypeOK, ScanType
      <4> HIDE DEF Now
      <4> QED
        BY <2>6, <3>2, <4>1
    <3>3. CASE p = Here(s) /\ r.next[p].id = d
      BY <2>2, <2>3, <2>5, <2>9, <3>3
    <3> QED
      BY <3>1, <3>2, <3>3
  <2>10. ASSUME NEW p \in Paths \ touched
         PROVE  /\ saved'[p] # NoEntry => Now(saved'[p].id)
                /\ \A t \in Scanners : Running(t)' /\ scan'[t].next[p] # NoEntry => Now(scan'[t].next[p].id)
    <3> HIDE DEF Now
    <3>1. \A t \in Scanners \ {s} : ~Running(t)'
      BY <2>1, <2>4 DEF Running, At
    <3> QED
      BY <2>1, <2>8, <2>9, <3>1
  <2> QED
    BY <2>1, <2>7, <2>10 DEF KeptAlone, Kept, Exists
<1>7. ASSUME NEW s \in Scanners, Reconciled(s) PROVE KeptAlone'
  <2>1. /\ ~overlapped /\ UNCHANGED <<saved, touched>> /\ Visiting(s) /\ Running(s) /\ scan[s].todo = {}
        /\ \A t \in Scanners : scan'[t].next = scan[t].next /\ (Running(t)' => Running(t))
    BY <1>7 DEF Reconciled, Unmoved, tallies, Visiting, Running, At
  <2>2. \A d \in Ids : docs'[d].path = docs[d].path
    BY <1>7 DEF Reconciled, Counted
  <2>3. scan[s].old = saved /\ \A t \in Scanners \ {s} : ~Running(t)
    BY <1>1, <2>1 DEF OneScan
  <2>4. \A d \in Ids : docs'[d].deleted => docs'[d].path \in touched
    <3> SUFFICES ASSUME NEW d \in Ids, docs'[d].deleted, docs'[d].path \notin touched PROVE FALSE
      OBVIOUS
    <3>1. CASE docs'[d] = docs[d]
      BY <1>1, <2>1, <3>1 DEF KeptAlone
    <3>2. CASE Counted(s, d)
      BY <1>1, <1>7, <2>2, <3>2, CountedIsKept
    <3> QED
      BY <1>7, <3>1, <3>2 DEF Reconciled
  <2>5. ASSUME NEW p \in Paths, scan[s].next[p] # NoEntry
        PROVE  docs'[scan[s].next[p].id] = docs[scan[s].next[p].id]
    <3>1. scan[s].next[p].id \in Ids
      BY <1>1, <2>5, RecordFacts DEF STypeOK, ScanType
    <3>2. scan[s].complete => scan[s].next[p].id \notin scan[s].behind
      BY <1>1, <2>1, <2>5 DEF MetFit
    <3> QED
      BY <1>7, <3>1, <3>2 DEF Reconciled, Counted, Unreported
  <2>6. ASSUME NEW p \in Paths \ touched, saved[p] # NoEntry
        PROVE  docs'[saved[p].id] = docs[saved[p].id]
    <3>1. saved[p].id \in Ids
      BY <1>1, <2>6, RecordFacts DEF STypeOK
    <3>2. CASE scan[s].complete
      <4>1. scan[s].old[p] = saved[p] /\ p \notin scan[s].todo
        BY <2>1, <2>3
      <4>2. scan[s].next[p] # NoEntry
        BY <1>1, <2>1, <2>6, <3>2, <4>1 DEF KeptFit
      <4>3. scan[s].next[p].id = saved[p].id
        BY <1>1, <2>6, <4>1, <4>2 DEF ScansFit
      <4> QED
        BY <2>5, <4>2, <4>3
    <3>3. CASE ~scan[s].complete
      BY <1>7, <3>1, <3>3 DEF Reconciled, Counted
    <3> QED
      BY <3>2, <3>3
  <2>7. ASSUME NEW p \in Paths \ touched
        PROVE  /\ saved[p] # NoEntry => Kept(saved[p].id)
               /\ scan[s].next[p] # NoEntry => Kept(scan[s].next[p].id)
    BY <1>1, <2>1 DEF KeptAlone
  <2>8. ASSUME NEW p \in Paths \ touched', saved'[p] # NoEntry PROVE Kept(saved[p].id)'
    BY <2>1, <2>6, <2>7, <2>8 DEF Kept, Exists
  <2>9. ASSUME NEW p \in Paths \ touched', NEW t \in Scanners, Running(t)', scan'[t].next[p] # NoEntry
        PROVE  Kept(scan[t].next[p].id)'
    <3>1. t = s /\ scan'[s].next = scan[s].next /\ p \in Paths \ touched
      BY <2>1, <2>3, <2>9
    <3> QED
      BY <2>5, <2>7, <2>9, <3>1 DEF Kept, Exists
  <2> QED
    BY <2>1, <2>4, <2>8, <2>9 DEF KeptAlone
<1>8. ASSUME NEW s \in Scanners, Ended(s) PROVE KeptAlone'
  <2>1. /\ ~overlapped /\ UNCHANGED <<docs, touched>> /\ Running(s) /\ scan'[s] = NoScan
        /\ \A t \in Scanners \ {s} : scan'[t].step = scan[t].step
    BY <1>1, <1>8 DEF Ended, tallies, STypeOK
  <2>2. scan[s].old = saved /\ \A t \in Scanners : ~Running(t)'
    BY <1>1, <2>1, RecordFacts DEF OneScan, Running, At
  <2>3. \A p \in Paths : saved'[p] \in {NoEntry, saved[p], scan[s].next[p]}
    BY <1>8, <2>2 DEF Ended
  <2> QED
    BY <1>1, <2>1, <2>2, <2>3 DEF KeptAlone, Kept, Exists
<1> QED
  BY <1>3, <1>4, <1>5, <1>6, <1>7, <1>8, StepCases DEF KeptInv

-----------------------------------------------------------------------------
(* The theorems about deletions                                            *)

LEMMA KeptInvKept ==
    ASSUME IsFiniteSet(Scanners), Cardinality(Scanners) <= Confirmations
    PROVE  KeptInv /\ [SNext]_scanVars => KeptInv'
<1>1. ASSUME KeptInv, SNext PROVE KeptInv'
  <2>1. ScanInv /\ Untouched /\ LateScansFit /\ OneScan /\ MetFit /\ SavingFit /\ KeptFit
    BY <1>1 DEF KeptInv, AloneFit
  <2>2. ScanInv' /\ Untouched' /\ LateScansFit' /\ OneScan' /\ MetFit' /\ SavingFit'
    BY <1>1, <2>1, ScanInvKept, UntouchedKept, LateScansFitKept, OneScanKept, MetFitKept, SavingFitKept
  <2>3. KeptFit'
    <3>1. ASSUME NEW t \in Scanners, Visiting(t)', scan'[t].complete,
                 NEW p \in Paths, p \notin touched', p \notin scan'[t].todo, scan'[t].old[p] # NoEntry
          PROVE  scan'[t].next[p] # NoEntry
      BY <1>1, <2>1, <3>1, KnownAreMet
    <3>2. ~overlapped' => KeptAlone'
      BY <1>1, KeptAloneKept
    <3> QED
      BY <3>1, <3>2 DEF KeptFit, KeptAlone
  <2> QED
    BY <2>2, <2>3 DEF KeptInv, AloneFit
<1>2. ASSUME KeptInv, UNCHANGED scanVars PROVE KeptInv'
  <2>1. ScanInv'
    BY <1>2, ScanInvKept DEF KeptInv
  <2>2. UNCHANGED <<disk, saved, docs, scan, touched, overlapped>>
    BY <1>2 DEF scanVars
  <2>3. Untouched'
    BY <1>2, <2>2 DEF KeptInv, Untouched, Met
  <2>4. \A d \in Ids : Late(d)' = Late(d)
    BY <2>2 DEF Late, Visiting
  <2>5. LateScansFit'
    BY <1>2, <2>2, <2>4 DEF KeptInv, LateScansFit, Exists
  <2>6. AloneFit'
    BY <1>2, <2>2 DEF KeptInv, AloneFit, OneScan, MetFit, SavingFit, Running, Visiting, At, Exists
  <2>7. KeptFit'
    BY <1>2, <2>2 DEF KeptInv, KeptFit, Kept, Exists, Running, Visiting, At
  <2> QED
    BY <2>1, <2>3, <2>5, <2>6, <2>7 DEF KeptInv
<1> QED
  BY <1>1, <1>2

\* /api/reconcile deletes no document whose file was never touched, as long as no more
\* scans can run at once than it takes confirmations to delete: reports may be late, scans
\* may fail, die or overlap.  And without an overlap none that is deleted comes to lie at
\* such a path.
THEOREM PresentIsKeptHolds ==
    ASSUME IsFiniteSet(Scanners), Cardinality(Scanners) <= Confirmations
    PROVE  SSpec => PresentIsKept
<1> DEFINE Step == \A d \in Ids : docs'[d].deleted /\ docs'[d].path \notin touched' =>
                         overlapped /\ docs[d].deleted
<1>1. SInit => KeptInv
  BY InitScanInv
<1>2. KeptInv /\ [SNext]_scanVars => KeptInv'
  BY KeptInvKept
<1>3. ASSUME KeptInv, KeptInv', SNext PROVE Step
  <2> SUFFICES ASSUME NEW d \in Ids, docs'[d].deleted, docs'[d].path \notin touched'
               PROVE  overlapped /\ docs[d].deleted
    OBVIOUS
  <2>1. overlapped'
    BY <1>3 DEF KeptInv, KeptFit
  <2>2. /\ STypeOK /\ LateScansFit /\ ScanInv
        /\ ~overlapped /\ docs[d].deleted => docs[d].path \in touched
    BY <1>3 DEF KeptInv, ScanInv, KeptFit
  <2>3. CASE UNCHANGED <<docs, overlapped>> /\ touched \subseteq touched'
    BY <2>1, <2>2, <2>3
  <2>4. ASSUME NEW s \in Scanners, Started(s) PROVE overlapped /\ docs[d].deleted
    BY <2>2, <2>4 DEF Started
  <2>5. ASSUME NEW s \in Scanners, NEW f, NEW row, NEW r, Unmoved, Reported(f, s, row, r)
        PROVE  overlapped /\ docs[d].deleted
    <3>1. overlapped' = overlapped /\ touched' = touched
      BY <2>5 DEF Unmoved, tallies
    <3>2. docs[d].deleted
      BY <2>2, <2>5 DEF Reported, STypeOK
    <3> QED
      BY <2>1, <3>1, <3>2
  <2>6. ASSUME NEW s \in Scanners, Reconciled(s) PROVE overlapped /\ docs[d].deleted
    <3>1. overlapped' = overlapped /\ touched' = touched
      BY <2>6 DEF Reconciled, Unmoved, tallies
    <3>2. ~Counted(s, d)
      BY <2>2, <2>6, <3>1, CountedIsKept DEF Counted
    <3> QED
      BY <2>1, <2>6, <3>1, <3>2 DEF Reconciled
  <2> QED
    BY <1>3, <2>2, <2>3, <2>4, <2>5, <2>6, StepCases DEF Edited, Passed, Unmoved, Ended, tallies
<1>4. KeptInv /\ KeptInv' /\ [SNext]_scanVars => [Step]_scanVars
  BY <1>3
<1> HIDE DEF Step
<1>5. SSpec => [][Step]_scanVars
  BY <1>1, <1>2, <1>4, PTL DEF SSpec
<1> QED
  BY <1>5 DEF PresentIsKept, Step

\* When a scan that met no error and no other scan saves its state, the documents that are
\* there and not counted as missing are those of that state.
THEOREM LiveIsFoundHolds == SSpec => LiveIsFound
<1> DEFINE Step == \A s \in Scanners : Ends(s) =>
         {d \in Ids : Exists(d) /\ ~docs[d].deleted /\ docs[d].missing = 0} =
             {saved'[p].id : p \in Paths} \ ({0} \cup {d \in Ids : docs[d].deleted})
<1> DEFINE Inv == ScanInv /\ AloneFit
<1>1. SInit => Inv
  BY InitScanInv DEF KeptInv
<1>2. Inv /\ [SNext]_scanVars => Inv'
  <2>1. ASSUME Inv, SNext PROVE Inv'
    BY <2>1, ScanInvKept, OneScanKept, MetFitKept, SavingFitKept DEF AloneFit
  <2>2. ASSUME Inv, UNCHANGED scanVars PROVE Inv'
    <3>1. UNCHANGED <<saved, docs, scan, overlapped>> /\ ScanInv'
      BY <2>2, ScanInvKept DEF scanVars
    <3> QED
      BY <2>2, <3>1 DEF AloneFit, OneScan, MetFit, SavingFit, Running, Visiting, At, Exists
  <2> QED
    BY <2>1, <2>2
<1>3. ASSUME Inv PROVE Step
  <2> SUFFICES ASSUME NEW s \in Scanners, Ends(s)
               PROVE  {d \in Ids : Exists(d) /\ ~docs[d].deleted /\ docs[d].missing = 0} =
                          {saved'[p].id : p \in Paths} \ ({0} \cup {d \in Ids : docs[d].deleted})
    OBVIOUS
  <2>1. scan[s].complete /\ ~overlapped /\ At(s, "save") /\ Save(s)
    BY DEF Ends, Save
  <2>2. /\ \A d \in Ids : Exists(d) /\ ~docs[d].deleted =>
              (docs[d].missing = 0 <=> \E p \in Paths : scan[s].next[p].id = d)
        /\ \A p \in Paths : scan[s].next[p] # NoEntry => Exists(scan[s].next[p].id)
    BY <1>3, <2>1 DEF AloneFit, SavingFit
  <2>3. ASSUME NEW p \in Paths PROVE saved'[p] = scan[s].next[p]
    BY <2>1 DEF Save, Forgotten
  <2>4. ASSUME NEW p \in Paths, saved'[p].id # 0 PROVE saved'[p].id \in Ids /\ Exists(saved'[p].id)
    <3>1. scan[s].next[p] # NoEntry /\ scan[s].next[p] \in Entries
      BY <1>3, <2>3, <2>4, RecordFacts DEF ScanInv, STypeOK, ScanType
    <3> QED
      BY <2>2, <2>3, <3>1, RecordFacts
  <2>5. ASSUME NEW d \in Ids, Exists(d), ~docs[d].deleted, docs[d].missing = 0
        PROVE  d # 0 /\ \E p \in Paths : saved'[p].id = d
    BY <2>2, <2>3, <2>5, RecordFacts
  <2>6. ASSUME NEW p \in Paths, saved'[p].id # 0, saved'[p].id \notin {d \in Ids : docs[d].deleted}
        PROVE  /\ saved'[p].id \in Ids /\ Exists(saved'[p].id) /\ ~docs[saved'[p].id].deleted
               /\ docs[saved'[p].id].missing = 0
    <3>1. saved'[p].id \in Ids /\ Exists(saved'[p].id) /\ ~docs[saved'[p].id].deleted
      BY <2>4, <2>6
    <3> QED
      BY <2>2, <2>3, <3>1
  <2> QED
    BY <2>5, <2>6
<1>4. Inv /\ [SNext]_scanVars => [Step]_scanVars
  BY <1>3
<1> HIDE DEF Step, Inv
<1>5. SSpec => [][Step]_scanVars
  BY <1>1, <1>2, <1>4, PTL DEF SSpec
<1> QED
  BY <1>5 DEF LiveIsFound, Step

-----------------------------------------------------------------------------
(* What an undisturbed scan finds                                          *)

Row(p, c) == [path |-> p, content |-> c, missing |-> 0, deleted |-> FALSE]

\* Document d will be q's in the state that scan s saves.
Rival(s, q, d) ==
    \/ scan[s].next[q].id = d
    \/ /\ scan[s].old[q].id = d /\ scan[s].next[q] = NoEntry
       /\ scan[s].complete => At(s, "send") /\ Here(s) = q

\* The document of path p's entry lies there with its content, or other paths share it.
Placed(s, p, e) ==
    \/ docs[e.id] = Row(p, e.content)
    \/ e.id \in shared
    \/ \E q \in Paths \ {p} : Rival(s, q, e.id)

\* So it is with the entries that a scan has made, and with those that it has read and may
\* save again.
EntriesPlaced(s) ==
    \A p \in Paths :
        /\ scan[s].next[p] # NoEntry => Placed(s, p, scan[s].next[p])
        /\ scan[s].old[p] # NoEntry /\ scan[s].next[p] = NoEntry /\ ~(At(s, "save") /\ scan[s].complete)
              => Placed(s, p, scan[s].old[p])

\* As long as nothing was edited, its entries are what lies in the folder.
ContentsFound(s) ==
    /\ At(s, "save") => scan[s].todo = {}
    /\ scan[s].since <= edits
    /\ scan[s].complete /\ scan[s].since = edits =>
          /\ At(s, "send") => scan[s].content = disk[Here(s)]
          /\ \A p \in Paths \ scan[s].todo : disk[p] # None => scan[s].next[p].content = disk[p]

Clean == ~overlapped /\ troubles = 0
SavedPlaced ==
    \A p \in Paths : saved[p] # NoEntry =>
        docs[saved[p].id] = Row(p, saved[p].content) \/ saved[p].id \in shared
FoundFit ==
    Clean => /\ \A s \in Scanners : Running(s) => EntriesPlaced(s) /\ ContentsFound(s)
             /\ (\A s \in Scanners : ~Running(s)) => SavedPlaced

FoundInv == ScanInv /\ AloneFit /\ FoundFit

\* The steps of a scan on a file in which nothing goes wrong.
FileStep(s) ==
    /\ UNCHANGED <<disk, saved, shared, edits, overlapped, troubles>>
    /\ Visiting(s) /\ Here(s) \in scan[s].todo /\ Here(s) \in Paths
    /\ scan'[s].old = scan[s].old /\ scan'[s].since = scan[s].since
    /\ scan'[s].complete => scan[s].complete
    /\ \A t \in Scanners \ {s} : scan'[t].step = scan[t].step

EntersHere(e, s) ==
    /\ scan'[s].step = "visit" /\ scan'[s].todo = scan[s].todo \ {Here(s)}
    /\ scan'[s].next = [scan[s].next EXCEPT ![Here(s)] = e]
Drops(s) == EntersHere(NoEntry, s) /\ ~scan'[s].complete /\ docs' = docs
Moves(s) ==
    /\ Known(s) # NoEntry
    /\ docs' = [docs EXCEPT ![Known(s).id] = Report(Known(s).id, Here(s), @)]
SendsHere(s) ==
    /\ At(s, "visit") /\ scan'[s].step = "send"
    /\ scan'[s].todo = scan[s].todo /\ scan'[s].next = scan[s].next
    /\ scan'[s].content = disk[Here(s)]
    /\ docs' = docs \/ Moves(s)
Keeps(s) ==
    /\ At(s, "visit") /\ EntersHere(Known(s), s)
    /\ Known(s).content = disk[Here(s)] /\ Moves(s)
Delivers(s) ==
    LET d == scan[s].id
        c == scan[s].content
    IN  /\ At(s, "send") /\ EntersHere([id |-> d, content |-> c], s)
        /\ docs' = [docs EXCEPT ![d] = Row(Here(s), c)]

OnFile(s) == FileStep(s) /\ (Drops(s) \/ SendsHere(s) \/ Keeps(s) \/ Delivers(s))

LEMMA SinceFacts ==
    ASSUME NEW s, NEW d, NEW e, NEW r \in ScanType
    PROVE  /\ Entered(e, s, r).since = r.since
           /\ Failed(r).since = r.since
           /\ Sending(d, s, r).since = r.since
BY DEF Entered, Failed, Sending, ScanType

LEMMA NoTroubleAtAll ==
    ASSUME STypeOK, troubles' = 0, Trouble \/ NoTrouble
    PROVE  ~Trouble /\ NoTrouble /\ troubles = 0
<1>1. troubles \in Nat
  BY ScanAssumption DEF STypeOK
<1> QED
  BY <1>1 DEF Trouble, NoTrouble

\* A scan that replaces its record, in the others perhaps marked.
LEMMA OneReplaced ==
    ASSUME STypeOK, NEW s \in Scanners, NEW d \in Ids, NEW r,
           scan' = [scan EXCEPT ![s] = r] \/ scan' = [Mark(s, d) EXCEPT ![s] = r]
    PROVE  scan'[s] = r /\ \A t \in Scanners \ {s} : scan'[t].step = scan[t].step
<1>1. scan \in [Scanners -> ScanType] /\ Mark(s, d) \in [Scanners -> ScanType]
  BY MarkFacts DEF STypeOK
<1>2. \A t \in Scanners : Marked(s, d, t, Mark(s, d)[t])
  BY MarkFacts
<1>3. \A t \in Scanners : Mark(s, d)[t].step = scan[t].step
  BY <1>2 DEF Marked
<1> QED
  BY <1>1, <1>3

LEMMA MarkedSince ==
    ASSUME STypeOK, NEW s \in Scanners, NEW d \in Ids
    PROVE  Mark(s, d)[s].since = scan[s].since
<1>1. scan[s] \in ScanType
  BY DEF STypeOK
<1>2. Mark(s, d)[s] = [scan[s] EXCEPT !.behind = IF s \in scan[s].after THEN @ \cup {d} ELSE @ \ {d}]
  BY DEF Mark
<1> QED
  BY <1>1, <1>2 DEF ScanType

LEMMA SkipIsFileStep ==
    ASSUME STypeOK, NEW s \in Scanners, Skip(s), troubles' = 0
    PROVE  FileStep(s) /\ Drops(s)
<1> DEFINE r == Failed(Entered(NoEntry, s, scan[s]))
<1>1. scan[s] \in ScanType /\ Here(s) \in scan[s].todo /\ Here(s) \in Paths
      /\ scan \in [Scanners -> ScanType]
  BY HereIsToDo DEF Skip, STypeOK
<1>2. /\ scan' = [scan EXCEPT ![s] = r] /\ Visiting(s) /\ docs' = docs
      /\ UNCHANGED <<disk, saved, shared, edits, overlapped, troubles>>
  BY NoTroubleAtAll DEF Skip, At, Visiting, tallies, NoTrouble
<1>3. /\ Entered(NoEntry, s, scan[s]) \in ScanType
      /\ ~r.complete /\ r.step = "visit" /\ r.todo = scan[s].todo \ {Here(s)}
      /\ r.next = [scan[s].next EXCEPT ![Here(s)] = NoEntry] /\ r.old = scan[s].old
  BY <1>1, EnteredFacts, FailedFacts, RecordFacts
<1>4. r.since = scan[s].since
  BY <1>1, <1>3, SinceFacts
<1> HIDE DEF r
<1>5. scan'[s] = r /\ \A t \in Scanners \ {s} : scan'[t].step = scan[t].step
  BY <1>1, <1>2
<1> QED
  BY <1>1, <1>2, <1>3, <1>4, <1>5 DEF FileStep, Drops, EntersHere

LEMMA ChooseIsFileStep ==
    ASSUME STypeOK, NEW s \in Scanners, Choose(s), troubles' = 0
    PROVE  FileStep(s) /\ SendsHere(s)
<1>1. scan[s] \in ScanType /\ Here(s) \in scan[s].todo /\ Here(s) \in Paths
      /\ scan \in [Scanners -> ScanType]
  BY HereIsToDo DEF Choose, STypeOK
<1>2. PICK d : scan' = [scan EXCEPT ![s] = Sending(d, s, scan[s])]
  BY <1>1 DEF Choose
<1> DEFINE r == Sending(d, s, scan[s])
<1>3. /\ r.step = "send" /\ r.todo = scan[s].todo /\ r.next = scan[s].next /\ r.old = scan[s].old
      /\ r.complete = scan[s].complete /\ r.content = disk[Here(s)]
  BY <1>1 DEF Sending, ScanType
<1>4. r.since = scan[s].since
  BY <1>1, SinceFacts
<1>5. scan' = [scan EXCEPT ![s] = r]
  BY <1>2
<1> HIDE DEF r
<1>6. scan'[s] = r /\ \A t \in Scanners \ {s} : scan'[t].step = scan[t].step
  BY <1>1, <1>5
<1>7. /\ At(s, "visit") /\ Visiting(s) /\ docs' = docs
      /\ UNCHANGED <<disk, saved, shared, edits, overlapped, troubles>>
  BY DEF Choose, At, Visiting, tallies
<1> QED
  BY <1>1, <1>3, <1>4, <1>6, <1>7 DEF FileStep, SendsHere

LEMMA SendIsFileStep ==
    ASSUME STypeOK, ScansFit, NEW s \in Scanners, Send(s), troubles' = 0
    PROVE  FileStep(s) /\ (Drops(s) \/ Delivers(s))
<1> DEFINE d == scan[s].id
           c == scan[s].content
           p == Here(s)
           m == Mark(s, d)[s]
<1>1. scan[s] \in ScanType /\ p \in scan[s].todo /\ p \in Paths
      /\ d \in Ids /\ c \in Contents /\ At(s, "send") /\ Visiting(s)
  BY HereIsToDo DEF Send, STypeOK, ScansFit, Visiting, At
<1>2. /\ UNCHANGED <<disk, saved, shared, edits, overlapped, troubles>>
      /\ \/ /\ Ingest(d, p, c)
            /\ scan' = [Mark(s, d) EXCEPT ![s] = Entered([id |-> d, content |-> c], s, m)]
         \/ /\ docs' = docs
            /\ scan' = [scan EXCEPT ![s] = Failed(Entered(NoEntry, s, scan[s]))]
  BY NoTroubleAtAll DEF Send, Unsent, tallies, NoTrouble
<1>3. [id |-> d, content |-> c] \in Entries /\ NoEntry \in Entries
  BY <1>1, RecordFacts DEF Entries
<1>4. ASSUME scan' = [scan EXCEPT ![s] = Failed(Entered(NoEntry, s, scan[s]))], docs' = docs
      PROVE  FileStep(s) /\ Drops(s)
  <2> DEFINE r == Failed(Entered(NoEntry, s, scan[s]))
  <2>1. /\ Entered(NoEntry, s, scan[s]) \in ScanType
        /\ ~r.complete /\ r.step = "visit" /\ r.todo = scan[s].todo \ {Here(s)}
        /\ r.next = [scan[s].next EXCEPT ![Here(s)] = NoEntry] /\ r.old = scan[s].old
    BY <1>1, <1>3, EnteredFacts, FailedFacts
  <2>2. r.since = scan[s].since
    BY <1>1, <2>1, SinceFacts
  <2>3. scan' = [scan EXCEPT ![s] = r]
    BY <1>4
  <2> HIDE DEF r
  <2>4. scan'[s] = r /\ \A t \in Scanners \ {s} : scan'[t].step = scan[t].step
    BY <1>1, <2>3, OneReplaced
  <2> QED
    BY <1>1, <1>2, <1>4, <2>1, <2>2, <2>4 DEF FileStep, Drops, EntersHere
<1>5. ASSUME Ingest(d, p, c),
             scan' = [Mark(s, d) EXCEPT ![s] = Entered([id |-> d, content |-> c], s, m)]
      PROVE  FileStep(s) /\ Delivers(s)
  <2> DEFINE r == Entered([id |-> d, content |-> c], s, m)
  <2>1. m \in ScanType /\ m.next = scan[s].next /\ m.todo = scan[s].todo /\ m.old = scan[s].old
        /\ m.complete = scan[s].complete
    BY <1>1, MarkedSelf
  <2>2. m.since = scan[s].since
    BY <1>1, MarkedSince
  <2> HIDE DEF m
  <2>3. /\ r.complete = scan[s].complete /\ r.step = "visit" /\ r.todo = scan[s].todo \ {Here(s)}
        /\ r.next = [scan[s].next EXCEPT ![Here(s)] = [id |-> d, content |-> c]]
        /\ r.old = scan[s].old
    BY <1>1, <1>3, <2>1, EnteredFacts
  <2>4. r.since = scan[s].since
    BY <2>1, <2>2, SinceFacts
  <2>5. scan' = [Mark(s, d) EXCEPT ![s] = r]
    BY <1>5
  <2> HIDE DEF r
  <2>6. scan'[s] = r /\ \A t \in Scanners \ {s} : scan'[t].step = scan[t].step
    BY <1>1, <2>5, OneReplaced
  <2>7. docs' = [docs EXCEPT ![d] = Row(p, c)]
    <3>1. docs' = [docs EXCEPT ![d] = Uploaded(d, p, c, docs[d])]
      BY <1>5 DEF Ingest, Uploaded
    <3>2. Uploaded(d, p, c, docs[d]) \in DocType
          /\ Uploaded(d, p, c, docs[d]).path = p /\ Uploaded(d, p, c, docs[d]).missing = 0
          /\ ~Uploaded(d, p, c, docs[d]).deleted
      <4>1. docs[d] \in DocType \cup {NoDoc}
        BY <1>1 DEF STypeOK
      <4> QED
        BY <1>1, <4>1, UploadFacts
    <3>3. Uploaded(d, p, c, docs[d]).content = c
      <4>1. docs[d] \in DocType \cup {NoDoc}
        BY <1>1 DEF STypeOK
      <4>2. Report(d, p, docs[d]) \in Rows(Paths, Contents \cup {None})
        BY <1>1, <4>1, ReportFacts
      <4> QED
        BY <4>2 DEF Uploaded, Rows
    <3> DEFINE u == Uploaded(d, p, c, docs[d])
    <3> HIDE DEF u
    <3>4. u = Row(p, c)
      BY <3>2, <3>3 DEF u, DocType, Row
    <3> QED
      BY <3>1, <3>4 DEF u
  <2> QED
    BY <1>1, <1>2, <2>3, <2>4, <2>6, <2>7 DEF FileStep, Delivers, EntersHere
<1> QED
  BY <1>2, <1>4, <1>5

LEMMA SeenIsFileStep ==
    ASSUME STypeOK, ScansFit, NEW s \in Scanners, ReportSeen(s), troubles' = 0
    PROVE  FileStep(s) /\ (SendsHere(s) \/ Keeps(s))
<1> DEFINE d == Known(s).id
           p == Here(s)
           m == Mark(s, d)[s]
<1>1. scan[s] \in ScanType /\ p \in scan[s].todo /\ p \in Paths /\ scan[s].old \in [Paths -> Entries]
      /\ At(s, "visit") /\ Visiting(s)
  BY HereIsToDo DEF ReportSeen, STypeOK, ScanType, Visiting, At
<1>2. disk[p] \in Contents
  BY <1>1 DEF ReportSeen, STypeOK
<1>3. Known(s) # NoEntry /\ Known(s) \in Entries /\ d \in Ids /\ Known(s).content = disk[p]
  BY <1>1, RecordFacts DEF ReportSeen, Unchanged, Known
<1>4. /\ UNCHANGED <<disk, saved, shared, edits, overlapped, troubles>>
      /\ \/ docs' = docs /\ scan' = [scan EXCEPT ![s] = Failed(Sending(d, s, scan[s]))]
         \/ Seen(d, p) /\ scan' = [Mark(s, d) EXCEPT ![s] = Entered(Known(s), s, m)]
         \/ Seen(d, p) /\ scan' = [Mark(s, d) EXCEPT ![s] = Sending(d, s, m)]
  BY NoTroubleAtAll DEF ReportSeen, tallies, NoTrouble
<1>5. Seen(d, p) => Moves(s)
  BY <1>3 DEF Seen, Moves
<1>6. m \in ScanType /\ m.next = scan[s].next /\ m.todo = scan[s].todo /\ m.old = scan[s].old
      /\ m.complete = scan[s].complete /\ m.since = scan[s].since
  BY <1>3, MarkedSelf, MarkedSince
<1>7. ASSUME NEW r, scan' = [scan EXCEPT ![s] = r] \/ scan' = [Mark(s, d) EXCEPT ![s] = r]
      PROVE  scan'[s] = r /\ \A t \in Scanners \ {s} : scan'[t].step = scan[t].step
  BY <1>3, <1>7, OneReplaced
<1>8. ASSUME docs' = docs, scan' = [scan EXCEPT ![s] = Failed(Sending(d, s, scan[s]))]
      PROVE  FileStep(s) /\ SendsHere(s)
  <2> DEFINE r == Failed(Sending(d, s, scan[s]))
  <2>1. /\ Sending(d, s, scan[s]) \in ScanType
        /\ ~r.complete /\ r.step = "send" /\ r.todo = scan[s].todo
        /\ r.next = scan[s].next /\ r.old = scan[s].old /\ r.content = disk[p]
    BY <1>1, <1>2, <1>3, SendingFacts, FailedFacts
  <2>2. r.since = scan[s].since
    BY <1>1, <2>1, SinceFacts
  <2>3. scan'[s] = r /\ \A t \in Scanners \ {s} : scan'[t].step = scan[t].step
    BY <1>7, <1>8
  <2> HIDE DEF r
  <2> QED
    BY <1>1, <1>4, <1>8, <2>1, <2>2, <2>3 DEF FileStep, SendsHere
<1>9. ASSUME Seen(d, p), scan' = [Mark(s, d) EXCEPT ![s] = Entered(Known(s), s, m)]
      PROVE  FileStep(s) /\ Keeps(s)
  <2> DEFINE r == Entered(Known(s), s, m)
  <2>3. scan'[s] = r /\ \A t \in Scanners \ {s} : scan'[t].step = scan[t].step
    BY <1>7, <1>9
  <2> HIDE DEF m
  <2>1. /\ r.complete = scan[s].complete /\ r.step = "visit" /\ r.todo = scan[s].todo \ {p}
        /\ r.next = [scan[s].next EXCEPT ![p] = Known(s)] /\ r.old = scan[s].old
    BY <1>1, <1>3, <1>6, EnteredFacts
  <2>2. r.since = scan[s].since
    BY <1>6, SinceFacts
  <2> HIDE DEF r
  <2> QED
    BY <1>1, <1>3, <1>4, <1>5, <1>9, <2>1, <2>2, <2>3 DEF FileStep, Keeps, EntersHere
<1>10. ASSUME Seen(d, p), scan' = [Mark(s, d) EXCEPT ![s] = Sending(d, s, m)]
       PROVE  FileStep(s) /\ SendsHere(s)
  <2> DEFINE r == Sending(d, s, m)
  <2>3. scan'[s] = r /\ \A t \in Scanners \ {s} : scan'[t].step = scan[t].step
    BY <1>7, <1>10
  <2> HIDE DEF m
  <2>1. /\ r.complete = scan[s].complete /\ r.step = "send" /\ r.todo = scan[s].todo
        /\ r.next = scan[s].next /\ r.old = scan[s].old /\ r.content = disk[p]
    BY <1>2, <1>3, <1>6, SendingFacts
  <2>2. r.since = scan[s].since
    BY <1>6, SinceFacts
  <2> HIDE DEF r
  <2> QED
    BY <1>1, <1>4, <1>5, <1>10, <2>1, <2>2, <2>3 DEF FileStep, SendsHere
<1> QED
  BY <1>4, <1>8, <1>9, <1>10

\* The next state after such a step.
LEMMA FileNext ==
    ASSUME STypeOK, ScansFit, NEW s \in Scanners, OnFile(s)
    PROVE  /\ scan[s].next[Here(s)] = NoEntry
           /\ \A q \in Paths \ {Here(s)} : scan'[s].next[q] = scan[s].next[q]
           /\ Drops(s) \/ SendsHere(s) => scan'[s].next[Here(s)] = NoEntry
           /\ Keeps(s) => scan'[s].next[Here(s)] = Known(s)
           /\ Delivers(s) => scan'[s].next[Here(s)] = [id |-> scan[s].id, content |-> scan[s].content]
<1>1. /\ Here(s) \in Paths /\ scan[s].next \in [Paths -> Entries] /\ scan[s].next[Here(s)] = NoEntry
  BY DEF OnFile, FileStep, STypeOK, ScanType, ScansFit
<1>2. ASSUME NEW e, EntersHere(e, s)
      PROVE  scan'[s].next[Here(s)] = e
             /\ \A q \in Paths \ {Here(s)} : scan'[s].next[q] = scan[s].next[q]
  BY <1>1, <1>2 DEF EntersHere
<1>3. CASE Drops(s)
  <2>1. scan'[s].next[Here(s)] = NoEntry
        /\ \A q \in Paths \ {Here(s)} : scan'[s].next[q] = scan[s].next[q]
    BY <1>2, <1>3 DEF Drops
  <2>2. ~SendsHere(s)
    BY <1>3 DEF SendsHere, Drops, EntersHere
  <2> QED
    BY <1>1, <1>2, <2>1 DEF Keeps, Delivers
<1>4. CASE SendsHere(s)
  BY <1>1, <1>2, <1>4 DEF SendsHere, Keeps, Delivers
<1>5. CASE Keeps(s)
  BY <1>1, <1>2, <1>5 DEF Drops, SendsHere, Keeps, Delivers, EntersHere
<1>6. CASE Delivers(s)
  BY <1>1, <1>2, <1>6 DEF Drops, SendsHere, Keeps, Delivers, EntersHere
<1> QED
  BY <1>3, <1>4, <1>5, <1>6 DEF OnFile

\* What a path will have, it will have after such a step.
LEMMA RivalStays ==
    ASSUME STypeOK, ScansFit, NEW s \in Scanners, OnFile(s),
           NEW q \in Paths, NEW d \in Ids, Rival(s, q, d)
    PROVE  Rival(s, q, d)'
<1> DEFINE p == Here(s)
<1>1. /\ p \in Paths /\ scan'[s].old = scan[s].old /\ (scan'[s].complete => scan[s].complete)
      /\ d # 0 /\ NoEntry.id = 0
  BY RecordFacts DEF OnFile, FileStep
<1>2. /\ scan[s].next[p] = NoEntry
      /\ q # p => scan'[s].next[q] = scan[s].next[q]
      /\ Drops(s) \/ SendsHere(s) => scan'[s].next[p] = NoEntry
      /\ Keeps(s) => scan'[s].next[p] = Known(s)
      /\ Delivers(s) => scan'[s].next[p] = [id |-> scan[s].id, content |-> scan[s].content]
  BY FileNext
<1>3. CASE scan[s].next[q].id = d
  BY <1>1, <1>2, <1>3 DEF Rival
<1>4. CASE scan[s].next[q].id # d
  <2>1. /\ scan[s].old[q].id = d /\ scan[s].next[q] = NoEntry
        /\ scan[s].complete => At(s, "send") /\ p = q
    BY <1>4 DEF Rival
  <2>2. Known(s) = scan[s].old[p]
    BY DEF Known
  <2>3. CASE Drops(s)
    BY <1>1, <1>2, <2>1, <2>3 DEF Rival, Drops
  <2>4. CASE SendsHere(s)
    <3>1. ~scan[s].complete
      BY <2>1, <2>4 DEF SendsHere, At
    <3> QED
      BY <1>1, <1>2, <2>1, <2>4, <3>1 DEF Rival
  <2>5. CASE Keeps(s)
    <3>1. ~scan[s].complete
      BY <2>1, <2>5 DEF Keeps, At
    <3> QED
      BY <1>1, <1>2, <2>1, <2>2, <2>5, <3>1 DEF Rival
  <2>6. CASE Delivers(s)
    <3>1. q = p => scan[s].id = d
      <4>1. At(s, "send")
        BY <2>6 DEF Delivers
      <4> QED
        BY <1>1, <2>1, <2>2, <4>1 DEF ScansFit
    <3>2. q = p => scan'[s].next[q].id = d
      BY <1>2, <2>6, <3>1
    <3> QED
      BY <1>1, <1>2, <2>1, <3>2 DEF Rival
  <2> QED
    BY <2>3, <2>4, <2>5, <2>6 DEF OnFile
<1> QED
  BY <1>3, <1>4

\* A row that it changes will be the file's.
LEMMA RowStays ==
    ASSUME STypeOK, ScansFit, NEW s \in Scanners, OnFile(s), NEW d \in Ids, docs'[d] # docs[d],
           NEW p \in Paths, p = Here(s)
    PROVE  /\ Rival(s, p, d)'
           /\ (Moves(s) /\ Known(s).id = d /\ docs'[d] = Report(d, p, docs[d])) \/ Delivers(s)
<1>1. docs \in [Ids -> DocType \cup {NoDoc}] /\ ~Drops(s)
  BY DEF STypeOK, Drops
<1>2. /\ Keeps(s) => scan'[s].next[p] = Known(s)
      /\ Delivers(s) => scan'[s].next[p] = [id |-> scan[s].id, content |-> scan[s].content]
      /\ SendsHere(s) => scan'[s].next[p] = NoEntry
  BY FileNext
<1>3. ASSUME Moves(s) PROVE Known(s).id = d /\ docs'[d] = Report(d, p, docs[d])
  BY <1>1, <1>3 DEF Moves
<1>4. CASE SendsHere(s)
  <2>1. Moves(s) /\ Known(s).id = d /\ docs'[d] = Report(d, p, docs[d])
    BY <1>3, <1>4 DEF SendsHere
  <2>2. scan'[s].old[p].id = d
    BY <2>1 DEF OnFile, FileStep, Known
  <2>3. At(s, "send")' /\ Here(s)' = p
    BY <1>4 DEF SendsHere, At, Here
  <2>4. scan'[s].next[p] = NoEntry
    BY <1>2, <1>4
  <2>5. Rival(s, p, d)'
    BY <2>2, <2>3, <2>4 DEF Rival
  <2> QED
    BY <2>1, <2>5
<1>5. CASE Keeps(s)
  <2>1. Moves(s) /\ Known(s).id = d /\ docs'[d] = Report(d, p, docs[d])
    BY <1>3, <1>5 DEF Keeps
  <2>2. scan'[s].next[p].id = d
    BY <1>2, <1>5, <2>1
  <2> QED
    BY <2>1, <2>2 DEF Rival
<1>6. CASE Delivers(s)
  <2>1. scan[s].id = d
    BY <1>1, <1>6 DEF Delivers
  <2>2. scan'[s].next[p].id = d
    BY <1>2, <1>6, <2>1
  <2> QED
    BY <1>6, <2>2 DEF Rival
<1> QED
  BY <1>1, <1>4, <1>5, <1>6 DEF OnFile

LEMMA EntriesStayPlaced ==
    ASSUME STypeOK, ScansFit, NEW s \in Scanners, OnFile(s), EntriesPlaced(s)
    PROVE  EntriesPlaced(s)'
<1>1. PICK p \in Paths : p = Here(s)
  BY DEF OnFile, FileStep
<1>2. /\ scan[s] \in ScanType /\ scan[s].next \in [Paths -> Entries] /\ scan[s].old \in [Paths -> Entries]
      /\ docs \in [Ids -> DocType \cup {NoDoc}]
  BY DEF STypeOK, ScanType
<1>3. /\ scan'[s].old = scan[s].old /\ shared' = shared /\ Visiting(s)
      /\ scan[s].next[p] = NoEntry /\ Known(s) = scan[s].old[p]
      /\ \A q \in Paths \ {p} : scan'[s].next[q] = scan[s].next[q]
      /\ Keeps(s) => scan'[s].next[p] = Known(s)
      /\ Delivers(s) => scan'[s].next[p] = [id |-> scan[s].id, content |-> scan[s].content]
      /\ Drops(s) \/ SendsHere(s) => scan'[s].next[p] = NoEntry
  <2>1. /\ scan'[s].old = scan[s].old /\ shared' = shared /\ Visiting(s)
        /\ Known(s) = scan[s].old[p]
    BY <1>1 DEF OnFile, FileStep, Known
  <2> QED
    BY <1>1, <2>1, FileNext
\* A row that lies at its path and is reported there.
<1>4. ASSUME NEW d \in Ids, NEW c \in Contents, docs[d] = Row(p, c)
      PROVE  Report(d, p, docs[d]) = Row(p, c)
  <2>1. docs[d] \in DocType /\ docs[d].content = c /\ ~docs[d].deleted
    BY <1>4, ScanAssumption DEF DocType, Row
  <2>2. /\ Report(d, p, docs[d]) \in DocType /\ Report(d, p, docs[d]).path = p
        /\ Report(d, p, docs[d]).missing = 0 /\ ~Report(d, p, docs[d]).deleted
    BY <2>1, ReportFacts
  <2>3. Report(d, p, docs[d]).content = c
    BY <2>1 DEF Report, DocType
  <2> DEFINE u == Report(d, p, docs[d])
  <2> HIDE DEF u
  <2>4. u = Row(p, c)
    BY <2>2, <2>3 DEF u, DocType, Row
  <2> QED
    BY <2>4 DEF u
\* What was placed stays so, if it is an entry of another path.
<1>5. ASSUME NEW q \in Paths, NEW e \in Entries, e # NoEntry, Placed(s, q, e), q # p PROVE Placed(s, q, e)'
  <2>1. e.id \in Ids
    BY <1>5, RecordFacts
  <2>2. CASE docs[e.id] = Row(q, e.content) /\ docs'[e.id] = docs[e.id]
    BY <2>2 DEF Placed, Row
  <2>3. CASE docs'[e.id] # docs[e.id]
    <3>1. Rival(s, p, e.id)'
      BY <1>1, <2>1, <2>3, RowStays
    <3> QED
      BY <1>5, <3>1 DEF Placed
  <2>4. CASE e.id \in shared
    BY <1>3, <2>4 DEF Placed
  <2>5. ASSUME NEW x \in Paths \ {q}, Rival(s, x, e.id) PROVE Placed(s, q, e)'
    <3>1. Rival(s, x, e.id)'
      BY <2>1, <2>5, RivalStays
    <3> QED
      BY <3>1 DEF Placed
  <2> QED
    BY <1>5, <2>2, <2>3, <2>4, <2>5 DEF Placed
\* The file's own entry, unless it is delivered anew.
<1>6. ASSUME NEW e \in Entries, e = Known(s), e # NoEntry, ~Delivers(s) PROVE Placed(s, p, e)'
  <2>1. e.id \in Ids /\ e.content \in Contents /\ e = scan[s].old[p]
    BY <1>3, <1>6, RecordFacts
  <2>2. Placed(s, p, e)
    BY <1>3, <1>6, <2>1 DEF EntriesPlaced, Visiting, At
  <2>3. CASE docs[e.id] = Row(p, e.content)
    <3>1. docs'[e.id] # docs[e.id] => docs'[e.id] = Report(e.id, p, docs[e.id])
      BY <1>1, <1>6, <2>1, RowStays
    <3>2. docs'[e.id] = Row(p, e.content)
      BY <1>4, <2>1, <2>3, <3>1
    <3> QED
      BY <3>2 DEF Placed, Row
  <2>4. CASE e.id \in shared
    BY <1>3, <2>4 DEF Placed
  <2>5. ASSUME NEW x \in Paths \ {p}, Rival(s, x, e.id) PROVE Placed(s, p, e)'
    <3>1. Rival(s, x, e.id)'
      BY <2>1, <2>5, RivalStays
    <3> QED
      BY <3>1 DEF Placed
  <2> QED
    BY <2>2, <2>3, <2>4, <2>5 DEF Placed
<1>7. ASSUME NEW q \in Paths, scan'[s].next[q] # NoEntry, NEW e, e = scan'[s].next[q]
      PROVE  Placed(s, q, e)'
  <2>1. CASE q # p
    <3>1. e = scan[s].next[q] /\ e \in Entries /\ e # NoEntry
      BY <1>2, <1>3, <1>7, <2>1
    <3>2. Placed(s, q, e)
      BY <1>7, <3>1 DEF EntriesPlaced
    <3> QED
      BY <1>5, <2>1, <3>1, <3>2
  <2>2. CASE q = p /\ Keeps(s)
    <3>1. e = Known(s) /\ e \in Entries /\ e # NoEntry /\ ~Delivers(s)
      BY <1>2, <1>3, <1>7, <2>2 DEF Keeps, Delivers, At
    <3> QED
      BY <1>6, <2>2, <3>1
  <2>3. CASE q = p /\ Delivers(s)
    <3>1. e = [id |-> scan[s].id, content |-> scan[s].content]
      BY <1>3, <1>7, <2>3
    <3>2. e.id = scan[s].id /\ e.content = scan[s].content
      BY <3>1
    <3>3. At(s, "send") /\ docs' = [docs EXCEPT ![scan[s].id] = Row(p, scan[s].content)]
      BY <1>1, <2>3 DEF Delivers
    <3>4. scan[s].id \in Ids
      BY <3>3 DEF ScansFit
    <3>5. docs'[e.id] = Row(p, e.content)
      BY <1>2, <3>2, <3>3, <3>4
    <3> QED
      BY <2>3, <3>5 DEF Placed, Row
  <2> QED
    BY <1>3, <1>7, <2>1, <2>2, <2>3 DEF OnFile
<1>8. ASSUME NEW q \in Paths, scan'[s].old[q] # NoEntry, scan'[s].next[q] = NoEntry,
             NEW e, e = scan'[s].old[q]
      PROVE  Placed(s, q, e)'
  <2>1. e = scan[s].old[q] /\ e \in Entries /\ e # NoEntry /\ scan[s].next[q] = NoEntry
    BY <1>2, <1>3, <1>8
  <2>2. CASE q # p
    <3>1. Placed(s, q, e)
      BY <1>3, <2>1 DEF EntriesPlaced, Visiting, At
    <3> QED
      BY <1>5, <2>1, <2>2, <3>1
  <2>3. CASE q = p
    <3>1. ~Delivers(s)
      <4>1. [id |-> scan[s].id, content |-> scan[s].content].id # 0
            \/ ~Delivers(s)
        BY RecordFacts DEF Delivers, ScansFit
      <4> QED
        BY <1>3, <1>8, <2>3, <4>1, RecordFacts
    <3> QED
      BY <1>3, <1>6, <2>1, <2>3, <3>1
  <2> QED
    BY <2>2, <2>3
<1> QED
  BY <1>7, <1>8 DEF EntriesPlaced

LEMMA ContentsStayFound ==
    ASSUME STypeOK, ScansFit, NEW s \in Scanners, OnFile(s), ContentsFound(s)
    PROVE  ContentsFound(s)'
<1>1. PICK p \in Paths : p = Here(s)
  BY DEF OnFile, FileStep
<1>2. /\ scan'[s].since = scan[s].since /\ edits' = edits /\ disk' = disk
      /\ (scan'[s].complete => scan[s].complete)
      /\ \A q \in Paths \ {p} : scan'[s].next[q] = scan[s].next[q]
      /\ Keeps(s) => scan'[s].next[p] = Known(s)
      /\ Delivers(s) => scan'[s].next[p] = [id |-> scan[s].id, content |-> scan[s].content]
  BY <1>1, FileNext DEF OnFile, FileStep
<1>3. scan'[s].step \in {"visit", "send"} /\ (scan'[s].step = "send" => SendsHere(s))
  BY DEF OnFile, Drops, Keeps, Delivers, SendsHere, EntersHere
<1>4. ASSUME scan'[s].complete, scan'[s].since = edits'
      PROVE  /\ scan'[s].step = "send" => scan'[s].content = disk'[Here(s)']
             /\ \A q \in Paths \ scan'[s].todo : disk'[q] # None => scan'[s].next[q].content = disk'[q]
  <2>1. /\ At(s, "send") => scan[s].content = disk[p]
        /\ \A q \in Paths \ scan[s].todo : disk[q] # None => scan[s].next[q].content = disk[q]
    BY <1>1, <1>2, <1>4 DEF ContentsFound
  <2>2. CASE SendsHere(s)
    <3>1. Here(s)' = Here(s)
      BY <2>2 DEF SendsHere, Here
    <3>2. scan'[s].content = disk[Here(s)] /\ scan'[s].todo = scan[s].todo /\ scan'[s].next = scan[s].next
      BY <2>2 DEF SendsHere
    <3> QED
      BY <1>2, <2>1, <3>1, <3>2
  <2>3. CASE Keeps(s)
    <3>1. Known(s).content = disk[p] /\ scan'[s].todo = scan[s].todo \ {p} /\ scan'[s].step = "visit"
      BY <1>1, <2>3 DEF Keeps, EntersHere
    <3> QED
      BY <1>2, <2>1, <2>3, <3>1
  <2>4. CASE Delivers(s)
    <3>1. At(s, "send") /\ scan'[s].todo = scan[s].todo \ {p} /\ scan'[s].step = "visit"
      BY <1>1, <2>4 DEF Delivers, EntersHere
    <3>2. scan'[s].next[p].content = disk[p]
      BY <1>2, <2>1, <2>4, <3>1
    <3> QED
      BY <1>2, <2>1, <3>1, <3>2
  <2>5. ~Drops(s)
    BY <1>4 DEF Drops
  <2> QED
    BY <2>2, <2>3, <2>4, <2>5 DEF OnFile
<1> QED
  BY <1>2, <1>3, <1>4 DEF ContentsFound, At

\* A step of the only running scan after which it still runs.
LEMMA FoundWhileRunning ==
    ASSUME STypeOK, OneScan, FoundFit, NEW s \in Scanners, Running(s), Running(s)',
           \A t \in Scanners \ {s} : scan'[t].step = scan[t].step,
           UNCHANGED <<overlapped, troubles>>,
           Clean /\ EntriesPlaced(s) /\ ContentsFound(s) => EntriesPlaced(s)' /\ ContentsFound(s)'
    PROVE  FoundFit'
<1> SUFFICES ASSUME Clean'
             PROVE  /\ \A t \in Scanners : Running(t)' => EntriesPlaced(t)' /\ ContentsFound(t)'
                    /\ ~\A t \in Scanners : ~Running(t)'
  BY DEF FoundFit
<1>1. Clean
  BY DEF Clean
<1>2. EntriesPlaced(s) /\ ContentsFound(s)
  BY <1>1 DEF FoundFit
<1>3. EntriesPlaced(s)' /\ ContentsFound(s)'
  BY <1>1, <1>2
<1>4. \A t \in Scanners \ {s} : ~Running(t)'
  BY <1>1, OthersAreNot DEF Clean
<1> QED
  BY <1>3, <1>4

LEMMA FoundAfterEdit ==
    ASSUME STypeOK, FoundFit, Edit
    PROVE  FoundFit'
<1>1. UNCHANGED <<saved, docs, scan, troubles, overlapped, shared>> /\ edits' = edits + 1
  BY DEF Edit
<1>2. edits \in Nat /\ \A s \in Scanners : scan[s].since \in Nat
  BY ScanAssumption DEF STypeOK, ScanType
<1>3. ASSUME NEW s \in Scanners, EntriesPlaced(s) PROVE EntriesPlaced(s)'
  BY <1>1, <1>3 DEF EntriesPlaced, Placed, Rival, Row, At, Here
<1>4. ASSUME NEW s \in Scanners, ContentsFound(s) PROVE ContentsFound(s)'
  <2>1. scan[s].since <= edits /\ (At(s, "save") => scan[s].todo = {})
    BY <1>4 DEF ContentsFound
  <2>2. scan'[s].since <= edits' /\ scan'[s].since # edits'
    BY <1>1, <1>2, <2>1
  <2> QED
    BY <1>1, <2>1, <2>2 DEF ContentsFound, At
<1>5. SavedPlaced => SavedPlaced'
  BY <1>1 DEF SavedPlaced, Row
<1>6. (Clean' => Clean) /\ \A s \in Scanners : Running(s)' <=> Running(s)
  BY <1>1 DEF Clean, Running, At
<1> QED
  BY <1>3, <1>4, <1>5, <1>6 DEF FoundFit

LEMMA FoundAfterStart ==
    ASSUME STypeOK, FoundFit, NEW s \in Scanners, Start(s)
    PROVE  FoundFit'
<1> SUFFICES ASSUME Clean' PROVE FoundFit'
  BY DEF FoundFit
<1>1. Started(s)
  BY StartCase
<1>2. Clean /\ \A t \in Scanners : ~Running(t)
  BY <1>1 DEF Started, Clean
<1>3. SavedPlaced
  BY <1>2 DEF FoundFit
<1>4. \A t \in Scanners \ {s} : ~Running(t)'
  BY <1>1, <1>2 DEF Started, SameBut, Running, At
<1>5. /\ scan'[s].step = "visit" /\ scan'[s].old = saved /\ scan'[s].next = NoState
      /\ scan'[s].todo = {p \in Paths : disk[p] # None}
      /\ UNCHANGED <<disk, docs, shared, edits>>
  BY <1>1 DEF Started
<1>6. scan'[s].since = edits
  <2> DEFINE r == [NoScan EXCEPT !.step = "visit", !.old = saved, !.complete = TRUE,
                                 !.todo = {p \in Paths : disk[p] # None},
                                 !.after = {u \in Scanners : ~At(u, "no")},
                                 !.behind = Ids, !.since = edits]
  <2>1. scan'[s] = r
    BY DEF Start
  <2>2. r.since = edits
    BY DEF NoScan
  <2> QED
    BY <2>1, <2>2
<1>7. EntriesPlaced(s)'
  <2>1. \A p \in Paths : scan'[s].next[p] = NoEntry
    BY <1>5 DEF NoState
  <2>2. ASSUME NEW p \in Paths, NEW e, e = scan'[s].old[p], e # NoEntry PROVE Placed(s, p, e)'
    BY <1>3, <1>5, <2>2 DEF SavedPlaced, Placed, Row
  <2> QED
    BY <2>1, <2>2 DEF EntriesPlaced
<1>8. ContentsFound(s)'
  <2>1. scan'[s].since <= edits'
    <3>1. edits \in Nat
      BY ScanAssumption DEF STypeOK
    <3> QED
      BY <1>5, <1>6, <3>1
  <2> QED
    BY <1>5, <2>1 DEF ContentsFound, At
<1>9. Running(s)'
  BY <1>5 DEF Running, At
<1> QED
  BY <1>4, <1>7, <1>8, <1>9 DEF FoundFit

LEMMA FoundAfterReconcile ==
    ASSUME ScanInv, OneScan, MetFit, FoundFit, NEW s \in Scanners, Reconcile(s)
    PROVE  FoundFit'
<1> SUFFICES ASSUME Clean' PROVE FoundFit'
  BY DEF FoundFit
<1>1. STypeOK /\ scan \in [Scanners -> ScanType] /\ docs \in [Ids -> DocType \cup {NoDoc}]
      /\ scan[s] \in ScanType /\ scan[s].next \in [Paths -> Entries] /\ scan[s].old \in [Paths -> Entries]
  BY DEF ScanInv, STypeOK, ScanType
<1>2. Confirm(s) /\ NoTrouble /\ scan' = [scan EXCEPT ![s].step = "save"]
  BY <1>1, NoTroubleAtAll DEF Reconcile, Clean
<1>3. /\ At(s, "visit") /\ scan[s].todo = {} /\ UNCHANGED <<disk, saved, shared, edits, overlapped, troubles>>
  BY <1>2 DEF Reconcile, tallies, NoTrouble
<1>4. /\ scan'[s] = [scan[s] EXCEPT !.step = "save"] /\ \A t \in Scanners \ {s} : scan'[t] = scan[t]
  BY <1>1, <1>2
<1>5. /\ scan'[s].step = "save" /\ scan'[s].next = scan[s].next /\ scan'[s].old = scan[s].old
      /\ scan'[s].todo = {} /\ scan'[s].complete = scan[s].complete /\ scan'[s].since = scan[s].since
  BY <1>1, <1>3, <1>4 DEF ScanType
<1>6. ~overlapped /\ Visiting(s) /\ ~At(s, "send") /\ ~At(s, "save")
  BY <1>3 DEF Clean, Visiting, At
\* The documents that it has entries for are not counted, and without them nothing is.
<1>7. ASSUME NEW d \in Ids, ~scan[s].complete \/ d \notin scan[s].behind PROVE docs'[d] = docs[d]
  BY <1>2, <1>7 DEF Confirm, Unreported
<1>8. ASSUME NEW q \in Paths, NEW d \in Ids, Rival(s, q, d) PROVE Rival(s, q, d)'
  BY <1>5, <1>6, <1>8 DEF Rival
<1>9. ASSUME NEW p \in Paths, NEW e \in Entries, e # NoEntry, Placed(s, p, e), docs'[e.id] = docs[e.id]
      PROVE  Placed(s, p, e)'
  <2>1. e.id \in Ids
    BY <1>9, RecordFacts
  <2>2. CASE docs[e.id] = Row(p, e.content)
    BY <1>9, <2>2 DEF Placed, Row
  <2>3. CASE e.id \in shared
    BY <1>3, <2>3 DEF Placed
  <2>4. ASSUME NEW q \in Paths \ {p}, Rival(s, q, e.id) PROVE Placed(s, p, e)'
    <3>1. Rival(s, q, e.id)'
      BY <1>8, <2>1, <2>4
    <3> QED
      BY <3>1 DEF Placed
  <2> QED
    BY <1>9, <2>2, <2>3, <2>4 DEF Placed
<1>10. EntriesPlaced(s) => EntriesPlaced(s)'
  <2> SUFFICES ASSUME EntriesPlaced(s) PROVE EntriesPlaced(s)'
    OBVIOUS
  <2>1. ASSUME NEW p \in Paths, NEW e, e = scan'[s].next[p], e # NoEntry PROVE Placed(s, p, e)'
    <3>1. e = scan[s].next[p] /\ e \in Entries /\ e.id \in Ids
      BY <1>1, <1>5, <2>1, RecordFacts
    <3>2. Placed(s, p, e)
      BY <2>1, <3>1 DEF EntriesPlaced
    <3>3. scan[s].complete => e.id \notin scan[s].behind
      BY <1>6, <2>1, <3>1 DEF MetFit
    <3> QED
      BY <1>7, <1>9, <2>1, <3>1, <3>2, <3>3
  <2>2. ASSUME NEW p \in Paths, NEW e, e = scan'[s].old[p], e # NoEntry, scan'[s].next[p] = NoEntry,
               ~scan'[s].complete
        PROVE  Placed(s, p, e)'
    <3>1. e = scan[s].old[p] /\ e \in Entries /\ e.id \in Ids /\ scan[s].next[p] = NoEntry
      BY <1>1, <1>5, <2>2, RecordFacts
    <3>2. Placed(s, p, e)
      BY <1>6, <2>2, <3>1 DEF EntriesPlaced
    <3> QED
      BY <1>5, <1>7, <1>9, <2>2, <3>1, <3>2
  <2> QED
    BY <1>5, <2>1, <2>2 DEF EntriesPlaced, At
<1>11. ContentsFound(s) => ContentsFound(s)'
  BY <1>3, <1>5 DEF ContentsFound, At
<1>12. Running(s) /\ Running(s)' /\ \A t \in Scanners \ {s} : scan'[t].step = scan[t].step
  BY <1>3, <1>4, <1>5 DEF Running, At
<1> QED
  BY <1>1, <1>3, <1>10, <1>11, <1>12, FoundWhileRunning

\* What a scan saves lies where it says, or is on record as shared.
LEMMA SaveFinds ==
    ASSUME STypeOK, NEW s \in Scanners, Save(s), EntriesPlaced(s), NEW p \in Paths, saved'[p] # NoEntry
    PROVE  docs[saved'[p].id] = Row(p, saved'[p].content) \/ saved'[p].id \in shared'
<1>1. /\ At(s, "save") /\ ~At(s, "send")
      /\ saved' = [q \in Paths |-> IF q \in Forgotten(s) \/ scan[s].next[q] # NoEntry
                                   THEN scan[s].next[q] ELSE scan[s].old[q]]
      /\ shared' = shared \cup {d \in Ids : \E q, x \in Paths :
                                  q # x /\ saved'[q].id = d /\ saved'[x].id = d}
  BY DEF Save, At
<1>2. scan[s].next \in [Paths -> Entries] /\ scan[s].old \in [Paths -> Entries]
  BY DEF STypeOK, ScanType
<1> DEFINE e == saved'[p]
<1>3. e \in Entries /\ e # NoEntry /\ e.id \in Ids
  BY <1>1, <1>2, RecordFacts
<1>4. Placed(s, p, e)
  <2>1. CASE scan[s].next[p] # NoEntry
    BY <1>1, <2>1 DEF EntriesPlaced
  <2>2. CASE scan[s].next[p] = NoEntry
    <3>1. e = scan[s].old[p] /\ ~scan[s].complete
      BY <1>1, <1>3, <2>2 DEF Forgotten
    <3> QED
      BY <1>3, <2>2, <3>1 DEF EntriesPlaced
  <2> QED
    BY <2>1, <2>2
<1>5. ASSUME NEW q \in Paths \ {p}, Rival(s, q, e.id) PROVE e.id \in shared'
  <2>1. saved'[q].id = e.id
    <3>1. CASE scan[s].next[q].id = e.id
      BY <1>1, <1>3, <3>1, RecordFacts
    <3>2. CASE scan[s].next[q].id # e.id
      <4>1. scan[s].old[q].id = e.id /\ scan[s].next[q] = NoEntry /\ ~scan[s].complete
        BY <1>1, <1>5, <3>2 DEF Rival
      <4> QED
        BY <1>1, <4>1 DEF Forgotten
    <3> QED
      BY <3>1, <3>2
  <2> QED
    BY <1>1, <1>3, <2>1
<1> QED
  BY <1>1, <1>4, <1>5 DEF Placed

LEMMA FoundAfterEnd ==
    ASSUME STypeOK, OneScan, FoundFit, NEW s \in Scanners, Save(s) \/ Die(s)
    PROVE  FoundFit'
<1> SUFFICES ASSUME Clean' PROVE FoundFit'
  BY DEF FoundFit
<1>1. Save(s)
  BY NoTroubleAtAll DEF Die, Clean
<1>2. Ended(s)
  BY EndCases
<1>3. scan'[s] = NoScan /\ (\A t \in Scanners \ {s} : scan'[t] = scan[t]) /\ Running(s) /\ docs' = docs
      /\ UNCHANGED <<overlapped, troubles>>
  BY <1>1, <1>2 DEF Ended, STypeOK, Save, tallies
<1>4. Clean /\ EntriesPlaced(s)
  BY <1>3 DEF FoundFit, Clean
<1>5. \A t \in Scanners : ~Running(t)'
  <2>1. \A t \in Scanners \ {s} : ~Running(t)'
    BY <1>3, <1>4, OthersAreNot DEF Clean
  <2> QED
    BY <1>3, <2>1, RecordFacts DEF Running, At
<1>6. ASSUME NEW p \in Paths, saved'[p] # NoEntry
      PROVE  docs'[saved'[p].id] = Row(p, saved'[p].content) \/ saved'[p].id \in shared'
  BY <1>1, <1>3, <1>4, <1>6, SaveFinds
<1>7. SavedPlaced'
  BY <1>6 DEF SavedPlaced, Row
<1> QED
  BY <1>5, <1>7 DEF FoundFit

LEMMA FoundFitKept ==
    ASSUME ScanInv, OneScan, MetFit, FoundFit, SNext
    PROVE  FoundFit'
<1>1. STypeOK /\ ScansFit
  BY DEF ScanInv
<1>2. CASE Edit
  BY <1>1, <1>2, FoundAfterEdit
<1>3. ASSUME NEW s \in Scanners, Start(s) PROVE FoundFit'
  BY <1>1, <1>3, FoundAfterStart
<1>4. ASSUME NEW s \in Scanners, Skip(s) \/ ReportSeen(s) \/ Choose(s) \/ Send(s) PROVE FoundFit'
  <2> SUFFICES ASSUME Clean' PROVE FoundFit'
    BY DEF FoundFit
  <2>1. OnFile(s)
    BY <1>1, <1>4, SkipIsFileStep, SeenIsFileStep, ChooseIsFileStep, SendIsFileStep DEF OnFile, Clean
  <2>2. scan'[s].step \in {"visit", "send"}
    BY <2>1 DEF OnFile, Drops, Keeps, Delivers, SendsHere, EntersHere
  <2>3. /\ Running(s) /\ Running(s)' /\ UNCHANGED <<overlapped, troubles>>
        /\ \A t \in Scanners \ {s} : scan'[t].step = scan[t].step
    BY <2>1, <2>2 DEF OnFile, FileStep, Visiting, Running, At
  <2>4. EntriesPlaced(s) /\ ContentsFound(s) => EntriesPlaced(s)' /\ ContentsFound(s)'
    BY <1>1, <2>1, EntriesStayPlaced, ContentsStayFound
  <2> QED
    BY <1>1, <2>3, <2>4, FoundWhileRunning
<1>5. ASSUME NEW s \in Scanners, Reconcile(s) PROVE FoundFit'
  BY <1>5, FoundAfterReconcile
<1>6. ASSUME NEW s \in Scanners, Save(s) \/ Die(s) PROVE FoundFit'
  BY <1>1, <1>6, FoundAfterEnd
<1> QED
  BY <1>2, <1>3, <1>4, <1>5, <1>6 DEF SNext

\* When a scan that met no error, no other scan and no edit saves its state, nothing having
\* failed before, each file of the folder is the content of a document of its own, or of one
\* that two paths of a saved state shared.
THEOREM FoundIsKnownHolds == SSpec => FoundIsKnown
<1> DEFINE Step == \A s \in Scanners : Ends(s) /\ troubles = 0 /\ scan[s].since = edits =>
         \A p \in Paths : disk[p] # None =>
             /\ saved'[p].content = disk[p]
             /\ LET d == saved'[p].id
                IN  \/ docs[d] = [path |-> p, content |-> disk[p], missing |-> 0, deleted |-> FALSE]
                    \/ d \in shared'
<1>1. SInit => FoundInv
  <2> SUFFICES ASSUME SInit PROVE FoundInv
    OBVIOUS
  <2>1. ScanInv /\ AloneFit
    BY InitScanInv DEF KeptInv
  <2>2. /\ \A p \in Paths : saved[p] = NoEntry
        /\ \A s \in Scanners : ~Running(s)
    BY RecordFacts DEF SInit, NoState, Running, At
  <2> QED
    BY <2>1, <2>2 DEF FoundInv, FoundFit, SavedPlaced
<1>2. FoundInv /\ [SNext]_scanVars => FoundInv'
  <2>1. ASSUME FoundInv, SNext PROVE FoundInv'
    BY <2>1, ScanInvKept, OneScanKept, MetFitKept, SavingFitKept, FoundFitKept DEF FoundInv, AloneFit
  <2>2. ASSUME FoundInv, UNCHANGED scanVars PROVE FoundInv'
    <3>1. ScanInv'
      BY <2>2, ScanInvKept DEF FoundInv
    <3>2. UNCHANGED <<disk, saved, docs, scan, edits, troubles, overlapped, shared>>
      BY <2>2 DEF scanVars
    <3>3. AloneFit'
      BY <2>2, <3>2 DEF FoundInv, AloneFit, OneScan, MetFit, SavingFit, Running, Visiting, At, Exists
    <3>4. /\ \A s \in Scanners : (EntriesPlaced(s)' <=> EntriesPlaced(s)) /\ (ContentsFound(s)' <=> ContentsFound(s))
          /\ \A s \in Scanners : Running(s)' <=> Running(s)
          /\ (SavedPlaced' <=> SavedPlaced) /\ (Clean' <=> Clean)
      BY <3>2 DEF EntriesPlaced, Placed, Rival, Row, ContentsFound, SavedPlaced, Clean, Running, At, Here
    <3>5. FoundFit'
      BY <2>2, <3>4 DEF FoundInv, FoundFit
    <3> QED
      BY <3>1, <3>3, <3>5 DEF FoundInv
  <2> QED
    BY <2>1, <2>2
<1>3. ASSUME FoundInv PROVE Step
  <2> SUFFICES ASSUME NEW s \in Scanners, Ends(s), troubles = 0, scan[s].since = edits,
                      NEW p \in Paths, disk[p] # None
               PROVE  /\ saved'[p].content = disk[p]
                      /\ LET d == saved'[p].id
                         IN  \/ docs[d] = [path |-> p, content |-> disk[p], missing |-> 0, deleted |-> FALSE]
                             \/ d \in shared'
    OBVIOUS
  <2>1. scan[s].complete /\ ~overlapped /\ At(s, "save") /\ Save(s)
    BY DEF Ends, Save
  <2>2. STypeOK /\ EntriesPlaced(s) /\ ContentsFound(s)
    BY <1>3, <2>1 DEF FoundInv, ScanInv, FoundFit, Clean, Running, At
  <2>3. saved'[p] = scan[s].next[p]
    BY <2>1 DEF Save, Forgotten
  <2>4. scan[s].next[p].content = disk[p]
    BY <2>1, <2>2 DEF ContentsFound
  <2>5. saved'[p] # NoEntry
    BY <2>3, <2>4, RecordFacts
  <2>6. docs[saved'[p].id] = Row(p, saved'[p].content) \/ saved'[p].id \in shared'
    BY <2>1, <2>2, <2>5, SaveFinds
  <2> QED
    BY <2>3, <2>4, <2>6 DEF Row
<1>4. FoundInv /\ [SNext]_scanVars => [Step]_scanVars
  BY <1>3
<1> HIDE DEF Step
<1>5. SSpec => [][Step]_scanVars
  BY <1>1, <1>2, <1>4, PTL DEF SSpec
<1> QED
  BY <1>5 DEF FoundIsKnown, Step
=============================================================================

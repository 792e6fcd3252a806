--------------------------- MODULE VectorsProofs ---------------------------
(***************************************************************************)
(* Theorems about Vectors for every number of versions, batches, uploads   *)
(* and disturbances.                                                       *)
(***************************************************************************)
EXTENDS Vectors, TLAPS

-----------------------------------------------------------------------------
(* The inductive invariant                                                 *)

CountsFit ==
    /\ count \in [Events \cup {"upload"} -> Nat]
    /\ count["delete"] + count["expire"] + count["configure"] + count["look"]
           + count["trouble"] <= MaxEvents
    /\ on \in BOOLEAN /\ backfill \in BOOLEAN /\ overlooked \in BOOLEAN

\* An attempt above the budget is paid for by a death, with one to spare while nothing
\* runs the job.
Budget == MaxAttempts + count["trouble"]
JobsFit ==
    \A j \in Jobs :
        /\ tries[j] <= Budget
        /\ status[j] = "none" => tries[j] = 0
        /\ status[j] \in {"queued", "delayed"} => tries[j] < Budget
        /\ status[j] = "running" /\ hand.job # j => tries[j] < Budget

\* The steps a handler goes through, by the kind of its job.
Steps == [extract |-> {"parse", "filling", "chunks", "visuals", "commit", "enqueue"},
          render_visual |-> {"parse", "filling", "dropVisual", "forget", "visuals", "rendered",
                             "enqueue"},
          embed_text |-> {"embed", "record"},
          embed_visual |-> {"lost", "withdraw", "dropVisual", "embed", "record"},
          mark_historical |-> {"mark"},
          delete_vectors |-> {"drop"},
          delete_version_vectors |-> {"dropVisual"}]

Embedding == hand.step \in {"embed", "record"}

HandFits ==
    /\ hand = [job |-> hand.job, step |-> hand.step, at |-> hand.at]
    /\ hand.job \in Jobs \cup {Idle.job} /\ hand.at \in Nat
    /\ hand.job = Idle.job <=> hand.step \in {"idle", "booting"}
    /\ hand.job \in Jobs =>
          /\ status[hand.job] = "running"
          /\ hand.step \in {"claimed", "returned", "raised"} \cup Steps[Kind]
    /\ Embedding => hand.at <= Batches[Modality]
    /\ hand.step = "record" => hand.at < Batches[Modality]
    /\ hand.step = "claimed" => hand.at = 0

\* What delete_vectors leaves behind it, and that nothing is embedded afterwards.
VectorsGone ==
    /\ doc.deleted /\ status[DeleteVectors] = "none" => points = {} /\ ~Embedding
    /\ hand.job = DeleteVectors /\ hand.step = "returned" => points = {}
    /\ hand.job = DeleteVectors /\ hand.step = "drop" /\ hand.at # 0 =>
          \A p \in points : p[2] = "visual"

\* What embeds previews has found them.
PreviewsFound ==
    Embedding /\ Kind = "embed_visual" /\ row[Subject].state = "indexed"
              /\ ~row[Subject].replacing => "visual" \in row[Subject].has

VInv == VTypeOK /\ CountsFit /\ JobsFit /\ HandFits /\ VectorsGone /\ PreviewsFound
            /\ VisualHasPreviews

-----------------------------------------------------------------------------
(* Jobs                                                                    *)

LEMMA JobFacts ==
    /\ Idle.job = <<"idle", None>> /\ Idle.job \notin Jobs
    /\ DeleteVectors \in Jobs /\ DeleteVectors[1] = "delete_vectors"
    /\ \A j \in Jobs :
          /\ j[1] \in {"extract", "render_visual", "embed_text", "embed_visual", "mark_historical",
                      "delete_vectors", "delete_version_vectors"}
          /\ j[1] = "delete_vectors" <=> j = DeleteVectors
          /\ j[1] # "delete_vectors" => j[2] \in Versions /\ j = <<j[1], j[2]>>
    /\ \A v \in Versions : <<"extract", v>> \in Jobs /\ <<"mark_historical", v>> \in Jobs
BY DEF Idle, Jobs, DeleteVectors, Priority

LEMMA EmbedFacts ==
    /\ DOMAIN Embeds = {"embed_text", "embed_visual"}
    /\ Embeds["embed_text"] = "text" /\ Embeds["embed_visual"] = "visual"
    /\ Embeds.embed_text = "text" /\ Embeds.embed_visual = "visual"
BY DEF Embeds

\* create_job never takes an attempt from a job that has some left, and leaves the jobs
\* it was not asked for and those that wait or run as they are.
LEMMA CreateJobsFit ==
    ASSUME VInv, NEW asked, CreateJobs(asked),
           hand'.job = hand.job, count'["trouble"] = count["trouble"]
    PROVE  /\ status' \in [Jobs -> {"none", "queued", "delayed", "running", "failed"}]
           /\ tries' \in [Jobs -> 0..(MaxAttempts + MaxEvents)]
           /\ overlooked' \in BOOLEAN
           /\ JobsFit'
           /\ \A j \in Jobs : status[j] \notin {"none", "failed"} => status'[j] = status[j]
           /\ \A j \in Jobs \cap asked : status'[j] # "none"
           /\ \A j \in Jobs : status[j] # "none" => status'[j] # "none"
<1> USE VectorsAssumption DEF VInv
<1>1. /\ status' \in [Jobs -> {"none", "queued", "delayed", "running", "failed"}]
      /\ tries' \in [Jobs -> 0..(MaxAttempts + MaxEvents)]
  BY DEF CreateJobs, VTypeOK, QueueOK
<1>2. overlooked' \in BOOLEAN
  BY DEF CreateJobs, CountsFit
<1>3. Budget \in Nat /\ Budget > 0 /\ Budget' = Budget
  BY DEF Budget, CountsFit, Events
<1>4. ASSUME NEW j \in Jobs
      PROVE  /\ tries'[j] <= Budget'
             /\ status'[j] = "none" => tries'[j] = 0
             /\ status'[j] \in {"queued", "delayed"} => tries'[j] < Budget'
             /\ status'[j] = "running" /\ hand'.job # j => tries'[j] < Budget'
  <2>1. /\ tries[j] <= Budget
        /\ status[j] = "none" => tries[j] = 0
        /\ status[j] \in {"queued", "delayed"} => tries[j] < Budget
        /\ status[j] = "running" /\ hand.job # j => tries[j] < Budget
    BY DEF JobsFit
  <2>2. /\ status'[j] = IF j \in asked /\ status[j] \in {"none", "failed"} THEN "queued" ELSE status[j]
        /\ tries'[j] = IF j \in asked /\ status[j] = "failed" THEN 0 ELSE tries[j]
    BY DEF CreateJobs
  <2> HIDE DEF VInv
  <2> QED
    BY <1>3, <2>1, <2>2
<1>5. JobsFit'
  BY <1>4 DEF JobsFit
<1> QED
  BY <1>1, <1>2, <1>5 DEF CreateJobs

\* The handler's step tells what kind of job it has.
LEMMA KindOfStep ==
    ASSUME VInv, hand.step \notin {"idle", "booting"}
    PROVE  /\ hand.job \in Jobs /\ status[hand.job] = "running"
           /\ hand.step \in {"chunks", "commit"} => Kind = "extract"
           /\ hand.step \in {"parse", "filling", "visuals", "enqueue"} =>
                 Kind \in {"extract", "render_visual"}
           /\ hand.step \in {"forget", "rendered"} => Kind = "render_visual"
           /\ hand.step \in {"lost", "withdraw"} => Kind = "embed_visual"
           /\ Embedding => Kind \in DOMAIN Embeds /\ Modality \in Modalities
           /\ hand.step = "mark" => Kind = "mark_historical"
           /\ hand.step = "drop" => hand.job = DeleteVectors
           /\ hand.step = "dropVisual" =>
                 Kind \in {"render_visual", "embed_visual", "delete_version_vectors"}
           /\ hand.step \notin {"claimed", "returned", "raised", "drop"} =>
                 Kind # "delete_vectors" /\ Subject \in Versions
<1>1. hand.job \in Jobs /\ status[hand.job] = "running"
      /\ hand.step \in {"claimed", "returned", "raised"} \cup Steps[Kind]
  BY JobFacts DEF VInv, HandFits
<1>2. /\ Kind \in {"extract", "render_visual", "embed_text", "embed_visual", "mark_historical",
                    "delete_vectors", "delete_version_vectors"}
      /\ Kind = "delete_vectors" <=> hand.job = DeleteVectors
      /\ Kind # "delete_vectors" => Subject \in Versions
  BY <1>1, JobFacts DEF Kind, Subject
<1>3. hand.step \in {"claimed", "returned", "raised"} \/
        \/ Kind = "extract"
           /\ hand.step \in {"parse", "filling", "chunks", "visuals", "commit", "enqueue"}
        \/ Kind = "render_visual"
           /\ hand.step \in {"parse", "filling", "dropVisual", "forget", "visuals", "rendered",
                             "enqueue"}
        \/ Kind = "embed_text" /\ hand.step \in {"embed", "record"}
        \/ Kind = "embed_visual"
           /\ hand.step \in {"lost", "withdraw", "dropVisual", "embed", "record"}
        \/ Kind = "mark_historical" /\ hand.step = "mark"
        \/ Kind = "delete_vectors" /\ hand.step = "drop"
        \/ Kind = "delete_version_vectors" /\ hand.step = "dropVisual"
  BY <1>1, <1>2 DEF Steps
<1> HIDE DEF Kind
<1>4. Embedding => Kind \in DOMAIN Embeds /\ Modality \in Modalities
  BY <1>3, EmbedFacts DEF Embedding, Modality, Modalities
<1> QED
  BY <1>1, <1>2, <1>3, <1>4

-----------------------------------------------------------------------------
(* Types                                                                   *)

\* The version rows: every write is a well-formed row, or leaves an absent one alone.
LEMMA RowsKeepTypes ==
    ASSUME VInv, VNext
    PROVE  RowsOK'
<1> USE VectorsAssumption
<1>0. /\ row \in [Versions -> RowType]
      /\ \A v \in Versions : row[v].state = "absent" => row[v] = NoRow
      /\ NoRow \in RowType
  BY DEF VInv, VTypeOK, RowsOK, RowType, NoRow
<1>00. SUFFICES ASSUME row' # row PROVE RowsOK'
  BY <1>0 DEF RowsOK
<1>1. ASSUME NEW v \in Versions, NEW new \in RowType, row[v].state # "absent" => new.state # "absent",
             row' = IF row[v].state # "absent" THEN [row EXCEPT ![v] = new] ELSE row
      PROVE  RowsOK'
  BY <1>0, <1>1 DEF RowsOK
<1>2. ASSUME NEW v \in Versions, Upload(v) PROVE RowsOK'
  <2>1. row' = [row EXCEPT ![v].state = "staged", ![v].raw = TRUE]
        \/ (row[v].state = "indexed" /\ row' = [row EXCEPT ![v].raw = TRUE])
    BY <1>00, <1>2 DEF Upload
  <2>2. CASE row' = [row EXCEPT ![v].state = "staged", ![v].raw = TRUE]
    <3>1. [row[v] EXCEPT !.state = "staged", !.raw = TRUE] \in RowType
      BY <1>0 DEF RowType
    <3>2. row' = [row EXCEPT ![v] = [row[v] EXCEPT !.state = "staged", !.raw = TRUE]]
      BY <2>2
    <3> QED
      BY <1>0, <3>1, <3>2 DEF RowsOK, RowType
  <2>3. CASE row[v].state = "indexed" /\ row' = [row EXCEPT ![v].raw = TRUE]
    BY <1>0, <2>3 DEF RowsOK, RowType
  <2> QED
    BY <2>1, <2>2, <2>3
<1>3. CASE Delete
  BY <1>0, <1>3 DEF Delete, RowsOK
<1>4. CASE Withhold
  <2>1. PICK v \in {missed, doc.current} \ {None} :
          row' = IF Exists(v)
                 THEN [row EXCEPT ![v].batches = TextOnly(@), ![v].ready = Withdrawn(v),
                                  ![v].recovery = TRUE]
                 ELSE row
    BY <1>4 DEF Withhold
  <2>2. v \in Versions
    BY <2>1 DEF VInv, VTypeOK
  <2> DEFINE new == [row[v] EXCEPT !.batches = TextOnly(@), !.ready = Withdrawn(v),
                                  !.recovery = TRUE]
  <2>3. new \in RowType /\ new.state = row[v].state
    <3>1. row[v] \in RowType
      BY <1>0, <2>2
    <3>2. TextOnly(row[v].batches) \in SUBSET Pieces /\ Withdrawn(v) \in SUBSET Modalities
      BY <3>1 DEF RowType, TextOnly, Withdrawn
    <3> QED
      BY <3>1, <3>2 DEF RowType
  <2>4. row' = IF row[v].state # "absent" THEN [row EXCEPT ![v] = new] ELSE row
    BY <1>0, <2>1, <2>2 DEF Exists
  <2> HIDE DEF new
  <2> QED
    BY <1>1, <2>2, <2>3, <2>4
<1>5. CASE Expire
  <2>1. PICK vs \in SUBSET {v \in Versions : "visual" \in row[v].has}, raws \in SUBSET Versions :
          row' = [v \in Versions |->
                    [row[v] EXCEPT !.raw = IF v \in raws THEN FALSE ELSE @,
                                   !.has = IF v \in vs THEN @ \ {"visual"} ELSE @,
                                   !.ready = IF v \in vs THEN Withdrawn(v) ELSE @,
                                   !.recovery = IF v \in vs THEN TRUE ELSE @,
                                   !.batches = IF v \in vs THEN TextOnly(@) ELSE @]]
    BY <1>5 DEF Expire
  <2>2. ASSUME NEW v \in Versions
        PROVE  row'[v] \in RowType /\ (row'[v].state = "absent" => row'[v] = NoRow)
    <3>1. row'[v] = [row[v] EXCEPT !.raw = IF v \in raws THEN FALSE ELSE @,
                                   !.has = IF v \in vs THEN @ \ {"visual"} ELSE @,
                                   !.ready = IF v \in vs THEN Withdrawn(v) ELSE @,
                                   !.recovery = IF v \in vs THEN TRUE ELSE @,
                                   !.batches = IF v \in vs THEN TextOnly(@) ELSE @]
      BY <1>0, <2>1
    <3>2. row[v] \in RowType
      BY <1>0
    <3>3. row'[v] \in RowType /\ row'[v].state = row[v].state
      <4>1. /\ Withdrawn(v) \in SUBSET Modalities /\ row[v].has \ {"visual"} \in SUBSET Modalities
            /\ TextOnly(row[v].batches) \in SUBSET Pieces
        BY <3>2 DEF RowType, Withdrawn, TextOnly
      <4>2. CASE v \in vs
        BY <3>1, <3>2, <4>1, <4>2 DEF RowType
      <4>3. CASE v \notin vs
        BY <3>1, <3>2, <4>3 DEF RowType
      <4> QED
        BY <4>2, <4>3
    <3>4. ASSUME row[v].state = "absent" PROVE row'[v] = NoRow
      <4>0. v \in vs => "visual" \in row[v].has
        OBVIOUS
      <4>1. row[v] = NoRow /\ v \notin vs
        BY <1>0, <3>4, <4>0 DEF NoRow
      <4>2. row'[v].raw = FALSE /\ row'[v].recovery = FALSE /\ row'[v].has = {} /\ row'[v].ready = {}
            /\ row'[v].batches = {} /\ row'[v].replacing = FALSE /\ row'[v].state = "absent"
        BY <3>1, <3>2, <4>1 DEF NoRow, RowType
      <4> QED
        BY <3>3, <4>2 DEF NoRow, RowType
    <3> QED
      BY <3>3, <3>4
  <2> QED
    BY <2>1, <2>2 DEF RowsOK
<1>6. CASE Handler
  <2>1. ASSUME NEW s \in {"chunks", "visuals", "forget", "rendered", "lost", "withdraw", "embed", "record"},
               NEW next, NEW new, Update(s, new, next),
               row[Subject] \in RowType => new \in RowType /\ new.state = row[Subject].state
        PROVE  RowsOK'
    <3>1. Subject \in Versions
      BY <2>1, KindOfStep DEF Update, At
    <3> QED
      BY <1>0, <1>1, <2>1, <3>1 DEF Update, Exists
  <2>2. CASE ReplaceChunks
    BY <2>1, <2>2 DEF ReplaceChunks, Insert, RowType, Modalities
  <2>3. CASE ReplaceVisuals
    BY <2>1, <2>3 DEF ReplaceVisuals, Insert, RowType, Modalities
  <2>4. CASE ForgetBatches
    BY <2>1, <2>4 DEF ForgetBatches, RowType, TextOnly
  <2>5. CASE Rendered
    BY <2>1, <2>5 DEF Rendered, RowType, Withdrawn
  <2>6. CASE LoseBatches
    BY <2>1, <2>6 DEF LoseBatches, RowType, TextOnly
  <2>7. CASE Withdraw
    BY <2>1, <2>7 DEF Withdraw, RowType, Withdrawn
  <2>8. CASE SetReady
    <3>1. Modality \in Modalities
      BY <2>8, KindOfStep DEF SetReady, Update, At, Embedding
    <3> QED
      BY <2>1, <2>8, <3>1 DEF SetReady, RowType
  <2>9. CASE RecordBatch
    <3>1. Subject \in Versions /\ Piece \in Pieces
      <4>1. Subject \in Versions /\ Modality \in Modalities /\ hand.at < Batches[Modality]
            /\ hand.at \in Nat
        BY <2>9, KindOfStep DEF RecordBatch, At, Embedding, VInv, HandFits, VTypeOK
      <4> QED
        BY <4>1 DEF Piece, Pieces, VectorsAssumption
    <3>2. row' = IF Exists(Subject) THEN [row EXCEPT ![Subject].batches = @ \cup {Piece}] ELSE row
      BY <2>9 DEF RecordBatch
    <3> QED
      BY <1>0, <3>1, <3>2 DEF RowsOK, RowType, Exists, NoRow
  <2>10. CASE CommitExtract
    <3>1. row' = [v \in Versions |->
                     IF v = Subject /\ Exists(v)
                     THEN [row[v] EXCEPT !.state = "indexed", !.raw = FALSE, !.ready = {},
                                         !.recovery = FALSE, !.replacing = FALSE]
                     ELSE IF row[v].state = "staged" THEN NoRow ELSE row[v]]
      BY <2>10 DEF CommitExtract
    <3>2. ASSUME NEW v \in Versions
          PROVE  row'[v] \in RowType /\ (row'[v].state = "absent" => row'[v] = NoRow)
      <4>1. CASE v = Subject /\ Exists(v)
        BY <1>0, <3>1, <4>1 DEF RowType
      <4>2. CASE ~(v = Subject /\ Exists(v))
        BY <1>0, <3>1, <4>2
      <4> QED
        BY <4>1, <4>2
    <3> QED
      BY <3>1, <3>2 DEF RowsOK
  <2> QED
    BY <1>00, <1>6, <2>2, <2>3, <2>4, <2>5, <2>6, <2>7, <2>8, <2>9, <2>10
    DEF Handler, Begin, RemovePreviews, Parse, Enqueue, DropVisual, EmbedBatch, Drop, Mark
<1> QED
  BY <1>00, <1>2, <1>3, <1>4, <1>5, <1>6 DEF VNext, Api, Worker, Unlink, Configure, Backfill, Look,
     Claim, Finish, Fail, Boot, CleanupDies, Crash, Raise, Requeue

\* Qdrant and the preview files hold nothing but what belongs to a version.
LEMMA StoresKeepTypes ==
    ASSUME VInv, VNext
    PROVE  StoresOK'
<1> USE DEF outside, queueVars, apiVars
<1>0. /\ marked \subseteq points /\ points \subseteq {Point(v, p) : v \in Versions, p \in Pieces}
      /\ files \subseteq Versions /\ unlinking \subseteq Versions
  BY DEF VInv, VTypeOK, StoresOK
<1>1. SUFFICES ASSUME <<files, points, marked, unlinking>>' # <<files, points, marked, unlinking>>
               PROVE  StoresOK'
  BY <1>0 DEF StoresOK
<1>2. CASE Delete \/ Unlink \/ Expire \/ CleanupDies
  <2>1. UNCHANGED <<points, marked>>
    BY <1>2 DEF Delete, Unlink, Expire, CleanupDies
  <2>2. files' \subseteq Versions
    <3>1. CASE Delete \/ Unlink
      BY <1>0, <3>1 DEF Delete, Unlink
    <3>2. CASE Expire
      <4>1. PICK vs : files' = files \ vs
        BY <3>2 DEF Expire
      <4> QED
        BY <1>0, <4>1
    <3>3. CASE CleanupDies
      <4>1. PICK vs \in SUBSET {v \in files : "visual" \in row[v].has} : files' = files \ vs
        BY <3>3 DEF CleanupDies
      <4> QED
        BY <1>0, <4>1
    <3> QED
      BY <1>2, <3>1, <3>2, <3>3
  <2>3. unlinking' \subseteq Versions
    <3>1. CASE Delete
      BY <1>0, <3>1 DEF Delete
    <3>2. CASE Unlink
      BY <3>2 DEF Unlink
    <3>3. CASE Expire \/ CleanupDies
      <4>1. unlinking' = unlinking
        BY <3>3 DEF Expire, CleanupDies
      <4> QED
        BY <1>0, <4>1
    <3> QED
      BY <1>2, <3>1, <3>2, <3>3
  <2> QED
    BY <1>0, <2>1, <2>2, <2>3 DEF StoresOK
<1>3. CASE Handler
  <2>1. CASE RemovePreviews \/ Parse
    <3>1. Subject \in Versions
      BY <2>1, KindOfStep DEF RemovePreviews, Parse, At
    <3> QED
      BY <1>0, <2>1, <3>1 DEF RemovePreviews, Parse, StoresOK
  <2>2. CASE DropVisual
    BY <1>0, <2>2 DEF DropVisual, Visual, StoresOK
  <2>3. CASE Drop
    BY <1>0, <2>3 DEF Drop, Dropped, StoresOK
  <2>4. CASE EmbedBatch
    <3>1. Subject \in Versions /\ Piece \in Pieces
      <4>1. Subject \in Versions /\ Modality \in Modalities /\ hand.at < Batches[Modality]
            /\ hand.at \in Nat
        BY <2>4, KindOfStep DEF EmbedBatch, At, Embedding, VInv, VTypeOK
      <4> QED
        BY <4>1, VectorsAssumption DEF Piece, Pieces
    <3> QED
      BY <1>0, <2>4, <3>1 DEF EmbedBatch, StoresOK
  <2>5. CASE Mark
    BY <1>0, <2>5 DEF Mark, StoresOK
  <2> QED
    BY <1>1, <1>3, <2>1, <2>2, <2>3, <2>4, <2>5
    DEF Handler, Begin, ReplaceChunks, ReplaceVisuals, Insert, Update, CommitExtract, Enqueue,
        ForgetBatches, Rendered, LoseBatches, Withdraw, RecordBatch, SetReady
<1> QED
  BY <1>1, <1>2, <1>3 DEF VNext, Api, Worker, Upload, Configure, Backfill, Look, Withhold,
     Claim, Finish, Fail, Boot, Crash, Raise, Requeue

LEMMA CountsKeepFit ==
    ASSUME VInv, VNext
    PROVE  CountsFit'
<1> USE DEF outside, queueVars, apiVars
<1>0. CountsFit /\ MaxEvents \in Nat
  BY VectorsAssumption DEF VInv
<1>1. ASSUME NEW e \in Events \cup {"upload"}, Counted(e), e \in Events => Happens(e)
      PROVE  /\ count' \in [Events \cup {"upload"} -> Nat]
             /\ count'["delete"] + count'["expire"] + count'["configure"] + count'["look"]
                    + count'["trouble"] <= MaxEvents
  BY <1>0, <1>1 DEF Counted, Happens, CountsFit, Events
<1>2. /\ count' \in [Events \cup {"upload"} -> Nat]
      /\ count'["delete"] + count'["expire"] + count'["configure"] + count'["look"]
             + count'["trouble"] <= MaxEvents
  <2>1. CASE UNCHANGED count
    BY <1>0, <2>1 DEF CountsFit
  <2>2. CASE \E v \in Versions : Upload(v)
    BY <1>1, <2>2 DEF Upload, Events
  <2>3. CASE Happens("delete") \/ Happens("expire") \/ Happens("configure") \/ Happens("look")
             \/ Happens("trouble")
    BY <1>1, <2>3 DEF Happens, Events
  <2> QED
    BY <2>1, <2>2, <2>3 DEF VNext, Api, Worker, Handler, Delete, Unlink, Configure, Backfill, Look,
       Withhold, Claim, Finish, Fail, Boot, Expire, CleanupDies, Crash, Raise, Requeue, Begin,
       RemovePreviews, Parse, ReplaceChunks, ReplaceVisuals, Insert, Update, CommitExtract, Enqueue,
       DropVisual, ForgetBatches, Rendered, LoseBatches, Withdraw, EmbedBatch, RecordBatch, SetReady,
       Drop, Mark
<1>3. on' \in BOOLEAN /\ backfill' \in BOOLEAN
  <2>1. CASE Configure \/ Backfill
    BY <1>0, <2>1 DEF Configure, Backfill, CountsFit
  <2>2. CASE UNCHANGED <<on, backfill>>
    BY <1>0, <2>2 DEF CountsFit
  <2> QED
    BY <2>1, <2>2 DEF VNext, Api, Worker, Handler, Upload, Delete, Unlink, Look,
       Withhold, Claim, Finish, Fail, Boot, Expire, CleanupDies, Crash, Raise, Requeue, Begin,
       RemovePreviews, Parse, ReplaceChunks, ReplaceVisuals, Insert, Update, CommitExtract, Enqueue,
       DropVisual, ForgetBatches, Rendered, LoseBatches, Withdraw, EmbedBatch, RecordBatch, SetReady,
       Drop, Mark
<1>4. overlooked' \in BOOLEAN
  <2>1. CASE UNCHANGED overlooked
    BY <1>0, <2>1 DEF CountsFit
  <2>2. CASE \E asked : CreateJobs(asked)
    BY <1>0, <2>2 DEF CreateJobs, CountsFit
  <2> QED
    BY <2>1, <2>2 DEF VNext, Api, Worker, Handler, Upload, Delete, Unlink, Configure, Backfill, Look,
       Withhold, Claim, Finish, Fail, Boot, Expire, CleanupDies, Crash, Raise, Requeue, Begin,
       RemovePreviews, Parse, ReplaceChunks, ReplaceVisuals, Insert, Update, CommitExtract, Enqueue,
       DropVisual, ForgetBatches, Rendered, LoseBatches, Withdraw, EmbedBatch, RecordBatch, SetReady,
       Drop, Mark
<1> QED
  BY <1>2, <1>3, <1>4 DEF CountsFit

LEMMA JobsKeepFit ==
    ASSUME VInv, VNext
    PROVE  QueueOK' /\ JobsFit'
<1> USE DEF outside, queueVars, apiVars
<1>0. /\ VTypeOK /\ QueueOK /\ JobsFit /\ HandFits
      /\ MaxAttempts \in Nat \ {0} /\ MaxEvents \in Nat
      /\ count["trouble"] \in Nat /\ count["trouble"] <= MaxEvents /\ count'["trouble"] \in Nat
      /\ count'["trouble"] <= MaxEvents
      /\ Budget \in Nat /\ Budget > 0 /\ Budget <= MaxAttempts + MaxEvents
  <2>1. CountsFit /\ CountsFit'
    BY CountsKeepFit DEF VInv
  <2>2. ASSUME CountsFit PROVE count["trouble"] \in Nat /\ count["trouble"] <= MaxEvents
    BY <2>2, VectorsAssumption DEF CountsFit, Events
  <2>3. ASSUME CountsFit' PROVE count'["trouble"] \in Nat /\ count'["trouble"] <= MaxEvents
    BY <2>3, VectorsAssumption DEF CountsFit, Events
  <2>4. MaxAttempts \in Nat \ {0} /\ MaxEvents \in Nat
    BY VectorsAssumption
  <2> QED
    BY <2>1, <2>2, <2>3, <2>4 DEF VInv, VTypeOK, Budget
<1>1. ASSUME NEW asked, CreateJobs(asked), hand'.job = hand.job, count'["trouble"] = count["trouble"]
      PROVE  QueueOK' /\ JobsFit'
  BY <1>1, CreateJobsFit DEF QueueOK
<1>2. ASSUME UNCHANGED <<status, tries>>, hand'.job = hand.job, count'["trouble"] >= count["trouble"]
      PROVE  QueueOK' /\ JobsFit'
  BY <1>0, <1>2 DEF QueueOK, JobsFit, Budget
<1>3. CASE Api
  <2>1. CASE \E v \in Versions : Upload(v)
    BY <1>0, <1>1, <2>1 DEF Upload, Counted, CountsFit, VInv, Events
  <2>2. CASE Delete
    BY <1>0, <1>1, <2>2 DEF Delete, Happens, Counted, CountsFit, VInv, Events
  <2>3. CASE Unlink
    BY <1>0, <1>2, <2>3 DEF Unlink
  <2>4. CASE Configure
    BY <1>0, <1>2, <2>4 DEF Configure, Happens, Counted, CountsFit, VInv, Events
  <2>5. CASE Backfill
    BY <1>1, <2>5 DEF Backfill
  <2>6. CASE Look
    BY <1>0, <1>2, <2>6 DEF Look, Happens, Counted, CountsFit, VInv, Events
  <2>7. CASE Withhold
    BY <1>1, <2>7 DEF Withhold
  <2> QED
    BY <1>3, <2>1, <2>2, <2>3, <2>4, <2>5, <2>6, <2>7 DEF Api
<1>4. CASE Worker
  <2>1. CASE Claim
    <3>0. hand.job = Idle.job
      BY <1>0, <2>1 DEF Claim, HandFits, At
    <3>1. PICK j \in Jobs : /\ status[j] = "queued"
                           /\ status' = [status EXCEPT ![j] = "running"]
                           /\ tries' = [tries EXCEPT ![j] = @ + 1]
                           /\ hand' = [job |-> j, step |-> "claimed", at |-> 0]
      BY <2>1 DEF Claim, Claimable
    <3>2. Budget' = Budget /\ tries[j] < Budget /\ tries[j] \in Nat
      BY <1>0, <2>1, <3>1 DEF Claim, Budget, JobsFit, QueueOK
    <3>3. QueueOK'
      BY <1>0, <3>1, <3>2 DEF QueueOK
    <3>4. ASSUME NEW k \in Jobs
          PROVE  /\ tries'[k] <= Budget'
                 /\ status'[k] = "none" => tries'[k] = 0
                 /\ status'[k] \in {"queued", "delayed"} => tries'[k] < Budget'
                 /\ status'[k] = "running" /\ hand'.job # k => tries'[k] < Budget'
      <4>1. k # hand.job
        BY <3>0, JobFacts
      <4> QED
        BY <1>0, <3>1, <3>2, <4>1 DEF JobsFit, QueueOK
    <3> QED
      BY <3>3, <3>4 DEF JobsFit
  <2>2. CASE Finish
    <3>1. /\ status' = [status EXCEPT ![hand.job] = "none"] /\ tries' = [tries EXCEPT ![hand.job] = 0]
          /\ Budget' = Budget
      BY <2>2 DEF Finish, Budget
    <3>2. QueueOK'
      <4>1. 0 \in 0..(MaxAttempts + MaxEvents)
        BY <1>0
      <4>2. tries' \in [Jobs -> 0..(MaxAttempts + MaxEvents)]
        BY <1>0, <3>1, <4>1 DEF QueueOK
      <4>3. status' \in [Jobs -> {"none", "queued", "delayed", "running", "failed"}]
        BY <1>0, <3>1 DEF QueueOK
      <4> QED
        BY <4>2, <4>3 DEF QueueOK
    <3>3. ASSUME NEW k \in Jobs
          PROVE  /\ tries'[k] <= Budget
                 /\ status'[k] = "none" => tries'[k] = 0
                 /\ status'[k] \in {"queued", "delayed"} => tries'[k] < Budget
                 /\ status'[k] = "running" => tries'[k] < Budget
      <4>1. CASE k = hand.job
        BY <1>0, <3>1, <4>1 DEF QueueOK
      <4>2. CASE k # hand.job
        BY <1>0, <3>1, <4>2 DEF QueueOK, JobsFit
      <4> QED
        BY <4>1, <4>2
    <3> QED
      BY <3>1, <3>2, <3>3 DEF JobsFit
  <2>3. CASE Fail
    <3>1. /\ hand.job \in Jobs /\ tries' = tries /\ Budget' = Budget
          /\ \/ tries[hand.job] < MaxAttempts /\ status' = [status EXCEPT ![hand.job] = "delayed"]
             \/ status' = [status EXCEPT ![hand.job] = "failed"]
      BY <1>0, <2>3, KindOfStep DEF Fail, Budget, At
    <3>2. tries[hand.job] \in Nat /\ Budget >= MaxAttempts
      BY <1>0, <3>1 DEF QueueOK, Budget
    <3> QED
      BY <1>0, <3>1, <3>2 DEF QueueOK, JobsFit
  <2>4. CASE Boot
    BY <1>0, <1>1, <2>4 DEF Boot, HandFits, At
  <2>5. CASE Expire
    <3>1. \E asked : CreateJobs(asked)
      BY <2>5 DEF Expire
    <3>2. count'["trouble"] = count["trouble"] /\ hand' = hand
      BY <2>5 DEF Expire, Happens, Counted, CountsFit, VInv, Events
    <3> QED
      BY <1>1, <3>1, <3>2
  <2>6. CASE CleanupDies
    <3>1. UNCHANGED <<status, tries>> /\ hand'.job = Idle.job /\ hand.job = Idle.job
      BY <1>0, <2>6 DEF CleanupDies, HandFits, At, Idle
    <3>2. count'["trouble"] = count["trouble"] + 1
      BY <2>6 DEF CleanupDies, Happens, Counted, CountsFit, VInv, Events
    <3> QED
      BY <1>0, <1>2, <3>1, <3>2
  <2>7. CASE Crash
    <3>1. UNCHANGED <<status, tries>> /\ hand.job \in Jobs /\ hand'.job = Idle.job
      BY <2>7, KindOfStep DEF Crash, Idle
    <3>2. count'["trouble"] = count["trouble"] + 1
      BY <2>7 DEF Crash, Happens, Counted, CountsFit, VInv, Events
    <3>3. Budget' = Budget + 1
      BY <3>2, <1>0 DEF Budget
    <3> QED
      BY <1>0, <3>1, <3>3 DEF QueueOK, JobsFit
  <2>8. CASE Raise
    <3>1. UNCHANGED <<status, tries>> /\ hand'.job = hand.job
      BY <1>0, <2>8 DEF Raise, GoTo, HandFits
    <3>2. count'["trouble"] = count["trouble"] + 1
      BY <2>8 DEF Raise, Happens, Counted, CountsFit, VInv, Events
    <3> QED
      BY <1>0, <1>2, <3>1, <3>2
  <2>9. ASSUME NEW j \in Jobs, Requeue(j) PROVE QueueOK' /\ JobsFit'
    <3>1. /\ status' = [status EXCEPT ![j] = "queued"] /\ UNCHANGED <<tries, hand>> /\ Budget' = Budget
          /\ tries[j] < Budget
      BY <1>0, <2>9 DEF Requeue, Budget, JobsFit
    <3> QED
      BY <1>0, <3>1 DEF QueueOK, JobsFit
  <2> QED
    BY <1>4, <2>1, <2>2, <2>3, <2>4, <2>5, <2>6, <2>7, <2>8, <2>9 DEF Worker
<1>5. CASE Handler
  <2>0. count' = count /\ hand'.job = hand.job
    BY <1>5, <1>0
    DEF Handler, Begin, RemovePreviews, Parse, ReplaceChunks, ReplaceVisuals, Insert, Update,
       CommitExtract, Enqueue, DropVisual, ForgetBatches, Rendered, LoseBatches, Withdraw, EmbedBatch,
       RecordBatch, SetReady, Drop, Mark, GoTo, Proceed, HandFits
  <2>1. CASE CommitExtract
    <3>1. hand.job \in Jobs /\ status[hand.job] = "running"
      BY <2>1, KindOfStep DEF CommitExtract, At
    <3> DEFINE failed == {<<"extract", v>> : v \in {u \in Versions : status[<<"extract", u>>] = "failed"}}
               mark == <<"mark_historical", Subject>>
    <3>2. /\ \A j \in failed : status[j] = "failed"
          /\ status' = [j \in Jobs |-> IF j \in failed THEN "none"
                                       ELSE IF j = mark /\ status[j] \in {"none", "failed"}
                                       THEN "queued" ELSE status[j]]
          /\ tries' = [j \in Jobs |-> IF j \in failed \/ (j = mark /\ status[j] = "failed")
                                      THEN 0 ELSE tries[j]]
      BY <2>1 DEF CommitExtract
    <3> HIDE DEF failed, mark
    <3>3. QueueOK'
      BY <1>0, <3>2 DEF QueueOK
    <3>4. JobsFit'
      <4> SUFFICES ASSUME NEW j \in Jobs
                   PROVE  /\ tries'[j] <= Budget
                          /\ status'[j] = "none" => tries'[j] = 0
                          /\ status'[j] \in {"queued", "delayed"} => tries'[j] < Budget
                          /\ status'[j] = "running" /\ hand.job # j => tries'[j] < Budget
        BY <2>0 DEF JobsFit, Budget
      <4>1. /\ tries[j] <= Budget
            /\ status[j] = "none" => tries[j] = 0
            /\ status[j] \in {"queued", "delayed"} => tries[j] < Budget
            /\ status[j] = "running" /\ hand.job # j => tries[j] < Budget
        BY <1>0 DEF JobsFit
      <4> QED
        BY <1>0, <3>2, <4>1
    <3> QED
      BY <3>3, <3>4
  <2>2. CASE Enqueue
    BY <1>1, <2>0, <2>2 DEF Enqueue
  <2>3. CASE UNCHANGED <<status, tries>>
    BY <1>0, <1>2, <2>0, <2>3
  <2> QED
    BY <1>5, <2>1, <2>2, <2>3
    DEF Handler, Begin, RemovePreviews, Parse, ReplaceChunks, ReplaceVisuals, Insert, Update,
       DropVisual, ForgetBatches, Rendered, LoseBatches, Withdraw, EmbedBatch,
       RecordBatch, SetReady, Drop, Mark
<1> QED
  BY <1>3, <1>4, <1>5 DEF VNext

-----------------------------------------------------------------------------
(* The worker                                                              *)

LEMMA StepFacts ==
    /\ Steps["extract"] = {"parse", "filling", "chunks", "visuals", "commit", "enqueue"}
    /\ Steps["render_visual"] = {"parse", "filling", "dropVisual", "forget", "visuals", "rendered",
                                 "enqueue"}
    /\ Steps["embed_text"] = {"embed", "record"}
    /\ Steps["embed_visual"] = {"lost", "withdraw", "dropVisual", "embed", "record"}
    /\ Steps["mark_historical"] = {"mark"}
    /\ Steps["delete_vectors"] = {"drop"}
    /\ Steps["delete_version_vectors"] = {"dropVisual"}
BY DEF Steps

\* The job of the worker is running, and at a step of its handler.
LEMMA HandKeepsFit ==
    ASSUME VInv, VNext
    PROVE  HandFits'
<1> USE DEF outside, queueVars, apiVars
<1>0. /\ HandFits /\ QueueOK /\ hand.at \in Nat
      /\ hand = [job |-> hand.job, step |-> hand.step, at |-> hand.at]
      /\ hand.job \in Jobs \cup {Idle.job}
      /\ Batches \in [Modalities -> Nat \ {0}]
  BY VectorsAssumption DEF VInv, VTypeOK, HandFits
<1>1. ASSUME hand' = hand, hand.job \in Jobs => status'[hand.job] = "running"
      PROVE  HandFits'
  <2>1. Kind' = Kind /\ Modality' = Modality /\ Embedding' = Embedding
    BY <1>1 DEF Embedding, Modality, Kind
  <2> HIDE DEF Kind, Modality, Embedding
  <2> QED
    BY <1>0, <1>1, <2>1 DEF HandFits
<1>2. ASSUME hand' = Idle \/ hand' = [Idle EXCEPT !.step = "booting"]
      PROVE  HandFits'
  <2>1. /\ hand' = [job |-> hand'.job, step |-> hand'.step, at |-> hand'.at]
          /\ hand'.job \in Jobs \cup {Idle.job} /\ hand'.at \in Nat
        /\ hand'.job = Idle.job /\ hand'.step \in {"idle", "booting"}
    <3>1. Idle = [job |-> Idle.job, step |-> "idle", at |-> 0]
      BY DEF Idle
    <3>2. hand' = [job |-> Idle.job, step |-> "idle", at |-> 0]
          \/ hand' = [job |-> Idle.job, step |-> "booting", at |-> 0]
      BY <1>2, <3>1
    <3> QED
      BY <3>2
  <2> QED
    BY <2>1, JobFacts DEF HandFits, Embedding
<1>3. ASSUME NEW n \in Nat, NEW s, hand.step \notin {"idle", "booting"},
             hand' = [hand EXCEPT !.at = n, !.step = s], status'[hand.job] = "running",
             s \in {"returned", "raised"} \cup Steps[Kind],
             s \in {"embed", "record"} => n <= Batches[Modality],
             s = "record" => n < Batches[Modality]
      PROVE  HandFits'
  <2>1. hand.job \in Jobs /\ hand.job # Idle.job
    BY <1>3, KindOfStep, JobFacts
  <2>2. Kind \in {"extract", "render_visual", "embed_text", "embed_visual", "mark_historical",
                      "delete_vectors", "delete_version_vectors"}
    BY <2>1, JobFacts DEF Kind
  <2>3. s \in {"returned", "raised", "parse", "filling", "chunks", "visuals", "commit", "enqueue",
              "dropVisual", "forget", "rendered", "embed", "record", "lost", "withdraw", "mark", "drop"}
    <3> HIDE DEF Kind
    <3> QED
      BY <1>3, <2>2, StepFacts
  <2>4. hand'.job = hand.job /\ hand'.step = s /\ hand'.at = n
        /\ hand' = [job |-> hand'.job, step |-> hand'.step, at |-> hand'.at]
          /\ hand'.job \in Jobs \cup {Idle.job} /\ hand'.at \in Nat
    BY <1>0, <1>3, <2>3
  <2>5. Kind' = Kind /\ Modality' = Modality
    BY <2>4 DEF Kind, Modality
  <2> QED
    BY <1>3, <2>1, <2>3, <2>4, <2>5 DEF HandFits, Embedding
<1>4. ASSUME NEW s, hand.step \notin {"idle", "booting"},
             hand' = [hand EXCEPT !.step = s], status'[hand.job] = "running",
             s \in {"returned", "raised"} \cup Steps[Kind],
             s \in {"embed", "record"} => hand.at <= Batches[Modality],
             s = "record" => hand.at < Batches[Modality]
      PROVE  HandFits'
  <2>1. hand' = [hand EXCEPT !.at = hand.at, !.step = s]
    BY <1>0, <1>4
  <2> QED
    BY <1>0, <1>3, <1>4, <2>1
<1>5. ASSUME NEW asked, CreateJobs(asked), hand.job \in Jobs
      PROVE  status'[hand.job] = "running"
  BY <1>0, <1>5 DEF CreateJobs, HandFits
<1>6. CASE Api
  <2>1. hand' = hand
    BY <1>6 DEF Api, Upload, Delete, Unlink, Configure, Backfill, Look, Withhold
  <2>2. CASE \E asked : CreateJobs(asked)
    BY <1>1, <1>5, <2>1, <2>2
  <2>3. CASE UNCHANGED status
    BY <1>0, <1>1, <2>1, <2>3 DEF HandFits
  <2> QED
    BY <1>6, <2>2, <2>3 DEF Api, Upload, Delete, Unlink, Configure, Backfill, Look, Withhold
<1>7. CASE Worker
  <2>1. CASE Claim
    <3>1. PICK j \in Jobs : /\ status' = [status EXCEPT ![j] = "running"]
                           /\ hand' = [job |-> j, step |-> "claimed", at |-> 0]
      BY <2>1 DEF Claim, Claimable
    <3>2. status'[j] = "running" /\ j # Idle.job
      BY <1>0, <3>1, JobFacts DEF QueueOK
    <3>3. hand'.job = j /\ hand'.step = "claimed" /\ hand'.at = 0
          /\ hand' = [job |-> hand'.job, step |-> hand'.step, at |-> hand'.at]
          /\ hand'.job \in Jobs \cup {Idle.job} /\ hand'.at \in Nat
      BY <3>1
    <3> QED
      BY <3>2, <3>3 DEF HandFits, Embedding
  <2>2. CASE Finish \/ Fail \/ Boot \/ CleanupDies \/ Crash
    BY <1>2, <2>2 DEF Finish, Fail, Boot, CleanupDies, Crash
  <2>3. CASE Expire
    <3>1. hand' = hand /\ \E asked : CreateJobs(asked)
      BY <2>3 DEF Expire
    <3> QED
      BY <1>1, <1>5, <3>1
  <2>4. CASE Raise
    <3>1. hand.step \notin {"idle", "booting"} /\ hand' = [hand EXCEPT !.step = "raised"]
          /\ status' = status
      BY <2>4 DEF Raise, GoTo, Quick
    <3>2. status'[hand.job] = "running"
      BY <3>1, KindOfStep
    <3> QED
      BY <1>4, <3>1, <3>2
  <2>5. ASSUME NEW j \in Jobs, Requeue(j) PROVE HandFits'
    <3>1. hand.job \in Jobs => j # hand.job
      BY <1>0, <2>5 DEF Requeue, HandFits
    <3> QED
      BY <1>0, <1>1, <2>5, <3>1 DEF Requeue, HandFits, QueueOK
  <2> QED
    BY <1>7, <2>1, <2>2, <2>3, <2>4, <2>5 DEF Worker
<1>8. CASE Handler
  <2>0. hand.step \notin {"idle", "booting"}
    BY <1>8 DEF Handler, Begin, RemovePreviews, Parse, ReplaceChunks, ReplaceVisuals, Insert, Update,
       CommitExtract, Enqueue, DropVisual, ForgetBatches, Rendered, LoseBatches, Withdraw, EmbedBatch,
       RecordBatch, SetReady, Drop, Mark, At
  <2>00. hand.job \in Jobs /\ status[hand.job] = "running"
    BY <2>0, KindOfStep
  <2>1. status'[hand.job] = "running"
    <3>1. CASE CommitExtract
      <4> DEFINE failed == {<<"extract", v>> : v \in {u \in Versions : status[<<"extract", u>>] = "failed"}}
                 mark == <<"mark_historical", Subject>>
      <4>1. /\ \A j \in failed : status[j] = "failed"
            /\ status' = [j \in Jobs |-> IF j \in failed THEN "none"
                                         ELSE IF j = mark /\ status[j] \in {"none", "failed"}
                                         THEN "queued" ELSE status[j]]
        BY <3>1 DEF CommitExtract
      <4> HIDE DEF failed, mark
      <4> QED
        BY <2>00, <4>1
    <3>2. CASE Enqueue
      BY <1>5, <2>00, <3>2 DEF Enqueue
    <3>3. CASE UNCHANGED status
      BY <2>00, <3>3
    <3> QED
      BY <1>8, <3>1, <3>2, <3>3
      DEF Handler, Begin, RemovePreviews, Parse, ReplaceChunks, ReplaceVisuals, Insert, Update,
         DropVisual, ForgetBatches, Rendered, LoseBatches, Withdraw, EmbedBatch,
         RecordBatch, SetReady, Drop, Mark
  <2>2. ASSUME NEW s, GoTo(s), s \in {"returned", "raised"} \cup Steps[Kind],
               s \in {"embed", "record"} => hand.at <= Batches[Modality],
               s = "record" => hand.at < Batches[Modality]
        PROVE  HandFits'
    BY <1>4, <2>0, <2>1, <2>2 DEF GoTo
  <2>3. ASSUME NEW n \in Nat, NEW s, Proceed(n, s), s \in {"returned", "raised"} \cup Steps[Kind],
               s = "embed" => n <= Batches[Modality], s # "record"
        PROVE  HandFits'
    BY <1>3, <2>0, <2>1, <2>3 DEF Proceed
  <2>4. CASE Begin
    <3>1. FirstStep \in {"returned", "raised"} \cup Steps[Kind]
          /\ FirstStep # "record" /\ (FirstStep = "embed" => Modality \in Modalities)
      <4>1. /\ Kind \in {"extract", "render_visual", "embed_text", "embed_visual", "mark_historical",
                      "delete_vectors", "delete_version_vectors"}
        BY <2>00, JobFacts DEF Kind
      <4> HIDE DEF Kind
      <4>2. CASE Kind \in {"embed_text", "embed_visual"}
        BY <4>2, StepFacts, EmbedFacts DEF FirstStep, Modality, Modalities
      <4>3. CASE Kind \notin {"embed_text", "embed_visual"}
        BY <4>1, <4>3, StepFacts, EmbedFacts DEF FirstStep
      <4> QED
        BY <4>2, <4>3
    <3>2. hand.at = 0
      BY <1>0, <2>4 DEF Begin, At, HandFits
    <3>3. FirstStep = "embed" => 0 <= Batches[Modality]
      BY <1>0, <3>1
    <3> HIDE DEF FirstStep
    <3> QED
      BY <2>2, <2>4, <3>1, <3>2, <3>3 DEF Begin
  <2>5. CASE RemovePreviews \/ Parse \/ DropVisual \/ Enqueue
    <3>1. Kind \in {"extract", "render_visual", "embed_visual", "delete_version_vectors"}
          /\ (~DropVisual => Kind \in {"extract", "render_visual"})
      BY <2>5, KindOfStep DEF RemovePreviews, Parse, DropVisual, Enqueue, At
    <3> HIDE DEF Kind
    <3> QED
      BY <2>2, <2>5, <3>1, StepFacts DEF RemovePreviews, Parse, DropVisual, Enqueue
  <2>6. CASE ReplaceChunks \/ ReplaceVisuals \/ CommitExtract
    <3>1. /\ Kind \in {"extract", "render_visual"}
          /\ ~ReplaceVisuals => Kind = "extract"
      BY <2>6, KindOfStep DEF ReplaceChunks, ReplaceVisuals, CommitExtract, Insert, Update, At
    <3> HIDE DEF Kind
    <3> QED
      BY <2>2, <2>6, <3>1, StepFacts DEF ReplaceChunks, ReplaceVisuals, CommitExtract, Insert, Update
  <2>7. CASE ForgetBatches \/ Rendered
    <3>1. Kind = "render_visual"
      BY <2>7, KindOfStep DEF ForgetBatches, Rendered, Update, At
    <3> QED
      BY <2>2, <2>7, <3>1, StepFacts DEF ForgetBatches, Rendered, Update
  <2>8. CASE LoseBatches \/ Withdraw
    <3>1. Kind = "embed_visual"
      BY <2>8, KindOfStep DEF LoseBatches, Withdraw, Update, At
    <3> QED
      BY <2>2, <2>8, <3>1, StepFacts DEF LoseBatches, Withdraw, Update
  <2>9. CASE EmbedBatch \/ RecordBatch \/ SetReady
    <3>1. Kind \in {"embed_text", "embed_visual"} /\ Modality \in Modalities
      BY <2>9, KindOfStep, EmbedFacts DEF EmbedBatch, RecordBatch, SetReady, Update, At, Embedding
    <3>2. Batches[Modality] \in Nat /\ {"embed", "record"} \subseteq Steps[Kind]
      <4> HIDE DEF Kind
      <4> QED
        BY <1>0, <3>1, StepFacts
    <3>3. hand.at + 1 \in Nat
      BY <1>0
    <3>4. CASE EmbedBatch
      <4>1. hand.at < Batches[Modality] /\ hand.at + 1 <= Batches[Modality]
        BY <1>0, <3>2, <3>4 DEF EmbedBatch
      <4> QED
        BY <1>0, <2>2, <2>3, <3>2, <3>3, <3>4, <4>1 DEF EmbedBatch
    <3>5. CASE RecordBatch
      <4>1. hand.at + 1 <= Batches[Modality]
        BY <1>0, <3>2, <3>5 DEF RecordBatch, At, HandFits
      <4> QED
        BY <2>2, <2>3, <3>2, <3>3, <3>5, <4>1 DEF RecordBatch
    <3>6. CASE SetReady
      BY <2>2, <3>6 DEF SetReady, Update
    <3> QED
      BY <2>9, <3>4, <3>5, <3>6
  <2>10. CASE Drop
    <3>1. Kind = "delete_vectors"
      BY <2>10, KindOfStep, JobFacts DEF Drop, At, Kind
    <3> QED
      BY <2>3, <2>10, <3>1, StepFacts DEF Drop
  <2>11. CASE Mark
    <3>1. Kind = "mark_historical" /\ hand.at + 1 \in Nat
      BY <1>0, <2>11, KindOfStep DEF Mark, At
    <3> QED
      BY <2>3, <2>11, <3>1, StepFacts DEF Mark
  <2> QED
    BY <1>8, <2>4, <2>5, <2>6, <2>7, <2>8, <2>9, <2>10, <2>11 DEF Handler
<1> QED
  BY <1>6, <1>7, <1>8 DEF VNext

-----------------------------------------------------------------------------
(* What is left of a deleted document                                      *)

LEMMA DocumentKeepsType ==
    ASSUME VInv, VNext
    PROVE  doc' \in [current : Versions \cup {None}, deleted : BOOLEAN] /\ missed' \in Versions \cup {None}
<1> USE DEF outside, queueVars, apiVars
<1>0. /\ doc \in [current : Versions \cup {None}, deleted : BOOLEAN]
      /\ missed \in Versions \cup {None}
  BY DEF VInv, VTypeOK
<1>1. missed' \in Versions \cup {None}
  <2>1. CASE Look \/ Withhold
    BY <1>0, <2>1 DEF Look, Withhold
  <2>2. CASE UNCHANGED missed
    BY <1>0, <2>2
  <2> QED
    BY <2>1, <2>2 DEF VNext, Api, Worker, Handler, Upload, Delete, Unlink, Configure, Backfill,
       Claim, Finish, Fail, Boot, Expire, CleanupDies, Crash, Raise, Requeue, Begin,
       RemovePreviews, Parse, ReplaceChunks, ReplaceVisuals, Insert, Update, CommitExtract, Enqueue,
       DropVisual, ForgetBatches, Rendered, LoseBatches, Withdraw, EmbedBatch, RecordBatch, SetReady,
       Drop, Mark
<1>2. doc' \in [current : Versions \cup {None}, deleted : BOOLEAN]
  <2>1. CASE Delete
    BY <1>0, <2>1 DEF Delete
  <2>2. ASSUME NEW v \in Versions, Upload(v)
        PROVE  doc' \in [current : Versions \cup {None}, deleted : BOOLEAN]
    <3>1. doc' = [doc EXCEPT !.deleted = FALSE] \/ doc' = [current |-> v, deleted |-> FALSE]
      BY <2>2 DEF Upload
    <3>2. CASE doc' = [doc EXCEPT !.deleted = FALSE]
      BY <1>0, <3>2
    <3>3. CASE doc' = [current |-> v, deleted |-> FALSE]
      BY <3>3
    <3> QED
      BY <3>1, <3>2, <3>3
  <2>3. CASE CommitExtract
    <3>1. Subject \in Versions
      BY <2>3, KindOfStep DEF CommitExtract, At
    <3> QED
      BY <1>0, <2>3, <3>1 DEF CommitExtract
  <2>4. CASE UNCHANGED doc
    BY <1>0, <2>4
  <2> QED
    BY <2>1, <2>2, <2>3, <2>4
    DEF VNext, Api, Worker, Handler, Unlink, Configure, Backfill, Look, Withhold,
        Claim, Finish, Fail, Boot, Expire, CleanupDies, Crash, Raise, Requeue, Begin,
        RemovePreviews, Parse, ReplaceChunks, ReplaceVisuals, Insert, Update, Enqueue,
        DropVisual, ForgetBatches, Rendered, LoseBatches, Withdraw, EmbedBatch, RecordBatch, SetReady,
        Drop, Mark
<1> QED
  BY <1>1, <1>2

\* A document becomes deleted with a delete_vectors job, and stays so until an upload;
\* the job leaves the queue when its handler has returned.
LEMMA DeletedWithAJob ==
    ASSUME VInv, VNext, doc'.deleted, status'[DeleteVectors] = "none"
    PROVE  \/ doc.deleted /\ status[DeleteVectors] = "none"
           \/ Finish /\ hand.job = DeleteVectors
<1> USE DEF outside, queueVars, apiVars
<1>0. /\ DeleteVectors \in Jobs /\ doc \in [current : Versions \cup {None}, deleted : BOOLEAN] /\ QueueOK
      /\ HandFits
  BY JobFacts DEF VInv, VTypeOK
<1>1. ASSUME NEW asked, CreateJobs(asked)
      PROVE  status[DeleteVectors] = "none" /\ DeleteVectors \notin asked
  BY <1>0, <1>1 DEF CreateJobs
<1>2. doc.deleted
  <2>1. CASE Delete
    BY <1>1, <2>1 DEF Delete
  <2>2. ASSUME NEW v \in Versions, Upload(v) PROVE doc.deleted
    BY <1>0, <2>2 DEF Upload
  <2>3. CASE CommitExtract
    BY <1>0, <2>3 DEF CommitExtract
  <2>4. CASE UNCHANGED doc
    BY <2>4
  <2> QED
    BY <2>1, <2>2, <2>3, <2>4
    DEF VNext, Api, Worker, Handler, Unlink, Configure, Backfill, Look, Withhold,
        Claim, Finish, Fail, Boot, Expire, CleanupDies, Crash, Raise, Requeue, Begin,
        RemovePreviews, Parse, ReplaceChunks, ReplaceVisuals, Insert, Update, Enqueue,
        DropVisual, ForgetBatches, Rendered, LoseBatches, Withdraw, EmbedBatch, RecordBatch, SetReady,
        Drop, Mark
<1>3. status[DeleteVectors] = "none" \/ (Finish /\ hand.job = DeleteVectors)
  <2>1. CASE \E asked : CreateJobs(asked)
    BY <1>1, <2>1
  <2>2. CASE Claim
    <3>1. PICK j \in Jobs : status' = [status EXCEPT ![j] = "running"]
      BY <2>2 DEF Claim, Claimable
    <3> QED
      BY <1>0, <3>1 DEF QueueOK
  <2>3. CASE Finish
    BY <1>0, <2>3 DEF Finish, QueueOK
  <2>4. CASE Fail
    <3>1. \E s \in {"delayed", "failed"} : status' = [status EXCEPT ![hand.job] = s]
      BY <2>4 DEF Fail
    <3> QED
      BY <1>0, <3>1 DEF QueueOK
  <2>5. ASSUME NEW j \in Jobs, Requeue(j) PROVE status[DeleteVectors] = "none"
    <3>1. status' = [status EXCEPT ![j] = "queued"]
      BY <2>5 DEF Requeue
    <3> QED
      BY <1>0, <3>1 DEF QueueOK
  <2>6. CASE CommitExtract
    <3> DEFINE failed == {<<"extract", v>> : v \in {u \in Versions : status[<<"extract", u>>] = "failed"}}
               mark == <<"mark_historical", Subject>>
    <3>1. DeleteVectors \notin failed
      BY JobFacts
    <3>2. status' = [j \in Jobs |-> IF j \in failed THEN "none"
                                    ELSE IF j = mark /\ status[j] \in {"none", "failed"}
                                    THEN "queued" ELSE status[j]]
      BY <2>6 DEF CommitExtract
    <3> HIDE DEF failed, mark
    <3> QED
      BY <1>0, <3>1, <3>2
  <2>7. CASE UNCHANGED status
    BY <2>7
  <2> QED
    BY <2>1, <2>2, <2>3, <2>4, <2>5, <2>6, <2>7
    DEF VNext, Api, Worker, Handler, Upload, Delete, Unlink, Configure, Backfill, Look, Withhold,
        Boot, Expire, CleanupDies, Crash, Raise, Begin,
        RemovePreviews, Parse, ReplaceChunks, ReplaceVisuals, Insert, Update, Enqueue,
        DropVisual, ForgetBatches, Rendered, LoseBatches, Withdraw, EmbedBatch, RecordBatch, SetReady,
        Drop, Mark
<1> QED
  BY <1>2, <1>3

\* Where the hand goes.
LEMMA HandMoves ==
    ASSUME VInv, VNext
    PROVE  \/ hand' = hand
           \/ hand'.job = Idle.job /\ hand'.step \in {"idle", "booting"}
           \/ Claim /\ hand.job = Idle.job /\ hand'.step = "claimed"
           \/ Raise /\ hand'.job = hand.job /\ hand'.step = "raised" /\ hand'.at = hand.at
           \/ Handler /\ hand'.job = hand.job
<1>0. HandFits
  BY DEF VInv
<1>1. CASE Api
  BY <1>1 DEF Api, Upload, Delete, Unlink, Configure, Backfill, Look, Withhold
<1>2. CASE Worker
  <2>1. CASE Claim
    <3>1. hand.job = Idle.job /\ hand'.step = "claimed"
      BY <1>0, <2>1 DEF Claim, HandFits, At
    <3> QED
      BY <2>1, <3>1
  <2>2. CASE Finish \/ Fail \/ Boot \/ CleanupDies \/ Crash
    BY <2>2 DEF Finish, Fail, Boot, CleanupDies, Crash, Idle
  <2>3. CASE Raise
    BY <1>0, <2>3 DEF Raise, GoTo, HandFits
  <2> QED
    BY <1>2, <2>1, <2>2, <2>3 DEF Worker, Expire, Requeue
<1>3. CASE Handler
  <2>1. (\E s : GoTo(s)) \/ (\E s, n : Proceed(n, s))
    BY <1>3 DEF Handler, Begin, RemovePreviews, Parse, ReplaceChunks, ReplaceVisuals, Insert, Update,
       CommitExtract, Enqueue, DropVisual, ForgetBatches, Rendered, LoseBatches, Withdraw, EmbedBatch,
       RecordBatch, SetReady, Drop, Mark
  <2> QED
    BY <1>0, <1>3, <2>1 DEF GoTo, Proceed, HandFits
<1> QED
  BY <1>1, <1>2, <1>3 DEF VNext

\* A handler gets to embedding from the start, and leaves it for good.
LEMMA EmbeddingGoesOn ==
    ASSUME VInv, VNext, Embedding'
    PROVE  hand' = hand \/ Begin \/ EmbedBatch \/ RecordBatch
<1>1. ASSUME Handler, ~Begin, ~(EmbedBatch \/ RecordBatch)
      PROVE  FALSE
  <2>1. \E s \in {"filling", "chunks", "dropVisual", "visuals", "commit", "rendered", "enqueue",
                 "forget", "returned", "withdraw", "raised", "drop", "mark"} :
           GoTo(s) \/ \E n : Proceed(n, s)
    <3>1. CASE RemovePreviews \/ Parse \/ CommitExtract \/ Enqueue \/ DropVisual
      BY <3>1 DEF RemovePreviews, Parse, CommitExtract, Enqueue, DropVisual
    <3>2. CASE Drop \/ Mark
      BY <3>2 DEF Drop, Mark
    <3>3. CASE ReplaceChunks \/ ReplaceVisuals
      BY <3>3 DEF ReplaceChunks, ReplaceVisuals, Insert, Update
    <3>4. CASE ForgetBatches \/ Rendered \/ LoseBatches \/ Withdraw \/ SetReady
      BY <3>4 DEF ForgetBatches, Rendered, LoseBatches, Withdraw, SetReady, Update
    <3> QED
      BY <1>1, <3>1, <3>2, <3>3, <3>4 DEF Handler
  <2> QED
    BY <2>1 DEF GoTo, Proceed, HandFits, Embedding, VInv
<1> QED
  BY <1>1, HandMoves DEF Embedding

\* Vectors come from an embedding handler alone, and a handler goes on to embed only
\* what is current.
LEMMA PointsComeFromEmbedding ==
    ASSUME VInv, VNext
    PROVE  /\ ~Embedding => points' \subseteq points
           /\ Embedding' => Embedding \/ ~doc.deleted
           /\ Embedding' => hand'.job # DeleteVectors
<1> USE DEF outside, queueVars, apiVars
<1>1. ~Embedding => points' \subseteq points
  BY DEF VNext, Api, Worker, Handler, Upload, Delete, Unlink, Configure, Backfill, Look, Withhold,
     Claim, Finish, Fail, Boot, Expire, CleanupDies, Crash, Raise, Requeue, Begin,
     RemovePreviews, Parse, ReplaceChunks, ReplaceVisuals, Insert, Update, CommitExtract, Enqueue,
     DropVisual, ForgetBatches, Rendered, LoseBatches, Withdraw, EmbedBatch, RecordBatch, SetReady,
     Drop, Mark, Embedding, At
<1>2. HandFits /\ HandFits'
  BY HandKeepsFit DEF VInv
<1>3. Embedding' => hand'.job # DeleteVectors
  <2>1. Embedding' /\ hand'.job = DeleteVectors => hand'.step \in {"claimed", "returned", "raised", "drop"}
    BY <1>2, JobFacts, StepFacts DEF HandFits, Kind
  <2> QED
    BY <2>1 DEF Embedding
<1>4. Embedding' => Embedding \/ ~doc.deleted
  <2>1. CASE Begin
    <3>1. hand'.step = FirstStep
      BY <1>2, <2>1 DEF Begin, GoTo, HandFits
    <3>2. FirstStep \in {"embed", "record"} => ~doc.deleted
      <4>1. Kind \in {"extract", "render_visual", "embed_text", "embed_visual", "mark_historical",
                      "delete_vectors", "delete_version_vectors"}
        BY <2>1, KindOfStep, JobFacts DEF Kind, Begin, At
      <4> HIDE DEF Kind
      <4> QED
        BY <4>1, EmbedFacts DEF FirstStep, IsCurrent
    <3> QED
      BY <3>1, <3>2 DEF Embedding
  <2>2. CASE EmbedBatch \/ RecordBatch
    BY <2>2 DEF EmbedBatch, RecordBatch, Embedding, At
  <2> QED
    BY <2>1, <2>2, EmbeddingGoesOn DEF Embedding
<1> QED
  BY <1>1, <1>3, <1>4

LEMMA DeletionKeepsGone ==
    ASSUME VInv, VNext
    PROVE  VectorsGone'
<1> USE DEF outside, queueVars, apiVars
<1>0. VectorsGone /\ HandFits /\ StoresOK /\ hand = [job |-> hand.job, step |-> hand.step, at |-> hand.at]
  BY DEF VInv, VTypeOK, HandFits
<1>1. ASSUME doc'.deleted, status'[DeleteVectors] = "none" PROVE points' = {} /\ ~Embedding'
  <2>1. CASE Finish /\ hand.job = DeleteVectors
    BY <1>0, <2>1 DEF Finish, VectorsGone, At, Embedding, Idle
  <2>2. CASE doc.deleted /\ status[DeleteVectors] = "none"
    BY <1>0, <2>2, PointsComeFromEmbedding DEF VectorsGone
  <2> QED
    BY <1>1, <2>1, <2>2, DeletedWithAJob
<1>2. ASSUME hand'.job = DeleteVectors, hand'.step \in {"returned", "drop"}
      PROVE  /\ hand.job = DeleteVectors /\ ~Embedding
             /\ hand'.step # hand.step \/ hand'.at # hand.at => Drop \/ (Begin /\ hand'.step = "drop")
  <2>1. hand.job = DeleteVectors
    BY <1>2, HandMoves, JobFacts
  <2>2. hand.step \in {"claimed", "returned", "raised", "drop"}
    BY <1>0, <2>1, JobFacts, StepFacts DEF HandFits, Kind
  <2>3. Kind = "delete_vectors"
    BY <2>1, JobFacts DEF Kind
  <2>4. Begin => hand'.step = "drop"
    <3>1. Begin => hand'.step = FirstStep
      BY <1>0 DEF Begin, GoTo
    <3> HIDE DEF Kind
    <3> QED
      BY <2>3, <3>1, EmbedFacts DEF FirstStep
  <2>5. Handler => Begin \/ Drop
    BY <2>2, <2>3, EmbedFacts DEF Handler, RemovePreviews, Parse, ReplaceChunks, ReplaceVisuals, Insert, Update,
         CommitExtract, Enqueue, DropVisual, ForgetBatches, Rendered, LoseBatches, Withdraw,
         EmbedBatch, RecordBatch, SetReady, Mark, At
  <2> QED
    BY <1>2, <2>1, <2>2, <2>4, <2>5, HandMoves, JobFacts DEF Embedding
<1>3. ASSUME hand'.job = DeleteVectors, hand'.step \in {"returned", "drop"}
      PROVE  /\ hand'.step = "returned" => points' = {}
             /\ hand'.step = "drop" /\ hand'.at # 0 => \A p \in points' : p[2] = "visual"
  <2>1. CASE Drop
    <3>1. \A p \in points : p[2] \in Modalities
      BY <1>0 DEF StoresOK, Point, Pieces
    <3>2. CASE hand.at = 0
      BY <1>0, <2>1, <3>1, <3>2 DEF Drop, Dropped, Proceed, Modalities
    <3>3. CASE hand.at # 0
      BY <1>0, <1>2, <1>3, <2>1, <3>3 DEF Drop, Dropped, VectorsGone, At, Proceed
    <3> QED
      BY <3>2, <3>3
  <2>2. CASE Begin
    <3>1. hand'.at = 0
      BY <1>0, <2>2 DEF Begin, GoTo, At, HandFits
    <3>2. hand.step = "claimed"
      BY <2>2 DEF Begin, At
    <3> QED
      BY <1>2, <1>3, <2>2, <3>1, <3>2 DEF Drop, At
  <2>3. CASE hand'.step = hand.step /\ hand'.at = hand.at
    BY <1>0, <1>2, <1>3, <2>3, PointsComeFromEmbedding DEF VectorsGone
  <2> QED
    BY <1>2, <1>3, <2>1, <2>2, <2>3
<1> QED
  BY <1>1, <1>3 DEF VectorsGone

-----------------------------------------------------------------------------
(* Previews and readiness                                                  *)

\* A handler's step writes at most the row of its version.
LEMMA PreviewsKeepFound ==
    ASSUME VInv, VNext
    PROVE  PreviewsFound'
<1> USE DEF outside, queueVars, apiVars
<1>0. /\ PreviewsFound /\ HandFits /\ row \in [Versions -> RowType]
  BY DEF VInv, VTypeOK, RowsOK
<1> SUFFICES ASSUME Embedding', Kind' = "embed_visual",
                    row'[Subject'].state = "indexed", ~row'[Subject'].replacing
             PROVE  "visual" \in row'[Subject'].has
  BY DEF PreviewsFound
<1>1. CASE Begin
  <2>1. row' = row /\ Kind' = Kind /\ Subject' = Subject /\ hand'.step = FirstStep
    BY <1>0, <1>1 DEF Begin, GoTo, HandFits, Kind, Subject
  <2>2. Kind = "embed_visual" /\ FirstStep \in {"embed", "record"}
    BY <2>1 DEF Embedding
  <2>3. Modality = "visual"
    BY <2>2, EmbedFacts DEF Modality
  <2> HIDE DEF Kind, Subject, Modality
  <2>4. Modality \in row[Subject].has
    BY <2>2, EmbedFacts DEF FirstStep
  <2> QED
    BY <2>1, <2>3, <2>4
<1>2. CASE EmbedBatch
  <2>1. row' = row /\ Kind' = Kind /\ Subject' = Subject /\ Embedding
    BY <1>0, <1>2 DEF EmbedBatch, GoTo, Proceed, HandFits, Kind, Subject, Embedding, At
  <2> QED
    BY <1>0, <2>1 DEF PreviewsFound
<1>3. CASE RecordBatch
  <2>1. /\ row' = row \/ row' = [row EXCEPT ![Subject].batches = @ \cup {Piece}]
        /\ Kind' = Kind /\ Subject' = Subject /\ Embedding
    BY <1>0, <1>3 DEF RecordBatch, GoTo, Proceed, HandFits, Kind, Subject, Embedding, At
  <2>2. Subject \in Versions
    BY <1>3, KindOfStep DEF RecordBatch, At
  <2>3. /\ row'[Subject].state = row[Subject].state /\ row'[Subject].has = row[Subject].has
        /\ row'[Subject].replacing = row[Subject].replacing
    BY <1>0, <2>1, <2>2 DEF RowType
  <2> QED
    BY <1>0, <2>1, <2>3 DEF PreviewsFound
<1>4. CASE hand' = hand
  <2>1. Kind' = Kind /\ Subject' = Subject /\ Embedding /\ Subject \in Versions
    BY <1>4, KindOfStep DEF Kind, Subject, Embedding
  <2>2. CASE row' = row
    BY <1>0, <2>1, <2>2 DEF PreviewsFound
  <2>3. CASE Delete
    BY <2>1, <2>3 DEF Delete, NoRow
  <2>4. ASSUME NEW v \in Versions, Upload(v)
        PROVE  "visual" \in row'[Subject'].has
    <3>1. \/ row' = [row EXCEPT ![v].state = "staged", ![v].raw = TRUE]
          \/ row' = [row EXCEPT ![v].raw = TRUE]
          \/ row' = row
      BY <2>4 DEF Upload
    <3>2. /\ row'[Subject].state = "indexed" =>
                row[Subject].state = "indexed"
          /\ row'[Subject].has = row[Subject].has /\ row'[Subject].replacing = row[Subject].replacing
      BY <1>0, <2>1, <3>1 DEF RowType
    <3> QED
      BY <1>0, <2>1, <3>2 DEF PreviewsFound
  <2>5. CASE Withhold
    <3>1. PICK v \in {missed, doc.current} \ {None} :
            row' = IF Exists(v)
                   THEN [row EXCEPT ![v].batches = TextOnly(@), ![v].ready = Withdrawn(v),
                                    ![v].recovery = TRUE]
                   ELSE row
      BY <2>5 DEF Withhold
    <3>2. /\ row'[Subject].state = row[Subject].state /\ row'[Subject].has = row[Subject].has
          /\ row'[Subject].replacing = row[Subject].replacing
      BY <1>0, <2>1, <3>1 DEF RowType
    <3> QED
      BY <1>0, <2>1, <3>2 DEF PreviewsFound
  <2>6. ~Expire
    BY <2>1 DEF Expire, At, Embedding
  <2>7. CASE Handler
    <3>1. EmbedBatch \/ RecordBatch \/ SetReady
      BY <2>1, <2>7 DEF Handler, Begin, RemovePreviews, Parse, ReplaceChunks, ReplaceVisuals, Insert, Update,
         CommitExtract, Enqueue, DropVisual, ForgetBatches, Rendered, LoseBatches, Withdraw,
         Drop, Mark, Embedding, At
    <3>2. ~SetReady
      BY <1>0, <1>4, <2>1 DEF SetReady, Update, GoTo, HandFits, Embedding
    <3> QED
      BY <1>2, <1>3, <3>1, <3>2
  <2> QED
    BY <2>2, <2>3, <2>4, <2>5, <2>6, <2>7 DEF VNext, Api, Worker, Unlink, Configure, Backfill, Look,
       Claim, Finish, Fail, Boot, CleanupDies, Crash, Raise, Requeue
<1> QED
  BY <1>1, <1>2, <1>3, <1>4, EmbeddingGoesOn

LEMMA ReadinessKeepsPreviews ==
    ASSUME VInv, VNext
    PROVE  VisualHasPreviews'
<1> USE DEF outside, queueVars, apiVars
<1>0. /\ VisualHasPreviews /\ PreviewsFound /\ row \in [Versions -> RowType]
  BY DEF VInv, VTypeOK, RowsOK
<1> SUFFICES ASSUME NEW v \in Versions, row'[v].state = "indexed", "visual" \in row'[v].ready,
                    ~row'[v].replacing, row' # row
             PROVE  "visual" \in row'[v].has /\ ~row'[v].recovery
  BY <1>0 DEF VisualHasPreviews
<1>1. ASSUME row'[v].state = row[v].state, row'[v].ready \subseteq row[v].ready,
             row'[v].replacing = row[v].replacing, row[v].has \subseteq row'[v].has,
             row'[v].recovery = row[v].recovery
      PROVE  "visual" \in row'[v].has /\ ~row'[v].recovery
  BY <1>0, <1>1 DEF VisualHasPreviews
<1>2. CASE Api
  <2>1. CASE Delete
    BY <2>1 DEF Delete, NoRow
  <2>2. ASSUME NEW u \in Versions, Upload(u)
        PROVE  "visual" \in row'[v].has /\ ~row'[v].recovery
    <3>1. \/ row' = [row EXCEPT ![u].state = "staged", ![u].raw = TRUE]
          \/ row' = [row EXCEPT ![u].raw = TRUE]
          \/ row' = row
      BY <2>2 DEF Upload
    <3>2. row'[v].state = row[v].state /\ row'[v].ready = row[v].ready
          /\ row'[v].replacing = row[v].replacing /\ row'[v].has = row[v].has
          /\ row'[v].recovery = row[v].recovery
      BY <1>0, <3>1 DEF RowType
    <3> QED
      BY <1>1, <3>2
  <2>3. CASE Withhold
    <3>1. PICK u \in {missed, doc.current} \ {None} :
            row' = IF Exists(u)
                   THEN [row EXCEPT ![u].batches = TextOnly(@), ![u].ready = Withdrawn(u),
                                    ![u].recovery = TRUE]
                   ELSE row
      BY <2>3 DEF Withhold
    <3>2. v # u
      BY <1>0, <3>1 DEF RowType, Withdrawn
    <3> QED
      BY <1>0, <1>1, <3>1, <3>2
  <2> QED
    BY <1>2, <2>1, <2>2, <2>3 DEF Api, Unlink, Configure, Backfill, Look
<1>3. CASE Expire
  <2>1. PICK vs \in SUBSET {w \in Versions : "visual" \in row[w].has}, raws \in SUBSET Versions :
          row' = [w \in Versions |->
                    [row[w] EXCEPT !.raw = IF w \in raws THEN FALSE ELSE @,
                                   !.has = IF w \in vs THEN @ \ {"visual"} ELSE @,
                                   !.ready = IF w \in vs THEN Withdrawn(w) ELSE @,
                                   !.recovery = IF w \in vs THEN TRUE ELSE @,
                                   !.batches = IF w \in vs THEN TextOnly(@) ELSE @]]
    BY <1>3 DEF Expire
  <2>2. row'[v] = [row[v] EXCEPT !.raw = IF v \in raws THEN FALSE ELSE @,
                                   !.has = IF v \in vs THEN @ \ {"visual"} ELSE @,
                                   !.ready = IF v \in vs THEN Withdrawn(v) ELSE @,
                                   !.recovery = IF v \in vs THEN TRUE ELSE @,
                                   !.batches = IF v \in vs THEN TextOnly(@) ELSE @]
    BY <2>1
  <2>3. v \notin vs
    BY <1>0, <2>2 DEF RowType, Withdrawn
  <2>4. row'[v].state = row[v].state /\ row'[v].ready = row[v].ready
          /\ row'[v].replacing = row[v].replacing /\ row'[v].has = row[v].has
          /\ row'[v].recovery = row[v].recovery
    BY <1>0, <2>2, <2>3 DEF RowType
  <2> QED
    BY <1>1, <2>4
<1>4. CASE Handler
  <2>1. CASE v # Subject
    <3>1. CASE CommitExtract
      <4>1. row'[v] = IF row[v].state = "staged" THEN NoRow ELSE row[v]
        BY <2>1, <3>1 DEF CommitExtract
      <4>2. row'[v] = row[v]
        BY <4>1 DEF NoRow
      <4> QED
        BY <1>1, <4>2
    <3>2. CASE ~CommitExtract
      <4>1. row' = row \/ \E new : row' = [row EXCEPT ![Subject] = new]
        BY <1>0, <1>4, <3>2 DEF Handler, Begin, RemovePreviews, Parse, ReplaceChunks, ReplaceVisuals, Insert,
           Update, Enqueue, DropVisual, ForgetBatches, Rendered, LoseBatches, Withdraw,
           EmbedBatch, RecordBatch, SetReady, Drop, Mark
      <4> QED
        BY <1>0, <1>1, <2>1, <4>1
    <3> QED
      BY <3>1, <3>2
  <2>2. ASSUME v = Subject, NEW s, NEW next, NEW new, Update(s, new, next)
        PROVE  row'[v] = new
    BY <1>0, <2>2 DEF Update
  <2>3. CASE v = Subject /\ (ReplaceChunks \/ ReplaceVisuals \/ ForgetBatches \/ LoseBatches)
    <3>1. row[v] \in RowType
      BY <1>0
    <3>2. CASE ReplaceChunks
      <4>1. row'[v] = [row[Subject] EXCEPT !.has = {"text"}, !.replacing = TRUE]
        BY <2>2, <2>3, <3>2 DEF ReplaceChunks, Insert
      <4> QED
        BY <2>3, <3>1, <4>1 DEF RowType
    <3>3. CASE ReplaceVisuals
      <4>1. row'[v] = [row[Subject] EXCEPT !.has = @ \cup {"visual"}]
        BY <2>2, <2>3, <3>3 DEF ReplaceVisuals, Insert
      <4> QED
        BY <1>1, <2>3, <3>1, <4>1 DEF RowType
    <3>4. CASE ForgetBatches \/ LoseBatches
      <4>1. row'[v] = [row[Subject] EXCEPT !.batches = TextOnly(@)]
        BY <2>2, <2>3, <3>4 DEF ForgetBatches, LoseBatches
      <4> QED
        BY <1>1, <2>3, <3>1, <4>1 DEF RowType
    <3> QED
      BY <2>3, <3>2, <3>3, <3>4
  <2>4. CASE v = Subject /\ (Rendered \/ Withdraw)
    <3>1. row'[v].ready = Withdrawn(Subject)
      BY <1>0, <2>2, <2>4 DEF Rendered, Withdraw, RowType
    <3> QED
      BY <3>1 DEF Withdrawn
  <2>5. CASE v = Subject /\ SetReady
    <3>1. row'[v] = [row[Subject] EXCEPT !.ready = @ \cup {Modality},
                                         !.recovery = @ /\ Modality # "visual"]
      BY <2>2, <2>5 DEF SetReady
    <3>2. Kind \in {"embed_text", "embed_visual"} /\ Embedding
      BY <2>5, EmbedFacts DEF SetReady, Update, At, Embedding
    <3>3. row[v] \in RowType
      BY <1>0
    <3>4. CASE Kind = "embed_text"
      <4>1. Modality = "text"
        BY <3>4, EmbedFacts DEF Modality
      <4>2. row'[v].state = row[v].state /\ row'[v].has = row[v].has
            /\ row'[v].replacing = row[v].replacing /\ row'[v].recovery = row[v].recovery
            /\ ("visual" \in row'[v].ready => "visual" \in row[v].ready)
        BY <2>5, <3>1, <3>3, <4>1 DEF RowType
      <4> QED
        BY <1>0, <4>2 DEF VisualHasPreviews
    <3>5. CASE Kind = "embed_visual"
      <4>1. Modality = "visual"
        BY <3>5, EmbedFacts DEF Modality
      <4>2. row'[v].state = row[v].state /\ row'[v].has = row[v].has
            /\ row'[v].replacing = row[v].replacing /\ ~row'[v].recovery
        BY <2>5, <3>1, <3>3, <4>1 DEF RowType
      <4> QED
        BY <1>0, <2>5, <3>2, <3>5, <4>2 DEF PreviewsFound
    <3> QED
      BY <3>2, <3>4, <3>5
  <2>6. CASE v = Subject /\ RecordBatch
    <3>1. row' = [row EXCEPT ![v].batches = @ \cup {Piece}]
      BY <2>6 DEF RecordBatch
    <3> QED
      BY <1>0, <1>1, <3>1 DEF RowType
  <2>7. CASE v = Subject /\ CommitExtract
    <3>1. row'[v] = IF Exists(v)
                     THEN [row[v] EXCEPT !.state = "indexed", !.raw = FALSE, !.ready = {},
                                         !.recovery = FALSE, !.replacing = FALSE]
                     ELSE IF row[v].state = "staged" THEN NoRow ELSE row[v]
      BY <2>7 DEF CommitExtract
    <3>2. row[v] \in RowType
      BY <1>0
    <3> QED
      BY <3>1, <3>2 DEF RowType, NoRow, Exists
  <2> QED
    BY <1>4, <2>1, <2>3, <2>4, <2>5, <2>6, <2>7
    DEF Handler, Begin, RemovePreviews, Parse, Enqueue, DropVisual, EmbedBatch, Drop, Mark
<1> QED
  BY <1>2, <1>3, <1>4 DEF VNext, Worker, Claim, Finish, Fail, Boot, CleanupDies, Crash, Raise, Requeue

-----------------------------------------------------------------------------
(* The theorems                                                            *)

LEMMA InitVInv == VInit => VInv
<1> SUFFICES ASSUME VInit PROVE VInv
  OBVIOUS
<1> USE VectorsAssumption
<1>1. RowsOK
  <2>1. NoRow \in RowType
    BY DEF RowType, NoRow
  <2> QED
    BY <2>1 DEF VInit, RowsOK
<1>2. QueueOK /\ StoresOK
  BY DEF VInit, QueueOK, StoresOK
<1>3. hand = Idle /\ hand.step = "idle" /\ hand.at = 0 /\ hand.job = Idle.job /\ hand.job \notin Jobs
  BY JobFacts DEF VInit, Idle
<1>4. VTypeOK
  BY <1>1, <1>2, <1>3 DEF VTypeOK, VInit
<1>5. CountsFit
  <2>1. count = [e \in Events \cup {"upload"} |-> 0] /\ on \in BOOLEAN /\ backfill = FALSE
        /\ overlooked = FALSE
    BY DEF VInit
  <2>2. /\ count["delete"] = 0 /\ count["expire"] = 0 /\ count["configure"] = 0
        /\ count["look"] = 0 /\ count["trouble"] = 0
    BY <2>1 DEF Events
  <2>3. count \in [Events \cup {"upload"} -> Nat]
    BY <2>1
  <2>4. count["delete"] + count["expire"] + count["configure"] + count["look"] + count["trouble"]
           <= MaxEvents
    BY <2>2
  <2> QED
    BY <2>1, <2>3, <2>4 DEF CountsFit
<1>6. JobsFit
  <2>1. Budget \in Nat /\ Budget > 0
    BY <1>5 DEF Budget, CountsFit, Events
  <2> QED
    BY <2>1 DEF VInit, JobsFit
<1>7. HandFits
  <2>1. hand = [job |-> hand.job, step |-> hand.step, at |-> hand.at]
    BY <1>3 DEF Idle
  <2> QED
    BY <1>3, <2>1 DEF HandFits, Embedding
<1>8. VectorsGone /\ PreviewsFound
  BY <1>3, JobFacts DEF VectorsGone, PreviewsFound, Embedding, VInit
<1>9. VisualHasPreviews
  BY DEF VInit, VisualHasPreviews, NoRow
<1> QED
  BY <1>4, <1>5, <1>6, <1>7, <1>8, <1>9 DEF VInv

LEMMA StepVInv == VInv /\ [VNext]_vectorVars => VInv'
<1>1. ASSUME VInv, VNext PROVE VInv'
  <2>1. hand'.job \in Jobs \cup {Idle.job} /\ hand'.at \in Nat
    BY <1>1, HandKeepsFit DEF HandFits
  <2>2. VTypeOK'
    BY <1>1, <2>1, DocumentKeepsType, RowsKeepTypes, StoresKeepTypes, JobsKeepFit DEF VTypeOK, Idle
  <2> QED
    BY <1>1, <2>2, CountsKeepFit, JobsKeepFit, HandKeepsFit, DeletionKeepsGone, PreviewsKeepFound,
       ReadinessKeepsPreviews DEF VInv
<1>2. ASSUME VInv, UNCHANGED vectorVars PROVE VInv'
  BY <1>2 DEF vectorVars, outside, queueVars, apiVars, VInv, VTypeOK, RowsOK, StoresOK, QueueOK,
     CountsFit, JobsFit, Budget, HandFits, Embedding, Kind, Subject, Modality, VectorsGone,
     PreviewsFound, VisualHasPreviews
<1> QED
  BY <1>1, <1>2

LEMMA VectorsInvariant == VSpec => []VInv
<1> QED
  BY InitVInv, StepVInv, PTL DEF VSpec

\* Rows, points, previews, jobs and the worker keep to their types, nothing hangs on a
\* version that is gone, and no job is attempted more often than its budget and the
\* deaths of the worker account for.
THEOREM VectorsTypeCorrect == VSpec => []VTypeOK
<1>1. VInv => VTypeOK
  BY DEF VInv
<1> QED
  BY <1>1, VectorsInvariant, PTL

\* A deleted document whose delete_vectors job is through has no vector in Qdrant:
\* the single worker drops the modalities one after the other while it embeds nothing,
\* and an embedding handler that begins later finds no current version.
THEOREM DeletedLeavesNoVectorsHolds == VSpec => []DeletedLeavesNoVectors
<1>1. VInv => DeletedLeavesNoVectors
  BY DEF VInv, VectorsGone, DeletedLeavesNoVectors
<1> QED
  BY <1>1, VectorsInvariant, PTL

\* An indexed version that is visually ready has the previews a result shows and waits for
\* none, except while a repeated extraction has replaced its chunks: what embeds previews
\* has found them, and only an idle worker's cleanup takes them away.
THEOREM VisualHasPreviewsHolds == VSpec => []VisualHasPreviews
<1>1. VInv => VisualHasPreviews
  BY DEF VInv
<1> QED
  BY <1>1, VectorsInvariant, PTL

-----------------------------------------------------------------------------
(* What is marked current                                                  *)

MarkOf(v) == <<"mark_historical", v>>
Settled(v) == IsCurrent(v) /\ row[v].state = "indexed"
AllMarked(v) == marked = {p \in points : p[1] = v}
NoneMarked(m) == \A p \in marked : p[2] # m

\* How far mark_document_vectors_historical has come for the current version.
MarkGoesOn(v) ==
    /\ hand.at \in 0..3
    /\ hand.at = 1 => NoneMarked("text")
    /\ hand.at \in {2, 3} => \A p \in points : p[2] = "text" => (p \in marked <=> p[1] = v)
    /\ hand.at = 3 => NoneMarked("visual")

\* The handlers that write the mark of a point.
Marking == hand.step \in {"embed", "record", "mark"}

\* While nothing was overlooked, the marks are those of the current version, or its
\* mark_historical job is still to come or at work; and that job is there as long as a
\* handler of another version marks.
MarksOf(v) ==
    /\ status[MarkOf(v)] = "none" \/ (hand.job = MarkOf(v) /\ hand.step = "returned") =>
          AllMarked(v)
    /\ Marking /\ Subject # v => status[MarkOf(v)] # "none"
    /\ hand.job = MarkOf(v) /\ hand.step = "mark" => MarkGoesOn(v)

MarkInv ==
    /\ doc.deleted => \A v \in Versions : ~Exists(v)
    /\ ~overlooked => \A v \in Versions : Settled(v) => MarksOf(v)

LEMMA CleanupKeepsState ==
    ASSUME row \in [Versions -> RowType], Expire, NEW v \in Versions
    PROVE  row'[v].state = row[v].state
<1>1. PICK vs \in SUBSET {w \in Versions : "visual" \in row[w].has}, raws \in SUBSET Versions :
        row' = [w \in Versions |->
                  [row[w] EXCEPT !.raw = IF w \in raws THEN FALSE ELSE @,
                                 !.has = IF w \in vs THEN @ \ {"visual"} ELSE @,
                                 !.ready = IF w \in vs THEN Withdrawn(w) ELSE @,
                                 !.recovery = IF w \in vs THEN TRUE ELSE @,
                                 !.batches = IF w \in vs THEN TextOnly(@) ELSE @]]
  BY DEF Expire
<1>2. row'[v] = [row[v] EXCEPT !.raw = IF v \in raws THEN FALSE ELSE @,
                               !.has = IF v \in vs THEN @ \ {"visual"} ELSE @,
                               !.ready = IF v \in vs THEN Withdrawn(v) ELSE @,
                               !.recovery = IF v \in vs THEN TRUE ELSE @,
                               !.batches = IF v \in vs THEN TextOnly(@) ELSE @]
  BY <1>1
<1> QED
  BY <1>2 DEF RowType

\* A version becomes current and indexed when its unchanged bytes are uploaded again or its
\* extraction commits, and a reader of a deleted document finds nothing of it.
LEMMA SettledComes ==
    ASSUME VInv, VNext, MarkInv, NEW v \in Versions, Settled(v)', ~Settled(v)
    PROVE  \/ CommitExtract /\ Subject = v
           \/ Upload(v) /\ CreateJobs({<<"mark_historical", v>>} \cup Missing(v))
<1> USE DEF outside, queueVars, apiVars
<1>0. /\ row \in [Versions -> RowType]
      /\ doc \in [current : Versions \cup {None}, deleted : BOOLEAN]
      /\ doc'.current = v /\ ~doc'.deleted /\ row'[v].state = "indexed"
      /\ row[v].state # "indexed" \/ doc.current # v \/ doc.deleted
      /\ doc.deleted => row[v].state = "absent"
  BY DEF VInv, VTypeOK, RowsOK, Settled, IsCurrent, Exists, MarkInv
<1>1. ASSUME row'[v].state = row[v].state, doc' = doc PROVE FALSE
  BY <1>0, <1>1
<1>2. CASE Api
  <2>1. ~Delete
    BY <1>0 DEF Delete
  <2>2. ASSUME NEW u \in Versions, Upload(u)
        PROVE  u = v /\ CreateJobs({<<"mark_historical", v>>} \cup Missing(v))
    <3>1. ASSUME row' = [row EXCEPT ![u].state = "staged", ![u].raw = TRUE]
                 \/ row' = [row EXCEPT ![u].raw = TRUE], doc' = [doc EXCEPT !.deleted = FALSE]
          PROVE  FALSE
      <4>1. row'[v].state = "indexed" => row[v].state = "indexed"
        BY <1>0, <3>1 DEF RowType
      <4> QED
        BY <1>0, <3>1, <4>1
    <3>2. doc' = [current |-> u, deleted |-> FALSE]
          /\ CreateJobs({<<"mark_historical", u>>} \cup Missing(u))
      BY <2>2, <3>1 DEF Upload
    <3> QED
      BY <1>0, <3>2
  <2>3. ~Withhold
    <3>1. Withhold => row'[v].state = row[v].state /\ doc' = doc
      BY <1>0 DEF Withhold, RowType
    <3> QED
      BY <1>1, <3>1
  <2> QED
    BY <1>1, <1>2, <2>1, <2>2, <2>3 DEF Api, Unlink, Configure, Backfill, Look
<1>3. ~Expire
  <2>1. Expire => row'[v].state = row[v].state /\ doc' = doc
    BY <1>0, CleanupKeepsState DEF Expire
  <2> QED
    BY <1>1, <2>1
<1>4. CASE Handler
  <2>1. ASSUME NEW s, NEW next, NEW new, Update(s, new, next), new.state = row[Subject].state
        PROVE  FALSE
    BY <1>0, <1>1, <2>1 DEF Update
  <2>2. \A u : row[u] \in RowType \/ u \notin Versions
    BY <1>0
  <2>3. ~ReplaceChunks /\ ~ReplaceVisuals /\ ~ForgetBatches /\ ~Rendered /\ ~LoseBatches
        /\ ~Withdraw /\ ~SetReady
    <3>1. ASSUME ReplaceChunks \/ ReplaceVisuals \/ ForgetBatches \/ Rendered \/ LoseBatches
                 \/ Withdraw \/ SetReady
          PROVE  Subject \in Versions
      BY <3>1, KindOfStep DEF ReplaceChunks, ReplaceVisuals, Insert, ForgetBatches, Rendered,
         LoseBatches, Withdraw, SetReady, Update, At
    <3> QED
      BY <1>0, <2>1, <3>1 DEF RowType, ReplaceChunks, ReplaceVisuals, Insert, ForgetBatches, Rendered,
         LoseBatches, Withdraw, SetReady
  <2>4. ~RecordBatch
    BY <1>0, <1>1 DEF RecordBatch, RowType
  <2>5. CommitExtract => Subject = v
    BY <1>0 DEF CommitExtract
  <2> QED
    BY <1>1, <1>4, <2>3, <2>4, <2>5
    DEF Handler, Begin, RemovePreviews, Parse, Enqueue, DropVisual, EmbedBatch, Drop, Mark
<1> QED
  BY <1>1, <1>2, <1>3, <1>4 DEF VNext, Worker, Claim, Finish, Fail, Boot, CleanupDies, Crash, Raise, Requeue

\* A job goes only when its own run ends, or as a failed extraction when another commits.
LEMMA JobStays ==
    ASSUME VInv, VNext, NEW j \in Jobs, status[j] # "none"
    PROVE  \/ status'[j] # "none"
           \/ Finish /\ hand.job = j
           \/ CommitExtract /\ j[1] = "extract" /\ status[j] = "failed"
<1> USE DEF outside, queueVars, apiVars
<1>0. QueueOK /\ HandFits
  BY DEF VInv, VTypeOK
<1>1. SUFFICES ASSUME status'[j] = "none" PROVE (Finish /\ hand.job = j) \/
                 (CommitExtract /\ j[1] = "extract" /\ status[j] = "failed")
  OBVIOUS
<1>2. ~(\E asked : CreateJobs(asked))
  BY <1>0, <1>1 DEF CreateJobs
<1>3. ~Claim
  <2>1. Claim => \E k \in Jobs : status' = [status EXCEPT ![k] = "running"]
    BY DEF Claim, Claimable
  <2> QED
    BY <1>0, <1>1, <2>1 DEF QueueOK
<1>4. Finish => hand.job = j
  BY <1>0, <1>1 DEF Finish, QueueOK
<1>5. ~Fail
  <2>1. Fail => \E s \in {"delayed", "failed"} : status' = [status EXCEPT ![hand.job] = s]
    BY DEF Fail
  <2> QED
    BY <1>0, <1>1, <2>1 DEF QueueOK
<1>6. ASSUME NEW k \in Jobs PROVE ~Requeue(k)
  <2>1. Requeue(k) => status' = [status EXCEPT ![k] = "queued"]
    BY DEF Requeue
  <2> QED
    BY <1>0, <1>1, <2>1 DEF QueueOK
<1>7. CommitExtract => j[1] = "extract" /\ status[j] = "failed"
  <2> DEFINE failed == {<<"extract", u>> : u \in {w \in Versions : status[<<"extract", w>>] = "failed"}}
             mark == <<"mark_historical", Subject>>
  <2>1. ASSUME NEW k \in failed PROVE k[1] = "extract" /\ status[k] = "failed"
    <3>1. PICK u \in Versions : status[<<"extract", u>>] = "failed" /\ k = <<"extract", u>>
      OBVIOUS
    <3> QED
      BY <3>1
  <2>2. CommitExtract => status' = [k \in Jobs |-> IF k \in failed THEN "none"
                                  ELSE IF k = mark /\ status[k] \in {"none", "failed"}
                                  THEN "queued" ELSE status[k]]
    BY DEF CommitExtract
  <2> HIDE DEF failed, mark
  <2> QED
    BY <1>0, <1>1, <2>1, <2>2
<1>8. status' # status
  BY <1>1
<1> QED
  BY <1>2, <1>3, <1>4, <1>5, <1>6, <1>7, <1>8
  DEF VNext, Api, Worker, Handler, Upload, Delete, Unlink, Configure, Backfill, Look, Withhold,
      Boot, Expire, CleanupDies, Crash, Raise, Begin,
      RemovePreviews, Parse, ReplaceChunks, ReplaceVisuals, Insert, Update, Enqueue,
      DropVisual, ForgetBatches, Rendered, LoseBatches, Withdraw, EmbedBatch, RecordBatch, SetReady,
      Drop, Mark

LEMMA MarkJobStays ==
    ASSUME VInv, VNext, NEW v \in Versions, status[MarkOf(v)] # "none"
    PROVE  status'[MarkOf(v)] # "none" \/ (Finish /\ hand.job = MarkOf(v))
<1>1. MarkOf(v) \in Jobs /\ MarkOf(v)[1] = "mark_historical"
  BY JobFacts DEF MarkOf
<1> HIDE DEF MarkOf
<1> QED
  BY <1>1, JobStays

\* What makes a version current asks for its mark_historical job, and overlooks only a run
\* that is at work.
LEMMA SettledIsAsked ==
    ASSUME VInv, VNext, MarkInv, NEW v \in Versions, Settled(v)', ~Settled(v), ~overlooked'
    PROVE  status'[MarkOf(v)] # "none" /\ hand'.job # MarkOf(v)
<1> USE DEF outside, queueVars, apiVars
<1>0. MarkOf(v) \in Jobs /\ HandFits /\ QueueOK
  BY JobFacts DEF VInv, VTypeOK, MarkOf
<1>1. CASE CommitExtract /\ Subject = v
  <2>1. Kind = "extract" /\ hand'.job = hand.job
    BY <1>0, <1>1, KindOfStep DEF CommitExtract, At, GoTo, HandFits
  <2>2. hand'.job # MarkOf(v)
    BY <2>1 DEF Kind, MarkOf
  <2> DEFINE failed == {<<"extract", u>> : u \in {w \in Versions : status[<<"extract", w>>] = "failed"}}
             mark == <<"mark_historical", Subject>>
  <2>3. MarkOf(v) \notin failed /\ MarkOf(v) = mark
    BY <1>1 DEF MarkOf
  <2>4. status' = [k \in Jobs |-> IF k \in failed THEN "none"
                                  ELSE IF k = mark /\ status[k] \in {"none", "failed"}
                                  THEN "queued" ELSE status[k]]
    BY <1>1 DEF CommitExtract
  <2> HIDE DEF failed, mark
  <2> QED
    BY <1>0, <2>2, <2>3, <2>4
<1>2. CASE Upload(v) /\ CreateJobs({<<"mark_historical", v>>} \cup Missing(v))
  <2>1. hand.job # MarkOf(v)
    BY <1>2 DEF CreateJobs, MarkOf
  <2>2. hand' = hand
    BY <1>2 DEF Upload
  <2>3. status'[MarkOf(v)] # "none"
    BY <1>0, <1>2 DEF CreateJobs, MarkOf
  <2> QED
    BY <2>1, <2>2, <2>3
<1> QED
  BY <1>1, <1>2, SettledComes

LEMMA OverlookedStays ==
    ASSUME VInv, VNext, overlooked
    PROVE  overlooked'
BY DEF outside, queueVars, apiVars, CreateJobs,
    VNext, Api, Worker, Handler, Upload, Delete, Unlink, Configure, Backfill, Look, Withhold,
    Claim, Finish, Fail, Boot, Expire, CleanupDies, Crash, Raise, Requeue, Begin,
    RemovePreviews, Parse, ReplaceChunks, ReplaceVisuals, Insert, Update, CommitExtract, Enqueue,
    DropVisual, ForgetBatches, Rendered, LoseBatches, Withdraw, EmbedBatch, RecordBatch, SetReady,
    Drop, Mark

\* A document that is gone has no version.
LEMMA DeletedStaysEmpty ==
    ASSUME VInv, VNext, MarkInv, doc'.deleted, NEW v \in Versions
    PROVE  row'[v].state = "absent"
<1> USE DEF outside, queueVars, apiVars
<1>0. /\ row \in [Versions -> RowType]
      /\ doc \in [current : Versions \cup {None}, deleted : BOOLEAN]
      /\ doc.deleted => \A u \in Versions : row[u].state = "absent"
  BY DEF VInv, VTypeOK, RowsOK, MarkInv, Exists
<1>1. CASE Delete
  BY <1>1 DEF Delete, NoRow
<1>2. CASE ~Delete
  <2>1. ASSUME NEW u \in Versions PROVE ~Upload(u)
    BY <1>0 DEF Upload
  <2>2. doc.deleted
    BY <1>0, <1>2, <2>1
    DEF VNext, Api, Worker, Handler, Unlink, Configure, Backfill, Look, Withhold,
        Claim, Finish, Fail, Boot, Expire, CleanupDies, Crash, Raise, Requeue, Begin,
        RemovePreviews, Parse, ReplaceChunks, ReplaceVisuals, Insert, Update, CommitExtract, Enqueue,
        DropVisual, ForgetBatches, Rendered, LoseBatches, Withdraw, EmbedBatch, RecordBatch, SetReady,
        Drop, Mark
  <2>3. row[v].state = "absent" /\ \A u \in Versions : ~Exists(u)
    BY <1>0, <2>2 DEF Exists
  <2>4. CASE Handler
    <3>1. hand.step \in {"chunks", "visuals", "commit", "forget", "rendered", "lost", "withdraw",
                         "embed", "record"} => Subject \in Versions
      BY KindOfStep
    <3>2. \A s, new, next : Update(s, new, next) /\ Subject \in Versions => row' = row
      BY <2>3 DEF Update
    <3>3. CommitExtract => row'[v].state = "absent"
      BY <2>3 DEF CommitExtract
    <3>4. RecordBatch => row' = row
      BY <2>3, <3>1 DEF RecordBatch, At
    <3>5. ReplaceChunks \/ ReplaceVisuals \/ ForgetBatches \/ Rendered \/ LoseBatches \/ Withdraw
             \/ SetReady => row' = row
      BY <3>1, <3>2 DEF ReplaceChunks, ReplaceVisuals, Insert, ForgetBatches, Rendered, LoseBatches,
         Withdraw, SetReady, Update, At
    <3> QED
      BY <2>3, <2>4, <3>3, <3>4, <3>5
      DEF Handler, Begin, RemovePreviews, Parse, Enqueue, DropVisual, EmbedBatch, Drop, Mark
  <2>5. CASE Withhold
    BY <1>0, <2>3, <2>5 DEF Withhold, RowType
  <2>6. CASE Expire
    BY <1>0, <2>3, <2>6, CleanupKeepsState
  <2> QED
    BY <1>2, <2>1, <2>3, <2>4, <2>5, <2>6
    DEF VNext, Api, Worker, Unlink, Configure, Backfill, Look,
        Claim, Finish, Fail, Boot, CleanupDies, Crash, Raise, Requeue
<1> QED
  BY <1>1, <1>2

\* The points are written by four steps of the handlers.
LEMMA PointsAreWritten ==
    ASSUME VInv, VNext
    PROVE  UNCHANGED <<points, marked>> \/ DropVisual \/ EmbedBatch \/ Drop \/ Mark
BY DEF outside, queueVars, apiVars, VNext, Api, Worker, Handler, Upload, Delete, Unlink, Configure, Backfill,
    Look, Withhold, Claim, Finish, Fail, Boot, Expire, CleanupDies, Crash, Raise, Requeue, Begin,
    RemovePreviews, Parse, ReplaceChunks, ReplaceVisuals, Insert, Update, CommitExtract, Enqueue,
    ForgetBatches, Rendered, LoseBatches, Withdraw, RecordBatch, SetReady

\* Deleting vectors and embedding the current version keep the marks right.
LEMMA AllMarkedStays ==
    ASSUME VInv, VNext, NEW v \in Versions, AllMarked(v), Marking => Subject = v, ~Mark
    PROVE  AllMarked(v)'
<1>1. CASE UNCHANGED <<points, marked>>
  BY <1>1 DEF AllMarked
<1>2. CASE DropVisual
  BY <1>2 DEF DropVisual, AllMarked, Visual
<1>3. CASE Drop
  BY <1>3 DEF Drop, AllMarked, Dropped
<1>4. CASE EmbedBatch
  <2>1. Subject = v /\ Point(Subject, Piece)[1] = Subject
    BY <1>4 DEF EmbedBatch, At, Marking, Point
  <2>2. UNCHANGED <<points, marked>>
        \/ /\ points' = points \cup {Point(Subject, Piece)}
           /\ marked' = marked \cup {Point(Subject, Piece)}
    BY <1>4 DEF EmbedBatch
  <2> QED
    BY <2>1, <2>2 DEF AllMarked
<1> QED
  BY <1>1, <1>2, <1>3, <1>4, PointsAreWritten

\* How the hand comes to a mark_historical job's steps.
LEMMA MarkingGoesOn ==
    ASSUME VInv, VNext, NEW v \in Versions, IsCurrent(v), hand'.job = MarkOf(v),
           hand'.step \in {"mark", "returned"}
    PROVE  /\ hand.job = MarkOf(v)
           /\ \/ hand' = hand /\ UNCHANGED <<points, marked>>
              \/ hand'.step = "mark" /\ hand'.at = 0
              \/ Mark
<1> USE DEF outside, queueVars, apiVars
<1>0. HandFits /\ MarkOf(v) \in Jobs /\ MarkOf(v) # Idle.job /\ MarkOf(v)[1] = "mark_historical"
      /\ MarkOf(v)[2] = v
  BY JobFacts DEF VInv, MarkOf
<1>1. hand.job = MarkOf(v) /\ (hand' = hand \/ Handler)
  BY <1>0, HandMoves
<1>2. Kind = "mark_historical" /\ Subject = v /\ hand.step \in {"claimed", "returned", "raised", "mark"}
  BY <1>0, <1>1, StepFacts DEF HandFits, Kind, Subject
<1>3. CASE Handler
  <2>1. Begin \/ Mark
    BY <1>2, <1>3, EmbedFacts DEF Handler, RemovePreviews, Parse, ReplaceChunks, ReplaceVisuals, Insert, Update,
         CommitExtract, Enqueue, DropVisual, ForgetBatches, Rendered, LoseBatches, Withdraw,
         EmbedBatch, RecordBatch, SetReady, Drop, At
  <2>2. CASE Begin
    <3>1. hand'.step = FirstStep /\ hand'.at = hand.at /\ hand.step = "claimed"
      BY <1>0, <2>2 DEF Begin, GoTo, HandFits, At
    <3>2. hand'.at = 0
      BY <1>0, <3>1 DEF HandFits
    <3> HIDE DEF Kind, Subject
    <3>3. FirstStep = "mark"
      BY <1>2, EmbedFacts DEF FirstStep
    <3> QED
      BY <1>1, <3>1, <3>2, <3>3
  <2> QED
    BY <1>1, <2>1, <2>2
<1>4. CASE hand' = hand /\ ~Handler
  <2>1. UNCHANGED <<points, marked>>
    BY <1>4, PointsAreWritten DEF Handler
  <2> QED
    BY <1>1, <1>4, <2>1
<1> QED
  BY <1>1, <1>3, <1>4

\* A handler that marks points began for the current version.
LEMMA MarkingFromTheStart ==
    ASSUME VInv, VNext, Marking'
    PROVE  \/ Marking /\ hand'.job = hand.job /\ ~Finish
           \/ Begin /\ hand'.job = hand.job /\ IsCurrent(Subject)
<1>0. HandFits
  BY DEF VInv
<1>1. CASE Begin
  <2>1. hand'.step = FirstStep /\ hand'.job = hand.job
    BY <1>0, <1>1 DEF Begin, GoTo, HandFits
  <2>2. Kind \in {"extract", "render_visual", "embed_text", "embed_visual", "mark_historical",
                  "delete_vectors", "delete_version_vectors"}
    BY <1>1, KindOfStep, JobFacts DEF Kind, Begin, At
  <2> HIDE DEF Kind, Subject
  <2>3. FirstStep \in {"embed", "record", "mark"} => IsCurrent(Subject)
    BY <2>2, EmbedFacts DEF FirstStep
  <2> QED
    BY <1>1, <2>1, <2>3 DEF Marking
<1>2. CASE Handler /\ ~Begin
  <2>1. Marking
    <3>1. ASSUME ~(EmbedBatch \/ RecordBatch \/ Mark)
          PROVE  FALSE
      <4>1. \E s \in {"filling", "chunks", "dropVisual", "visuals", "commit", "rendered", "enqueue",
                 "forget", "returned", "withdraw", "raised", "drop"} :
               GoTo(s) \/ \E n : Proceed(n, s)
        <5>1. CASE RemovePreviews \/ Parse \/ CommitExtract \/ Enqueue \/ DropVisual
          BY <5>1 DEF RemovePreviews, Parse, CommitExtract, Enqueue, DropVisual
        <5>2. CASE Drop
          BY <5>2 DEF Drop
        <5>3. CASE ReplaceChunks \/ ReplaceVisuals
          BY <5>3 DEF ReplaceChunks, ReplaceVisuals, Insert, Update
        <5>4. CASE ForgetBatches \/ Rendered \/ LoseBatches \/ Withdraw \/ SetReady
          BY <5>4 DEF ForgetBatches, Rendered, LoseBatches, Withdraw, SetReady, Update
        <5> QED
          BY <1>2, <3>1, <5>1, <5>2, <5>3, <5>4 DEF Handler
      <4> QED
        BY <1>0, <4>1 DEF GoTo, Proceed, HandFits, Marking
    <3> QED
      BY <3>1 DEF EmbedBatch, RecordBatch, Mark, At, Marking
  <2>2. ~Finish
    BY <2>1 DEF Finish, At, Marking
  <2>3. hand'.job = hand.job
    BY <1>0, <1>2, <2>1, HandMoves DEF Marking, Claim, Raise, At, HandFits
  <2> QED
    BY <2>1, <2>2, <2>3
<1>3. CASE hand' = hand
  BY <1>3 DEF Marking, Finish, At
<1> QED
  BY <1>1, <1>2, <1>3, HandMoves DEF Marking

\* One step of marking takes the mark a step further.
LEMMA MarkGoesFurther ==
    ASSUME VInv, VNext, Mark, Subject \in Versions, hand.job = MarkOf(Subject), MarkGoesOn(Subject)
    PROVE  /\ hand'.step = "mark" => MarkGoesOn(Subject)'
           /\ hand'.step = "returned" => AllMarked(Subject)'
<1>0. /\ HandFits /\ hand.at \in Nat /\ marked \subseteq points
      /\ \A p \in points : p[2] \in {"text", "visual"}
  BY DEF VInv, VTypeOK, StoresOK, Point, Pieces, Modalities
<1>1. /\ hand'.at = hand.at + 1 /\ hand'.step = IF hand.at < 3 THEN "mark" ELSE "returned"
      /\ hand'.job = hand.job /\ points' = points /\ Subject' = Subject
  BY <1>0 DEF Mark, Proceed, HandFits, outside, Subject
<1> HIDE DEF Subject
<1>2. CASE hand.at = 0
  <2>1. marked' = {p \in marked : p[2] # "text"}
    BY <1>2 DEF Mark
  <2> QED
    BY <1>1, <1>2, <2>1 DEF MarkGoesOn, NoneMarked
<1>3. CASE hand.at = 1
  <2>1. marked' = marked \cup {p \in points : p[2] = "text" /\ p[1] = Subject}
    BY <1>3 DEF Mark
  <2> QED
    BY <1>0, <1>1, <1>3, <2>1 DEF MarkGoesOn, NoneMarked
<1>4. CASE hand.at = 2
  <2>1. marked' = {p \in marked : p[2] # "visual"}
    BY <1>4 DEF Mark
  <2> QED
    BY <1>0, <1>1, <1>4, <2>1 DEF MarkGoesOn, NoneMarked
<1>5. CASE hand.at = 3
  <2>1. marked' = marked \cup {p \in points : p[2] = "visual" /\ p[1] = Subject}
    BY <1>5 DEF Mark
  <2>2. \A p \in points : p \in marked' <=> p[1] = Subject
    BY <1>0, <1>5, <2>1 DEF MarkGoesOn, NoneMarked
  <2> QED
    BY <1>0, <1>1, <1>5, <2>1, <2>2 DEF AllMarked
<1> QED
  BY <1>2, <1>3, <1>4, <1>5 DEF MarkGoesOn

LEMMA MarksAreKept ==
    ASSUME VInv, VNext, MarkInv, NEW v \in Versions, Settled(v), Settled(v)', ~overlooked
    PROVE  MarksOf(v)'
<1>0. /\ MarksOf(v) /\ IsCurrent(v) /\ HandFits /\ MarkOf(v) \in Jobs /\ MarkOf(v) # Idle.job
      /\ MarkOf(v)[1] = "mark_historical" /\ MarkOf(v)[2] = v
  BY JobFacts DEF MarkInv, Settled, VInv, MarkOf
<1>1. ASSUME Mark
      PROVE  hand.job = MarkOf(Subject) /\ Subject \in Versions /\ Marking
             /\ status[MarkOf(Subject)] = "running"
  BY <1>1, KindOfStep, JobFacts DEF Mark, At, MarkOf, Kind, Subject, Marking
<1>2. ASSUME status'[MarkOf(v)] = "none" PROVE AllMarked(v)'
  <2>1. CASE Finish /\ hand.job = MarkOf(v)
    <3>1. AllMarked(v) /\ ~Marking /\ ~Mark
      BY <1>0, <2>1 DEF MarksOf, Finish, At, Marking, Mark
    <3> QED
      BY <3>1, AllMarkedStays
  <2>2. CASE status[MarkOf(v)] = "none"
    <3>1. AllMarked(v) /\ (Marking => Subject = v)
      BY <1>0, <2>2 DEF MarksOf
    <3>2. ~Mark
      BY <1>1, <2>2, <3>1
    <3> QED
      BY <3>1, <3>2, AllMarkedStays
  <2> QED
    BY <1>2, <2>1, <2>2, MarkJobStays
<1>3. ASSUME Marking', Subject' # v PROVE status'[MarkOf(v)] # "none"
  <2>1. CASE Marking /\ hand'.job = hand.job /\ ~Finish
    <3>1. Subject # v
      BY <1>3, <2>1 DEF Subject
    <3> QED
      BY <1>0, <2>1, <3>1, MarkJobStays DEF MarksOf
  <2>2. CASE Begin /\ hand'.job = hand.job /\ IsCurrent(Subject)
    <3>1. Subject = v
      BY <1>0, <2>2 DEF IsCurrent
    <3> QED
      BY <1>3, <2>2, <3>1 DEF Subject
  <2> QED
    BY <1>3, <2>1, <2>2, MarkingFromTheStart
<1>4. ASSUME hand'.job = MarkOf(v), hand'.step \in {"mark", "returned"}
      PROVE  /\ hand'.step = "mark" => MarkGoesOn(v)'
             /\ hand'.step = "returned" => AllMarked(v)'
  <2>1. hand.job = MarkOf(v)
    BY <1>0, <1>4, MarkingGoesOn
  <2>2. CASE hand' = hand /\ UNCHANGED <<points, marked>>
    BY <1>0, <2>1, <2>2 DEF MarksOf, MarkGoesOn, NoneMarked, AllMarked
  <2>3. CASE hand'.step = "mark" /\ hand'.at = 0
    BY <2>3 DEF MarkGoesOn
  <2>4. CASE Mark
    <3>1. Subject = v /\ hand.step = "mark"
      BY <1>0, <2>1, <2>4 DEF Subject, Mark, At
    <3>2. MarkGoesOn(Subject)
      BY <1>0, <2>1, <3>1 DEF MarksOf
    <3>3. /\ hand'.step = "mark" => MarkGoesOn(Subject)'
          /\ hand'.step = "returned" => AllMarked(Subject)'
      BY <1>1, <2>4, <3>2, MarkGoesFurther
    <3>4. Subject' = Subject
      BY <1>4, <2>1 DEF Subject
    <3> QED
      BY <3>1, <3>3, <3>4 DEF MarkGoesOn, AllMarked
  <2> QED
    BY <1>0, <1>4, <2>2, <2>3, <2>4, MarkingGoesOn
<1>5. MarkOf(v)' = MarkOf(v)
  BY DEF MarkOf
<1> QED
  BY <1>2, <1>3, <1>4, <1>5 DEF MarksOf

LEMMA InitMarkInv == VInit => MarkInv
BY DEF VInit, MarkInv, Settled, IsCurrent, Exists, NoRow

LEMMA StepMarkInv == VInv /\ MarkInv /\ [VNext]_vectorVars => MarkInv'
<1>1. ASSUME VInv, MarkInv, VNext PROVE MarkInv'
  <2>1. ASSUME ~overlooked', NEW v \in Versions, Settled(v)' PROVE MarksOf(v)'
    <3>1. ~overlooked
      BY <1>1, <2>1, OverlookedStays
    <3>2. CASE Settled(v)
      BY <1>1, <2>1, <3>1, <3>2, MarksAreKept
    <3>3. CASE ~Settled(v)
      <4>1. status'[MarkOf(v)] # "none" /\ hand'.job # MarkOf(v) /\ MarkOf(v)' = MarkOf(v)
        BY <1>1, <2>1, <3>3, SettledIsAsked DEF MarkOf
      <4> QED
        BY <4>1 DEF MarksOf
    <3> QED
      BY <3>2, <3>3
  <2> QED
    BY <1>1, <2>1, DeletedStaysEmpty DEF MarkInv, Exists
<1>2. ASSUME MarkInv, UNCHANGED vectorVars PROVE MarkInv'
  BY <1>2 DEF vectorVars, outside, queueVars, apiVars, MarkInv, Settled, IsCurrent, Exists, MarksOf, MarkOf,
     AllMarked, NoneMarked, MarkGoesOn, Marking, Subject
<1> QED
  BY <1>1, <1>2

\* With nothing going on, exactly the vectors of the current version are marked current,
\* for any number of versions uploaded, reverted and deleted and any failures in between:
\* whatever makes a version current asks for its mark_historical job, and only a request
\* that finds that job at work is overlooked.
THEOREM MarkedIsCurrentHolds == VSpec => []MarkedIsCurrent
<1>1. VInv /\ MarkInv => MarkedIsCurrent
  <2> SUFFICES ASSUME VInv, MarkInv, NEW v \in Versions, Quiet(v), ~overlooked PROVE AllMarked(v)
    BY DEF MarkedIsCurrent, AllMarked
  <2>1. Settled(v) /\ MarkOf(v) \in Jobs
    BY JobFacts DEF Quiet, Settled, MarkOf
  <2>2. status[MarkOf(v)] = "none"
    BY <2>1 DEF Quiet, MarkOf
  <2> QED
    BY <2>1, <2>2 DEF MarkInv, MarksOf
<1> QED
  BY <1>1, InitMarkInv, StepMarkInv, VectorsInvariant, PTL DEF VSpec

-----------------------------------------------------------------------------
(* What is left to embed                                                   *)

\* The job is to run yet, or its run has not come to its end.
Waiting(j) == status[j] # "none" /\ ~(hand.job = j /\ hand.step = "returned")

\* A modality that v has and is not ready in, and no preview is missing for it.
Lacks(v, m) == m \in row[v].has /\ m \notin row[v].ready /\ ~(m = "visual" /\ row[v].recovery)

\* What embeds the rest, or ends by queueing what does.
Coming(v, e) == \E k \in {e, "extract", "render_visual"} : Waiting(<<k, v>>)

\* A handler that found the previews gone leaves the version to be rendered.
LossIsKnown ==
    hand.job \in Jobs /\ Kind = "embed_visual" /\ hand.step = "dropVisual"
        /\ row[Subject].state = "indexed" => row[Subject].recovery

LeftInv ==
    /\ LossIsKnown
    /\ ~overlooked /\ on /\ ~backfill /\ hand.step # "booting" =>
          \A v \in Versions, e \in DOMAIN Embeds :
              Settled(v) /\ Lacks(v, Embeds[e]) => Coming(v, e)

LEMMA KindsAreJobs ==
    \A v \in Versions : /\ <<"extract", v>> \in Jobs /\ <<"render_visual", v>> \in Jobs
                        /\ <<"embed_text", v>> \in Jobs /\ <<"embed_visual", v>> \in Jobs
BY DEF Jobs, Priority

\* A job that waits goes on waiting, or its handler returns.
LEMMA WaitingStays ==
    ASSUME VInv, VNext, NEW j \in Jobs, Waiting(j)
    PROVE  \/ Waiting(j)'
           \/ Handler /\ hand.job = j /\ hand.step # "returned" /\ hand'.step = "returned"
           \/ CommitExtract /\ j[1] = "extract" /\ status[j] = "failed"
<1>1. ~(Finish /\ hand.job = j)
  BY DEF Finish, At, Waiting
<1>2. ASSUME hand'.job = j, hand'.step = "returned"
      PROVE  Handler /\ hand.job = j /\ hand.step # "returned"
  BY <1>2, HandMoves, JobFacts DEF Waiting
<1> QED
  BY <1>1, <1>2, JobStays DEF Waiting

\* What is asked for waits, unless it was overlooked.
LEMMA AskedWaits ==
    ASSUME VInv, NEW asked, CreateJobs(asked), ~overlooked', NEW j \in Jobs \cap asked,
           hand'.job \in {hand.job, Idle.job}
    PROVE  Waiting(j)'
<1>1. status'[j] # "none"
  BY DEF CreateJobs
<1>2. hand'.job # j
  BY JobFacts DEF CreateJobs
<1> QED
  BY <1>1, <1>2 DEF Waiting

\* The current version's missing modalities are asked for.
LEMMA MissingIsAsked ==
    ASSUME NEW v \in Versions, NEW e \in DOMAIN Embeds, on, Settled(v), Lacks(v, Embeds[e])
    PROVE  <<e, v>> \in Missing(v) /\ <<e, v>> \in MissingNow
BY DEF Missing, MissingNow, Settled, Lacks, Unready, IsCurrent

\* An embedding job that returns has left nothing of its modality.
LEMMA EmbeddingLeavesNothing ==
    ASSUME VInv, VNext, LossIsKnown, NEW v \in Versions, NEW e \in DOMAIN Embeds, Handler,
           hand.job = <<e, v>>, hand'.step = "returned", hand.step # "returned", Settled(v)'
    PROVE  ~Lacks(v, Embeds[e])'
<1> USE DEF outside, queueVars, apiVars
<1>0. /\ HandFits /\ row \in [Versions -> RowType] /\ hand.job \in Jobs
      /\ e \in {"embed_text", "embed_visual"}
  BY KindsAreJobs, EmbedFacts DEF VInv, VTypeOK, RowsOK
<1>1. Kind = e /\ Subject = v /\ Modality = Embeds[e]
  BY DEF Kind, Subject, Modality
<1>2. hand.step \in {"claimed", "raised", "lost", "withdraw", "dropVisual", "embed", "record"}
  BY <1>0, <1>1, StepFacts DEF HandFits
<1> HIDE DEF Kind, Subject, Modality
<1>3. Begin \/ DropVisual \/ SetReady
  BY <1>0, <1>1, <1>2 DEF Handler, RemovePreviews, Parse, ReplaceChunks, ReplaceVisuals, Insert, Update,
         CommitExtract, Enqueue, ForgetBatches, Rendered, LoseBatches, Withdraw,
         EmbedBatch, RecordBatch, Drop, Mark, At, GoTo, Proceed, HandFits
<1>4. CASE Begin
  <2>1. FirstStep = "returned" /\ row' = row /\ doc' = doc
    BY <1>0, <1>4 DEF Begin, GoTo, HandFits
  <2>2. ~IsCurrent(v) \/ Embeds[e] \notin row[v].has
    BY <1>0, <1>1, <2>1, EmbedFacts DEF FirstStep
  <2>3. Settled(v)
    BY <2>1 DEF Settled, IsCurrent, Exists
  <2> QED
    BY <2>1, <2>2, <2>3 DEF Settled, Lacks
<1>5. CASE DropVisual
  <2>1. row' = row /\ hand.step = "dropVisual"
    BY <1>5 DEF DropVisual, At
  <2>2. e = "embed_visual"
    BY <1>0, <1>1, <2>1, StepFacts DEF HandFits
  <2>3. row[v].recovery
    BY <1>0, <1>1, <2>1, <2>2 DEF LossIsKnown, Settled
  <2> QED
    BY <2>1, <2>2, <2>3, EmbedFacts DEF Lacks
<1>6. CASE SetReady
  <2>1. row' = IF Exists(v) THEN [row EXCEPT ![v] =
                  [row[v] EXCEPT !.ready = @ \cup {Modality},
                                       !.recovery = @ /\ Modality # "visual"]] ELSE row
    BY <1>1, <1>6 DEF SetReady, Update
  <2>2. row'[v].state # "absent"
    BY DEF Settled
  <2>3. Exists(v)
    BY <2>1, <2>2 DEF Exists
  <2>4. row'[v].ready = row[v].ready \cup {Modality}
    BY <1>0, <2>1, <2>3 DEF RowType
  <2> QED
    BY <1>1, <2>4 DEF Lacks
<1> QED
  BY <1>3, <1>4, <1>5, <1>6

\* A current version comes to lack a modality in a handler that parses its source.
LEMMA LackComes ==
    ASSUME VInv, VNext, NEW v \in Versions, NEW m \in Modalities,
           Settled(v), Settled(v)', ~Lacks(v, m), Lacks(v, m)'
    PROVE  /\ Handler /\ hand.job \in {<<"extract", v>>, <<"render_visual", v>>}
           /\ hand'.job = hand.job /\ hand'.step # "returned" /\ status'[hand.job] # "none"
<1> USE DEF outside, queueVars, apiVars
<1>0. /\ HandFits /\ row \in [Versions -> RowType] /\ row[v].state = "indexed" /\ row[v] \in RowType
      /\ row'[v].state = "indexed"
  BY DEF VInv, VTypeOK, RowsOK, Settled
<1>1. ASSUME row'[v].has \subseteq row[v].has, row[v].ready \subseteq row'[v].ready,
             row[v].recovery => row'[v].recovery
      PROVE  FALSE
  BY <1>1 DEF Lacks
<1>2. ASSUME row'[v].has \subseteq row[v].has, row'[v].ready = row[v].ready \ {"visual"},
             row'[v].recovery
      PROVE  FALSE
  BY <1>2 DEF Lacks
<1>3. row' # row
  BY <1>1
<1>4. ~Delete
  BY <1>0 DEF Delete, NoRow
<1>5. ASSUME NEW u \in Versions PROVE ~Upload(u)
  <2>1. Upload(u) => \/ row' = [row EXCEPT ![u].state = "staged", ![u].raw = TRUE]
                     \/ row' = [row EXCEPT ![u].raw = TRUE]
                     \/ row' = row
    BY DEF Upload
  <2>2. Upload(u) => row'[v].has = row[v].has /\ row'[v].ready = row[v].ready
                     /\ row'[v].recovery = row[v].recovery
    BY <1>0, <2>1 DEF RowType
  <2> QED
    BY <1>1, <2>2
<1>6. ~Withhold
  <2>1. Withhold => \/ row'[v] = row[v]
                    \/ row'[v] = [row[v] EXCEPT !.batches = TextOnly(@), !.ready = Withdrawn(v),
                                                !.recovery = TRUE]
    BY <1>0 DEF Withhold
  <2> QED
    BY <1>0, <1>1, <1>2, <2>1 DEF RowType, Withdrawn
<1>7. ~Expire
  <2>1. ASSUME Expire
        PROVE  \E vs \in SUBSET {w \in Versions : "visual" \in row[w].has}, raws \in SUBSET Versions :
                  row' = [w \in Versions |->
                            [row[w] EXCEPT !.raw = IF w \in raws THEN FALSE ELSE @,
                                           !.has = IF w \in vs THEN @ \ {"visual"} ELSE @,
                                           !.ready = IF w \in vs THEN Withdrawn(w) ELSE @,
                                           !.recovery = IF w \in vs THEN TRUE ELSE @,
                                           !.batches = IF w \in vs THEN TextOnly(@) ELSE @]]
    BY <2>1 DEF Expire
  <2>2. ASSUME NEW vs, NEW raws,
               row'[v] = [row[v] EXCEPT !.raw = IF v \in raws THEN FALSE ELSE @,
                                        !.has = IF v \in vs THEN @ \ {"visual"} ELSE @,
                                        !.ready = IF v \in vs THEN Withdrawn(v) ELSE @,
                                        !.recovery = IF v \in vs THEN TRUE ELSE @,
                                        !.batches = IF v \in vs THEN TextOnly(@) ELSE @]
        PROVE  FALSE
    <3>1. CASE v \in vs
      BY <1>0, <1>2, <2>2, <3>1 DEF RowType, Withdrawn
    <3>2. CASE v \notin vs
      BY <1>0, <1>1, <2>2, <3>2 DEF RowType
    <3> QED
      BY <3>1, <3>2
  <2> QED
    BY <2>1, <2>2
<1>8. Handler
  BY <1>3, <1>4, <1>5, <1>6, <1>7
  DEF VNext, Api, Worker, Unlink, Configure, Backfill, Look,
      Claim, Finish, Fail, Boot, CleanupDies, Crash, Raise, Requeue
<1>9. Subject = v
  <2>1. CASE CommitExtract
    BY <1>0, <1>1, <2>1 DEF CommitExtract, Settled, IsCurrent
  <2>2. CASE ~CommitExtract
    <3>1. row' = row \/ \E new : row' = [row EXCEPT ![Subject] = new]
      BY <1>0, <1>8, <2>2 DEF Handler, Begin, RemovePreviews, Parse, ReplaceChunks, ReplaceVisuals, Insert,
         Update, Enqueue, DropVisual, ForgetBatches, Rendered, LoseBatches, Withdraw,
         EmbedBatch, RecordBatch, SetReady, Drop, Mark
    <3> QED
      BY <1>0, <1>1, <3>1
  <2> QED
    BY <2>1, <2>2
<1>10. ASSUME NEW s, NEW next, NEW new, Update(s, new, next)
       PROVE  row'[v] = new
  BY <1>0, <1>9, <1>10 DEF Update, Exists
<1>11. ~ForgetBatches /\ ~LoseBatches
  <2>1. ForgetBatches \/ LoseBatches => row'[v] = [row[v] EXCEPT !.batches = TextOnly(@)]
    BY <1>9, <1>10 DEF ForgetBatches, LoseBatches
  <2> QED
    BY <1>0, <1>1, <2>1 DEF RowType
<1>12. ~Withdraw
  <2>1. Withdraw => row'[v] = [row[v] EXCEPT !.ready = Withdrawn(v), !.recovery = TRUE]
    BY <1>9, <1>10 DEF Withdraw
  <2> QED
    BY <1>0, <1>2, <2>1 DEF RowType, Withdrawn
<1>13. ~RecordBatch
  <2>1. RecordBatch => row' = row \/ row' = [row EXCEPT ![v].batches = @ \cup {Piece}]
    BY <1>9 DEF RecordBatch
  <2> QED
    BY <1>0, <1>1, <2>1 DEF RowType
<1>14. ~SetReady
  <2>1. SetReady => row'[v] = [row[v] EXCEPT !.ready = @ \cup {Modality},
                                             !.recovery = @ /\ Modality # "visual"]
    BY <1>9, <1>10 DEF SetReady
  <2>2. SetReady => row'[v].has = row[v].has /\ row'[v].ready = row[v].ready \cup {Modality}
                    /\ (row[v].recovery => row'[v].recovery \/ Modality = "visual")
    BY <1>0, <2>1 DEF RowType
  <2> QED
    BY <2>2 DEF Lacks
<1>15. /\ hand.step \in {"chunks", "visuals", "commit", "rendered"} /\ hand'.job = hand.job
       /\ hand'.step \in {"visuals", "commit", "rendered", "enqueue", "raised"}
  <2>1. CASE ReplaceChunks
    BY <1>0, <2>1 DEF ReplaceChunks, Insert, Update, At, GoTo, HandFits
  <2>2. CASE ReplaceVisuals
    BY <1>0, <2>2 DEF ReplaceVisuals, Insert, Update, At, GoTo, HandFits
  <2>3. CASE Rendered
    BY <1>0, <2>3 DEF Rendered, Update, At, GoTo, HandFits
  <2>4. CASE CommitExtract
    BY <1>0, <2>4 DEF CommitExtract, At, GoTo, HandFits
  <2> QED
    BY <1>3, <1>8, <1>11, <1>12, <1>13, <1>14, <2>1, <2>2, <2>3, <2>4
    DEF Handler, Begin, RemovePreviews, Parse, Enqueue, DropVisual, EmbedBatch, Drop, Mark
<1>16. hand.job \in {<<"extract", v>>, <<"render_visual", v>>} /\ hand.job \in Jobs
       /\ status[hand.job] = "running"
  BY <1>9, <1>15, KindOfStep, JobFacts DEF Kind, Subject
<1>17. status'[hand.job] # "none"
  BY <1>15, <1>16, JobStays DEF Finish, At
<1> QED
  BY <1>8, <1>15, <1>16, <1>17

\* Once the loss of its previews is known, a version waits for them until a rendering.
LEMMA LossStaysKnown ==
    ASSUME VInv, VNext, LossIsKnown
    PROVE  LossIsKnown'
<1> USE DEF outside, queueVars, apiVars
<1>0. HandFits /\ row \in [Versions -> RowType]
  BY DEF VInv, VTypeOK, RowsOK
<1> SUFFICES ASSUME hand'.job \in Jobs, Kind' = "embed_visual", hand'.step = "dropVisual",
                    row'[Subject'].state = "indexed"
             PROVE  row'[Subject'].recovery
  BY DEF LossIsKnown
<1>1. hand'.job = hand.job /\ Kind = "embed_visual" /\ Subject' = Subject /\ (hand' = hand \/ Handler)
  BY HandMoves, JobFacts DEF Kind, Subject
<1>2. hand.step \in {"claimed", "returned", "raised", "lost", "withdraw", "dropVisual", "embed", "record"}
  BY <1>0, <1>1, StepFacts DEF HandFits
<1>3. Subject \in Versions
  BY <1>1, JobFacts DEF Kind, Subject
<1> HIDE DEF Kind, Subject
<1>4. CASE Withdraw
  <2>1. row' = IF Exists(Subject)
               THEN [row EXCEPT ![Subject] = [row[Subject] EXCEPT !.ready = Withdrawn(Subject),
                                                                  !.recovery = TRUE]]
               ELSE row
    BY <1>4 DEF Withdraw, Update
  <2>2. CASE Exists(Subject)
    <3>1. row'[Subject] = [row[Subject] EXCEPT !.ready = Withdrawn(Subject), !.recovery = TRUE]
      BY <1>0, <1>3, <2>1, <2>2
    <3> QED
      BY <1>0, <1>1, <1>3, <3>1 DEF RowType
  <2> QED
    BY <1>1, <2>1, <2>2 DEF Exists
<1>5. CASE Handler /\ ~Withdraw
  <2>1. ~(\E s \in {"returned", "raised", "embed", "record", "withdraw"} : GoTo(s) \/ \E n : Proceed(n, s))
    BY <1>0 DEF GoTo, Proceed, HandFits
  <2>2. ~Begin
    <3>1. FirstStep \in {"returned", "lost", "embed"}
      BY <1>1, EmbedFacts DEF FirstStep
    <3> QED
      BY <1>0, <3>1 DEF Begin, GoTo, HandFits
  <2>3. ~DropVisual
    BY <1>0, <1>1, <2>1 DEF DropVisual
  <2>4. ~LoseBatches /\ ~SetReady /\ ~EmbedBatch /\ ~RecordBatch
    BY <2>1 DEF LoseBatches, SetReady, Update, EmbedBatch, RecordBatch
  <2> QED
    BY <1>2, <1>5, <2>2, <2>3, <2>4
    DEF Handler, RemovePreviews, Parse, ReplaceChunks, ReplaceVisuals, Insert, Update, CommitExtract,
        Enqueue, ForgetBatches, Rendered, Drop, Mark, At
<1>6. CASE hand' = hand /\ ~Handler
  <2>1. hand.step = "dropVisual" /\ hand.job \in Jobs
    BY <1>6
  <2>2. row[Subject].state = "indexed" => row[Subject].recovery
    BY <1>1, <2>1 DEF LossIsKnown
  <2>3. CASE Delete
    BY <1>1, <1>3, <2>3 DEF Delete, NoRow
  <2>4. ASSUME NEW u \in Versions, Upload(u) PROVE row'[Subject].recovery
    <3>1. \/ row' = [row EXCEPT ![u].state = "staged", ![u].raw = TRUE]
          \/ row' = [row EXCEPT ![u].raw = TRUE]
          \/ row' = row
      BY <2>4 DEF Upload
    <3>2. /\ row'[Subject].state = "indexed" => row[Subject].state = "indexed"
          /\ row'[Subject].recovery = row[Subject].recovery
      BY <1>0, <1>3, <3>1 DEF RowType
    <3> QED
      BY <1>1, <2>2, <3>2
  <2>5. CASE Withhold
    <3>1. \/ row'[Subject] = row[Subject]
          \/ row'[Subject] = [row[Subject] EXCEPT !.batches = TextOnly(@), !.ready = Withdrawn(Subject),
                                                  !.recovery = TRUE]
      BY <1>0, <1>3, <2>5 DEF Withhold
    <3> QED
      BY <1>0, <1>1, <1>3, <2>2, <3>1 DEF RowType
  <2>6. ~Expire
    BY <2>1 DEF Expire, At
  <2>7. CASE row' = row
    BY <1>1, <2>2, <2>7
  <2> QED
    BY <1>1, <1>6, <2>3, <2>4, <2>5, <2>6, <2>7
    DEF VNext, Api, Worker, Unlink, Configure, Backfill, Look,
        Claim, Finish, Fail, Boot, CleanupDies, Crash, Raise, Requeue
<1> QED
  BY <1>1, <1>4, <1>5, <1>6

LEMMA LeftIsComing ==
    ASSUME VInv, MarkInv, LeftInv, VNext, NEW v \in Versions, NEW e \in DOMAIN Embeds,
           ~overlooked', on', ~backfill', hand'.step # "booting", Settled(v)', Lacks(v, Embeds[e])'
    PROVE  Coming(v, e)'
<1> USE DEF outside, queueVars, apiVars
<1>0. /\ HandFits /\ ~overlooked /\ Embeds[e] \in Modalities /\ CountsFit
      /\ <<e, v>> \in Jobs /\ <<"extract", v>> \in Jobs /\ <<"render_visual", v>> \in Jobs
      /\ e \in {"embed_text", "embed_visual"}
  BY OverlookedStays, KindsAreJobs, EmbedFacts DEF VInv, Modalities
<1>1. ASSUME NEW asked, CreateJobs(asked), <<e, v>> \in asked, hand'.job \in {hand.job, Idle.job}
      PROVE  Coming(v, e)'
  BY <1>0, <1>1, AskedWaits DEF Coming
<1>2. ASSUME NEW k \in {"extract", "render_visual"}, hand.job = <<k, v>>, hand'.job = hand.job,
             hand'.step # "returned", status'[hand.job] # "none"
      PROVE  Coming(v, e)'
  BY <1>2 DEF Coming, Waiting
<1>3. CASE ~Settled(v)
  <2>1. CASE CommitExtract /\ Subject = v
    <3>1. Kind = "extract" /\ hand.job \in Jobs /\ status[hand.job] = "running"
          /\ hand'.job = hand.job /\ hand'.step = "enqueue" /\ ~Finish
      BY <1>0, <2>1, KindOfStep DEF CommitExtract, At, GoTo, HandFits, Finish
    <3>2. hand.job = <<"extract", v>>
      BY <2>1, <3>1, JobFacts DEF Kind, Subject
    <3>3. status'[hand.job] # "none"
      BY <3>1, JobStays
    <3> QED
      BY <1>2, <3>1, <3>2, <3>3
  <2>2. CASE Upload(v) /\ CreateJobs({<<"mark_historical", v>>} \cup Missing(v))
    <3>1. row' = row /\ on' = on /\ hand' = hand
      <4>1. row' = row
        <5>1. row' # row => row' = [row EXCEPT ![v].state = "staged", ![v].raw = TRUE]
                            \/ (row' = [row EXCEPT ![v].raw = TRUE] /\ row[v].recovery /\ row[v].state = "indexed")
          BY <2>2 DEF Upload
        <5>2. row' # row => CreateJobs({<<"extract", v>>}) \/ CreateJobs({<<"render_visual", v>>})
          BY <2>2 DEF Upload
        <5>3. ASSUME row' # row PROVE FALSE
          <6>1. ~doc.deleted' /\ doc'.current = v /\ doc'.current = doc.current
                /\ row'[v].state = "indexed"
            BY <2>2, <5>3, <1>0 DEF Upload, Settled, IsCurrent, VInv, VTypeOK
          <6>2. row[v].state = "indexed"
            BY <5>1, <5>3, <6>1 DEF VInv, VTypeOK, RowsOK, RowType
          <6>3. ~doc.deleted
            BY <6>2 DEF MarkInv, Exists
          <6> QED
            BY <1>3, <6>1, <6>2, <6>3 DEF Settled, IsCurrent, Exists
        <5> QED
          BY <5>3
      <4> QED
        BY <2>2, <4>1 DEF Upload
    <3>2. <<e, v>> \in Missing(v)
      BY <3>1 DEF Missing, Unready, Lacks, Settled
    <3> QED
      BY <1>1, <2>2, <3>1, <3>2
  <2> QED
    BY <1>3, <2>1, <2>2, SettledComes
<1>4. CASE Settled(v) /\ ~Lacks(v, Embeds[e])
  BY <1>0, <1>2, <1>4, LackComes
<1>5. CASE Settled(v) /\ Lacks(v, Embeds[e])
  <2>1. CASE ~on
    <3>1. Configure
      BY <2>1 DEF VNext, Api, Worker, Handler, Upload, Delete, Unlink, Backfill, Look, Withhold,
         Claim, Finish, Fail, Boot, Expire, CleanupDies, Crash, Raise, Requeue, Begin,
         RemovePreviews, Parse, ReplaceChunks, ReplaceVisuals, Insert, Update, CommitExtract, Enqueue,
         DropVisual, ForgetBatches, Rendered, LoseBatches, Withdraw, EmbedBatch, RecordBatch, SetReady,
         Drop, Mark
    <3> QED
      BY <3>1 DEF Configure
  <2>2. CASE on /\ backfill
    <3>1. Backfill
      BY <2>2 DEF VNext, Api, Worker, Handler, Upload, Delete, Unlink, Configure, Look, Withhold,
         Claim, Finish, Fail, Boot, Expire, CleanupDies, Crash, Raise, Requeue, Begin,
         RemovePreviews, Parse, ReplaceChunks, ReplaceVisuals, Insert, Update, CommitExtract, Enqueue,
         DropVisual, ForgetBatches, Rendered, LoseBatches, Withdraw, EmbedBatch, RecordBatch, SetReady,
         Drop, Mark
    <3>2. CreateJobs(MissingNow) /\ hand' = hand
      BY <3>1 DEF Backfill
    <3> QED
      BY <1>1, <1>5, <2>2, <3>2, MissingIsAsked
  <2>3. CASE on /\ hand.step = "booting"
    <3>1. Boot
      BY <1>5, <2>3 DEF VNext, Api, Worker, Handler, Upload, Delete, Unlink, Configure, Backfill, Look, Withhold,
         Claim, Finish, Fail, Expire, CleanupDies, Crash, Raise, Requeue, Begin,
         RemovePreviews, Parse, ReplaceChunks, ReplaceVisuals, Insert, Update, CommitExtract, Enqueue,
         DropVisual, ForgetBatches, Rendered, LoseBatches, Withdraw, EmbedBatch, RecordBatch, SetReady,
         Drop, Mark, At, Quick
    <3>2. CreateJobs(MissingNow) /\ hand'.job = Idle.job
      BY <3>1 DEF Boot
    <3> QED
      BY <1>1, <1>5, <2>3, <3>2, MissingIsAsked
  <2>4. CASE on /\ ~backfill /\ hand.step # "booting"
    <3>1. PICK k \in {e, "extract", "render_visual"} : Waiting(<<k, v>>)
      BY <1>0, <1>5, <2>4 DEF LeftInv, Coming
    <3>2. CASE Waiting(<<k, v>>)'
      BY <3>2 DEF Coming
    <3>3. ~(CommitExtract /\ <<k, v>>[1] = "extract" /\ status[<<k, v>>] = "failed")
      <4>1. CommitExtract => Subject = v
        BY DEF CommitExtract, Settled, IsCurrent, VInv, VTypeOK
      <4>2. CommitExtract /\ Subject = v => hand.job = <<"extract", v>> /\ status[hand.job] = "running"
        BY KindOfStep, JobFacts DEF CommitExtract, At, Kind, Subject
      <4> QED
        BY <4>1, <4>2
    <3>4. CASE Handler /\ hand.job = <<k, v>> /\ hand.step # "returned" /\ hand'.step = "returned"
      <4>1. k # e
        BY <3>4, EmbeddingLeavesNothing DEF LeftInv
      <4>2. Kind \in {"extract", "render_visual"} /\ Subject = v
        BY <3>1, <3>4, <4>1 DEF Kind, Subject
      <4>3. hand'.job = hand.job
        BY <1>0, <3>4, HandMoves, JobFacts DEF Claim, Raise, At, HandFits
      <4>4. Enqueue
        <5>1. hand.step \in {"claimed", "raised"} \cup Steps[Kind]
          BY <1>0, <3>4, JobFacts, <3>1 DEF HandFits
        <5> HIDE DEF Kind, Subject
        <5>2. FirstStep # "returned"
          BY <4>2, EmbedFacts DEF FirstStep
        <5>3. ~Begin
          BY <1>0, <3>4, <5>2 DEF Begin, GoTo, HandFits
        <5>4. ~SetReady
          BY <4>2, EmbedFacts DEF SetReady
        <5>5. ~DropVisual
          <6>1. DropVisual => Kind = "render_visual"
            BY <4>2, KindOfStep, <5>1, StepFacts DEF DropVisual, At
          <6> QED
            BY <1>0, <3>4, <6>1 DEF DropVisual, GoTo, HandFits
        <5>6. ~Drop /\ ~Mark
          BY <4>2, KindOfStep, JobFacts DEF Drop, Mark, At, Kind
        <5> QED
          BY <1>0, <3>4, <4>2, <5>3, <5>4, <5>5, <5>6
          DEF Handler, RemovePreviews, Parse, ReplaceChunks, ReplaceVisuals, Insert, Update, CommitExtract,
              ForgetBatches, Rendered, LoseBatches, Withdraw, EmbedBatch, RecordBatch,
              At, GoTo, Proceed, HandFits
      <4>5. CreateJobs(MissingNow)
        BY <1>5, <4>2, <4>4 DEF Enqueue, Settled, IsCurrent
      <4> QED
        BY <1>1, <1>5, <2>4, <4>3, <4>5, MissingIsAsked
    <3> QED
      BY <1>0, <3>1, <3>2, <3>3, <3>4, WaitingStays
  <2> QED
    BY <1>0, <2>1, <2>2, <2>3, <2>4 DEF CountsFit
<1> QED
  BY <1>3, <1>4, <1>5

LEMMA InitLeftInv == VInit => LeftInv
BY JobFacts DEF VInit, LeftInv, LossIsKnown, Settled, IsCurrent, Exists, NoRow, Idle

LEMMA StepLeftInv == VInv /\ MarkInv /\ LeftInv /\ [VNext]_vectorVars => LeftInv'
<1>1. ASSUME VInv, MarkInv, LeftInv, VNext PROVE LeftInv'
  BY <1>1, LeftIsComing, LossStaysKnown DEF LeftInv
<1>2. ASSUME LeftInv, UNCHANGED vectorVars PROVE LeftInv'
  BY <1>2 DEF vectorVars, outside, queueVars, apiVars, LeftInv, LossIsKnown, Settled, IsCurrent, Exists,
     Lacks, Coming, Waiting, Kind, Subject
<1> QED
  BY <1>1, <1>2

\* With nothing going on and no job given up, all that the current version has is embedded
\* while a key and an allowance are set, or its previews wait for the source: whatever takes
\* readiness away from what is there is a handler that ends by queueing what is missing, and a
\* worker that dies in between queues it when it starts again.
THEOREM NothingLeftBehindHolds == VSpec => []NothingLeftBehind
<1>1. VInv /\ LeftInv => NothingLeftBehind
  <2> SUFFICES ASSUME VInv, LeftInv, NEW v \in Versions, Quiet(v), on, ~overlooked,
                      NEW m \in row[v].has, m \notin row[v].ready, ~(m = "visual" /\ row[v].recovery)
               PROVE  FALSE
    BY DEF NothingLeftBehind
  <2>1. row[v].has \subseteq Modalities
    BY DEF VInv, VTypeOK, RowsOK, RowType
  <2>2. PICK e \in DOMAIN Embeds : Embeds[e] = m
    BY <2>1, EmbedFacts DEF Modalities
  <2>3. Settled(v) /\ Lacks(v, Embeds[e]) /\ hand.step # "booting" /\ ~backfill
    BY <2>2 DEF Quiet, Settled, Lacks, Idle
  <2>4. PICK k \in {e, "extract", "render_visual"} : status[<<k, v>>] # "none"
    BY <2>3 DEF LeftInv, Coming, Waiting
  <2>5. <<k, v>> \in Jobs /\ <<k, v>>[2] = v
    BY <2>2, KindsAreJobs, EmbedFacts
  <2> QED
    BY <2>4, <2>5 DEF Quiet
<1> QED
  BY <1>1, InitMarkInv, InitLeftInv, StepMarkInv, StepLeftInv, VectorsInvariant, PTL DEF VSpec

-----------------------------------------------------------------------------
(* What readiness claims                                                   *)

\* What each step writes to the row of one version.
LEMMA RowChanges ==
    ASSUME VInv, VNext, NEW v \in Versions, row'[v] # row[v]
    PROVE  \/ Delete
           \/ Upload(v) /\ row[v].state # "indexed"
                /\ row'[v] = [row[v] EXCEPT !.state = "staged", !.raw = TRUE]
           \/ Upload(v) /\ row[v].state = "indexed" /\ row'[v] = [row[v] EXCEPT !.raw = TRUE]
           \/ Withhold /\ row'[v] = [row[v] EXCEPT !.batches = TextOnly(@), !.ready = Withdrawn(v),
                                                   !.recovery = TRUE]
           \/ Expire /\ \E raw \in BOOLEAN : row'[v] = [row[v] EXCEPT !.raw = raw]
           \/ Expire /\ "visual" \in row[v].has
                /\ \E raw \in BOOLEAN :
                      row'[v] = [row[v] EXCEPT !.raw = raw, !.has = @ \ {"visual"}, !.ready = Withdrawn(v),
                                               !.recovery = TRUE, !.batches = TextOnly(@)]
           \/ CommitExtract /\ Subject = v
                /\ row'[v] = [row[v] EXCEPT !.state = "indexed", !.raw = FALSE, !.ready = {},
                                            !.recovery = FALSE, !.replacing = FALSE]
           \/ CommitExtract /\ Subject # v /\ row[v].state = "staged" /\ row'[v] = NoRow
           \/ /\ Subject = v /\ Exists(v)
              /\ \/ ReplaceChunks /\ row'[v] = [row[v] EXCEPT !.has = {"text"}, !.replacing = TRUE]
                 \/ ReplaceVisuals /\ row'[v] = [row[v] EXCEPT !.has = @ \cup {"visual"}]
                 \/ (ForgetBatches \/ LoseBatches) /\ row'[v] = [row[v] EXCEPT !.batches = TextOnly(@)]
                 \/ Rendered /\ row'[v] = [row[v] EXCEPT !.raw = FALSE, !.ready = Withdrawn(v),
                                                         !.recovery = FALSE]
                 \/ Withdraw /\ row'[v] = [row[v] EXCEPT !.ready = Withdrawn(v), !.recovery = TRUE]
                 \/ RecordBatch /\ row'[v] = [row[v] EXCEPT !.batches = @ \cup {Piece}]
                 \/ SetReady /\ row'[v] = [row[v] EXCEPT !.ready = @ \cup {Modality},
                                                         !.recovery = @ /\ Modality # "visual"]
<1> USE DEF outside, queueVars, apiVars
<1>0. row \in [Versions -> RowType] /\ row[v] \in RowType
  BY DEF VInv, VTypeOK, RowsOK
<1>1. row' # row
  OBVIOUS
<1>2. ASSUME NEW u \in Versions, Upload(u)
      PROVE  /\ u = v
             /\ \/ row[v].state # "indexed" /\ row'[v] = [row[v] EXCEPT !.state = "staged", !.raw = TRUE]
                \/ row[v].state = "indexed" /\ row'[v] = [row[v] EXCEPT !.raw = TRUE]
  <2>1. \/ row[u].state # "indexed" /\ row' = [row EXCEPT ![u].state = "staged", ![u].raw = TRUE]
        \/ row[u].state = "indexed" /\ row' = [row EXCEPT ![u].raw = TRUE]
    BY <1>1, <1>2 DEF Upload
  <2>2. row' = [row EXCEPT ![u] = [row[u] EXCEPT !.state = "staged", !.raw = TRUE]]
        \/ row' = [row EXCEPT ![u] = [row[u] EXCEPT !.raw = TRUE]]
    BY <2>1
  <2>3. u = v
    BY <1>0, <2>2
  <2> QED
    BY <1>0, <2>1, <2>3
<1>3. CASE Withhold
  <2>1. \/ row'[v] = row[v]
        \/ row'[v] = [row[v] EXCEPT !.batches = TextOnly(@), !.ready = Withdrawn(v), !.recovery = TRUE]
    BY <1>0, <1>3 DEF Withhold
  <2> QED
    BY <1>3, <2>1
<1>4. CASE Expire
  <2>1. PICK vs \in SUBSET {w \in Versions : "visual" \in row[w].has}, raws \in SUBSET Versions :
          row' = [w \in Versions |->
                    [row[w] EXCEPT !.raw = IF w \in raws THEN FALSE ELSE @,
                                   !.has = IF w \in vs THEN @ \ {"visual"} ELSE @,
                                   !.ready = IF w \in vs THEN Withdrawn(w) ELSE @,
                                   !.recovery = IF w \in vs THEN TRUE ELSE @,
                                   !.batches = IF w \in vs THEN TextOnly(@) ELSE @]]
    BY <1>4 DEF Expire
  <2>2. row'[v] = [row[v] EXCEPT !.raw = IF v \in raws THEN FALSE ELSE @,
                                 !.has = IF v \in vs THEN @ \ {"visual"} ELSE @,
                                 !.ready = IF v \in vs THEN Withdrawn(v) ELSE @,
                                 !.recovery = IF v \in vs THEN TRUE ELSE @,
                                 !.batches = IF v \in vs THEN TextOnly(@) ELSE @]
    BY <2>1
  <2>3. CASE v \in vs
    <3> DEFINE raw == IF v \in raws THEN FALSE ELSE row[v].raw
    <3>1. raw \in BOOLEAN
      BY <1>0 DEF RowType
    <3>2. row'[v] = [row[v] EXCEPT !.raw = raw, !.has = @ \ {"visual"}, !.ready = Withdrawn(v),
                                               !.recovery = TRUE, !.batches = TextOnly(@)]
      BY <1>0, <2>2, <2>3 DEF RowType
    <3> HIDE DEF raw
    <3> QED
      BY <1>4, <2>3, <3>1, <3>2
  <2>4. CASE v \notin vs
    <3> DEFINE raw == IF v \in raws THEN FALSE ELSE row[v].raw
    <3>1. raw \in BOOLEAN
      BY <1>0 DEF RowType
    <3>2. row'[v] = [row[v] EXCEPT !.raw = raw]
      BY <1>0, <2>2, <2>4 DEF RowType
    <3> HIDE DEF raw
    <3> QED
      BY <1>4, <3>1, <3>2
  <2> QED
    BY <2>3, <2>4
<1>5. CASE CommitExtract
  <2>1. row'[v] = IF v = Subject /\ Exists(v)
                     THEN [row[v] EXCEPT !.state = "indexed", !.raw = FALSE, !.ready = {},
                                         !.recovery = FALSE, !.replacing = FALSE]
                     ELSE IF row[v].state = "staged" THEN NoRow ELSE row[v]
    BY <1>5 DEF CommitExtract
  <2> QED
    BY <1>5, <2>1 DEF Exists
<1>6. CASE Handler /\ ~CommitExtract
  <2>1. Subject = v /\ Exists(v)
    <3>1. row' = row \/ (Exists(Subject) /\ \E new : row' = [row EXCEPT ![Subject] = new])
      BY <1>0, <1>6 DEF Handler, Begin, RemovePreviews, Parse, ReplaceChunks, ReplaceVisuals, Insert,
         Update, Enqueue, DropVisual, ForgetBatches, Rendered, LoseBatches, Withdraw,
         EmbedBatch, RecordBatch, SetReady, Drop, Mark
    <3> QED
      BY <1>0, <1>1, <3>1
  <2>2. ASSUME NEW s, NEW next, NEW new, Update(s, new, next) PROVE row'[v] = new
    BY <1>0, <2>1, <2>2 DEF Update
  <2>3. RecordBatch => row'[v] = [row[v] EXCEPT !.batches = @ \cup {Piece}]
    BY <1>0, <2>1 DEF RecordBatch
  <2>4. /\ ReplaceChunks => row'[v] = [row[v] EXCEPT !.has = {"text"}, !.replacing = TRUE]
        /\ ReplaceVisuals => row'[v] = [row[v] EXCEPT !.has = @ \cup {"visual"}]
    BY <2>1, <2>2 DEF ReplaceChunks, ReplaceVisuals, Insert
  <2>5. ForgetBatches \/ LoseBatches => row'[v] = [row[v] EXCEPT !.batches = TextOnly(@)]
    BY <2>1, <2>2 DEF ForgetBatches, LoseBatches
  <2>6. /\ Rendered => row'[v] = [row[v] EXCEPT !.raw = FALSE, !.ready = Withdrawn(v), !.recovery = FALSE]
        /\ Withdraw => row'[v] = [row[v] EXCEPT !.ready = Withdrawn(v), !.recovery = TRUE]
    BY <2>1, <2>2 DEF Rendered, Withdraw
  <2>7. SetReady => row'[v] = [row[v] EXCEPT !.ready = @ \cup {Modality},
                                             !.recovery = @ /\ Modality # "visual"]
    BY <2>1, <2>2 DEF SetReady
  <2> QED
    BY <1>1, <1>6, <2>1, <2>3, <2>4, <2>5, <2>6, <2>7
    DEF Handler, Begin, RemovePreviews, Parse, Enqueue, DropVisual, EmbedBatch, Drop, Mark
<1> QED
  BY <1>1, <1>2, <1>3, <1>4, <1>5, <1>6
  DEF VNext, Api, Worker, Unlink, Configure, Backfill, Look,
      Claim, Finish, Fail, Boot, CleanupDies, Crash, Raise, Requeue

\* Which handler step brings the hand where it is.
LEMMA HandArrives ==
    ASSUME VInv, VNext, hand' # hand, hand'.step \notin {"idle", "booting", "claimed", "raised"}
    PROVE  /\ hand'.job = hand.job /\ hand.job \in Jobs /\ Handler
           /\ hand'.step = "parse" => Begin
           /\ hand'.step = "filling" => RemovePreviews
           /\ hand'.step = "chunks" => Parse
           /\ hand'.step = "visuals" => ReplaceChunks \/ ForgetBatches
           /\ hand'.step = "commit" => ReplaceVisuals /\ Kind = "extract"
           /\ hand'.step = "rendered" => ReplaceVisuals /\ Kind = "render_visual"
           /\ hand'.step = "enqueue" => CommitExtract \/ Rendered
           /\ hand'.step = "forget" => DropVisual /\ Kind = "render_visual"
           /\ hand'.step = "dropVisual" => Parse \/ Withdraw \/ Begin
           /\ hand'.step = "withdraw" => LoseBatches
           /\ hand'.step = "lost" => Begin
           /\ hand'.step = "record" => EmbedBatch
           /\ hand'.step = "embed" => Begin \/ EmbedBatch \/ RecordBatch
           /\ hand'.step = "returned" => (Kind \in {"extract", "render_visual"} => Enqueue)
<1>0. HandFits
  BY DEF VInv
<1>1. Handler /\ hand'.job = hand.job
  BY HandMoves, JobFacts
<1>2. hand.job \in Jobs
  BY <1>0, <1>1, KindOfStep DEF Handler, Begin, RemovePreviews, Parse, ReplaceChunks, ReplaceVisuals, Insert,
     Update, CommitExtract, Enqueue, DropVisual, ForgetBatches, Rendered, LoseBatches, Withdraw,
     EmbedBatch, RecordBatch, SetReady, Drop, Mark, At
<1>3. CASE Begin
  <2>1. hand'.step = FirstStep
    BY <1>0, <1>3 DEF Begin, GoTo, HandFits
  <2>2. Kind \in {"extract", "render_visual", "embed_text", "embed_visual", "mark_historical",
                  "delete_vectors", "delete_version_vectors"}
    BY <1>2, JobFacts DEF Kind
  <2> HIDE DEF Kind, Subject
  <2>3. /\ FirstStep \in {"parse", "raised", "returned", "lost", "embed", "mark", "drop", "dropVisual"}
        /\ Kind \in {"extract", "render_visual"} => FirstStep # "returned"
    BY <2>2, EmbedFacts DEF FirstStep
  <2> QED
    BY <1>1, <1>2, <1>3, <2>1, <2>3
<1>4. CASE RemovePreviews
  BY <1>0, <1>1, <1>2, <1>4 DEF RemovePreviews, GoTo, HandFits
<1>5. CASE Parse
  BY <1>0, <1>1, <1>2, <1>5 DEF Parse, GoTo, HandFits
<1>6. CASE ReplaceChunks
  BY <1>0, <1>1, <1>2, <1>6 DEF ReplaceChunks, Insert, Update, GoTo, HandFits
<1>7. CASE ReplaceVisuals
  <2>1. Kind \in {"extract", "render_visual"}
    BY <1>7, KindOfStep DEF ReplaceVisuals, Insert, Update, At
  <2> QED
    BY <1>0, <1>1, <1>2, <1>7, <2>1 DEF ReplaceVisuals, Insert, Update, GoTo, HandFits
<1>8. CASE CommitExtract
  BY <1>0, <1>1, <1>2, <1>8 DEF CommitExtract, GoTo, HandFits
<1>9. CASE Enqueue
  BY <1>0, <1>1, <1>2, <1>9 DEF Enqueue, GoTo, HandFits
<1>10. CASE DropVisual
  <2>1. Kind \in {"render_visual", "embed_visual", "delete_version_vectors"}
    BY <1>10, KindOfStep DEF DropVisual, At
  <2> QED
    BY <1>0, <1>1, <1>2, <1>10, <2>1 DEF DropVisual, GoTo, HandFits
<1>11. CASE ForgetBatches
  BY <1>0, <1>1, <1>2, <1>11 DEF ForgetBatches, Update, GoTo, HandFits
<1>12. CASE Rendered
  BY <1>0, <1>1, <1>2, <1>12 DEF Rendered, Update, GoTo, HandFits
<1>13. CASE LoseBatches
  BY <1>0, <1>1, <1>2, <1>13 DEF LoseBatches, Update, GoTo, HandFits
<1>14. CASE Withdraw
  BY <1>0, <1>1, <1>2, <1>14 DEF Withdraw, Update, GoTo, HandFits
<1>15. CASE EmbedBatch
  BY <1>0, <1>1, <1>2, <1>15 DEF EmbedBatch, GoTo, Proceed, HandFits
<1>16. CASE RecordBatch
  BY <1>0, <1>1, <1>2, <1>16 DEF RecordBatch, GoTo, Proceed, HandFits
<1>17. CASE SetReady
  BY <1>0, <1>1, <1>2, <1>17, EmbedFacts DEF SetReady, Update, GoTo, HandFits
<1>18. CASE Drop
  <2>1. Kind = "delete_vectors"
    BY <1>18, KindOfStep, JobFacts DEF Drop, At, Kind
  <2> QED
    BY <1>0, <1>1, <1>2, <1>18, <2>1 DEF Drop, Proceed, HandFits
<1>19. CASE Mark
  <2>1. Kind = "mark_historical"
    BY <1>19, KindOfStep DEF Mark, At
  <2> QED
    BY <1>0, <1>1, <1>2, <1>19, <2>1 DEF Mark, Proceed, HandFits
<1> QED
  BY <1>1, <1>3, <1>4, <1>5, <1>6, <1>7, <1>8, <1>9, <1>10, <1>11, <1>12, <1>13, <1>14, <1>15, <1>16,
     <1>17, <1>18, <1>19 DEF Handler

\* Where a job comes from, for those that the invariant below speaks of.
LEMMA JobComes ==
    ASSUME VInv, VNext, NEW j \in Jobs, status[j] = "none", status'[j] # "none"
    PROVE  /\ j[1] = "extract" => Upload(j[2]) /\ row[j[2]].state # "indexed"
           /\ j[1] = "render_visual" => Upload(j[2]) /\ row[j[2]].state = "indexed" /\ row[j[2]].recovery
           /\ j[1] = "delete_version_vectors" =>
                \/ Withhold
                \/ Expire /\ row'[j[2]].ready = Withdrawn(j[2])
                          /\ row'[j[2]].batches = TextOnly(row[j[2]].batches)
           /\ j = DeleteVectors => Delete
           /\ status'[j] = "queued"
<1> USE DEF outside, queueVars, apiVars
<1>0. QueueOK /\ HandFits /\ row \in [Versions -> RowType]
  BY DEF VInv, VTypeOK, RowsOK
<1>1. ASSUME NEW asked, CreateJobs(asked) PROVE j \in asked /\ status'[j] = "queued"
  BY <1>1 DEF CreateJobs
<1>2. ASSUME NEW v \in Versions, NEW k \in Missing(v) PROVE k[1] \in {"embed_text", "embed_visual"}
  BY EmbedFacts DEF Missing
<1>3. ASSUME NEW k \in MissingNow PROVE k[1] \in {"embed_text", "embed_visual"}
  BY <1>2 DEF MissingNow
<1>4. ASSUME NEW v \in Versions, Upload(v)
      PROVE  \/ j = <<"extract", v>> /\ row[v].state # "indexed" /\ status'[j] = "queued"
             \/ j = <<"render_visual", v>> /\ row[v].state = "indexed" /\ row[v].recovery
                  /\ status'[j] = "queued"
             \/ j[1] \in {"embed_text", "embed_visual", "mark_historical"} /\ status'[j] = "queued"
  <2>1. CASE row[v].state # "indexed" /\ CreateJobs({<<"extract", v>>})
    BY <1>1, <2>1
  <2>2. CASE row[v].state = "indexed" /\ row[v].recovery /\ CreateJobs({<<"render_visual", v>>})
    BY <1>1, <2>2
  <2>3. CASE CreateJobs({<<"mark_historical", v>>} \cup Missing(v))
    BY <1>1, <1>2, <2>3
  <2> QED
    BY <1>4, <2>1, <2>2, <2>3 DEF Upload
<1>5. CASE \E v \in Versions : Upload(v)
  BY <1>4, <1>5, JobFacts
<1>6. CASE Delete
  BY <1>1, <1>6 DEF Delete, DeleteVectors
<1>7. CASE Backfill \/ Boot \/ Enqueue
  <2>1. j[1] \in {"embed_text", "embed_visual"} /\ status'[j] = "queued"
    BY <1>1, <1>3, <1>7 DEF Backfill, Boot, Enqueue
  <2> QED
    BY <2>1, JobFacts
<1>8. CASE Withhold
  <2>1. j[1] = "delete_version_vectors" /\ status'[j] = "queued"
    BY <1>1, <1>8 DEF Withhold
  <2> QED
    BY <1>8, <2>1, JobFacts
<1>9. CASE Expire
  <2>1. PICK vs \in SUBSET {w \in Versions : "visual" \in row[w].has}, raws \in SUBSET Versions :
          /\ row' = [w \in Versions |->
                    [row[w] EXCEPT !.raw = IF w \in raws THEN FALSE ELSE @,
                                   !.has = IF w \in vs THEN @ \ {"visual"} ELSE @,
                                   !.ready = IF w \in vs THEN Withdrawn(w) ELSE @,
                                   !.recovery = IF w \in vs THEN TRUE ELSE @,
                                   !.batches = IF w \in vs THEN TextOnly(@) ELSE @]]
          /\ CreateJobs({"delete_version_vectors"} \X vs)
    BY <1>9 DEF Expire
  <2>2. j \in {"delete_version_vectors"} \X vs /\ status'[j] = "queued"
    BY <1>1, <2>1
  <2>3. j[1] = "delete_version_vectors" /\ j[2] \in vs /\ j[2] \in Versions
    BY <2>2
  <2>4. row'[j[2]].ready = Withdrawn(j[2]) /\ row'[j[2]].batches = TextOnly(row[j[2]].batches)
    <3> DEFINE v == j[2]
    <3>1. v \in Versions /\ v \in vs /\ row[v] \in RowType
      BY <1>0, <2>3
    <3> HIDE DEF v
    <3>2. row'[v] = [row[v] EXCEPT !.raw = IF v \in raws THEN FALSE ELSE @,
                                   !.has = IF v \in vs THEN @ \ {"visual"} ELSE @,
                                   !.ready = IF v \in vs THEN Withdrawn(v) ELSE @,
                                   !.recovery = IF v \in vs THEN TRUE ELSE @,
                                   !.batches = IF v \in vs THEN TextOnly(@) ELSE @]
      BY <2>1, <3>1
    <3>3. row'[v].ready = Withdrawn(v) /\ row'[v].batches = TextOnly(row[v].batches)
      BY <3>1, <3>2 DEF RowType
    <3> QED
      BY <3>3 DEF v
  <2> QED
    BY <1>9, <2>2, <2>3, <2>4, JobFacts
<1>10. CASE CommitExtract
  <2> DEFINE failed == {<<"extract", u>> : u \in {w \in Versions : status[<<"extract", w>>] = "failed"}}
             mark == <<"mark_historical", Subject>>
  <2>1. status' = [k \in Jobs |-> IF k \in failed THEN "none"
                                  ELSE IF k = mark /\ status[k] \in {"none", "failed"}
                                  THEN "queued" ELSE status[k]]
    BY <1>10 DEF CommitExtract
  <2> HIDE DEF failed
  <2>2. j[1] = "mark_historical" /\ status'[j] = "queued"
    BY <1>0, <2>1
  <2> QED
    BY <2>2, JobFacts
<1>11. ~Claim
  <2>1. Claim => \E k \in Jobs : status[k] = "queued" /\ status' = [status EXCEPT ![k] = "running"]
    BY DEF Claim, Claimable
  <2> QED
    BY <1>0, <2>1 DEF QueueOK
<1>12. ~Finish
  BY <1>0 DEF Finish, QueueOK
<1>13. ~Fail
  <2>1. Fail => hand.job \in Jobs /\ status[hand.job] = "running"
    BY KindOfStep DEF Fail, At
  <2>2. Fail => \E s : status' = [status EXCEPT ![hand.job] = s]
    BY DEF Fail
  <2> QED
    BY <1>0, <2>1, <2>2 DEF QueueOK
<1>14. ASSUME NEW k \in Jobs PROVE ~Requeue(k)
  <2>1. Requeue(k) => status[k] # "none" /\ status' = [status EXCEPT ![k] = "queued"]
    BY DEF Requeue
  <2> QED
    BY <1>0, <2>1 DEF QueueOK
<1> QED
  BY <1>5, <1>6, <1>7, <1>8, <1>9, <1>10, <1>11, <1>12, <1>13, <1>14
  DEF VNext, Api, Worker, Handler, Unlink, Configure, Look, CleanupDies, Crash, Raise, Begin,
      RemovePreviews, Parse, ReplaceChunks, ReplaceVisuals, Insert, Update,
      DropVisual, ForgetBatches, Rendered, LoseBatches, Withdraw, EmbedBatch, RecordBatch, SetReady,
      Drop, Mark

\* The fields of a version's row, as long as the document is not deleted.
LEMMA FieldChanges ==
    ASSUME VInv, VNext, ~Delete, NEW v \in Versions
    PROVE  /\ \/ row'[v].state = row[v].state
              \/ Upload(v) /\ row[v].state # "indexed" /\ row'[v].state = "staged"
              \/ CommitExtract /\ Subject = v /\ row'[v].state = "indexed"
              \/ CommitExtract /\ Subject # v /\ row[v].state = "staged" /\ row'[v] = NoRow
           /\ \/ row'[v].has = row[v].has
              \/ CommitExtract /\ Subject # v /\ row'[v] = NoRow
              \/ Expire /\ row'[v].has = row[v].has \ {"visual"}
              \/ Subject = v /\ ReplaceChunks /\ Exists(v) /\ row'[v].has = {"text"}
              \/ Subject = v /\ ReplaceVisuals /\ Exists(v) /\ row'[v].has = row[v].has \cup {"visual"}
           /\ row'[v].recovery => \/ row[v].recovery \/ Withhold
                                  \/ Expire /\ "visual" \in row[v].has /\ "visual" \notin row'[v].has
                                  \/ Subject = v /\ Withdraw
           /\ Subject = v /\ (Rendered \/ CommitExtract) => ~row'[v].recovery
           /\ \/ row'[v].ready \subseteq row[v].ready
              \/ Subject = v /\ SetReady /\ row'[v].ready = row[v].ready \cup {Modality}
           /\ \/ row'[v].batches \subseteq row[v].batches
              \/ Subject = v /\ RecordBatch /\ row'[v].batches = row[v].batches \cup {Piece}
           /\ Subject = v /\ (Rendered \/ Withdraw) => "visual" \notin row'[v].ready
           /\ Subject = v /\ (ForgetBatches \/ LoseBatches) => \A p \in row'[v].batches : p[1] # "visual"
<1> USE DEF outside, queueVars, apiVars
<1>0. row[v] \in RowType /\ (row[v].state = "absent" => row[v] = NoRow) /\ row \in [Versions -> RowType]
  BY DEF VInv, VTypeOK, RowsOK
<1>1. /\ NoRow.state = "absent" /\ NoRow.has = {} /\ NoRow.ready = {} /\ NoRow.recovery = FALSE
      /\ NoRow.batches = {}
  BY DEF NoRow
<1>2. Withdrawn(v) = row[v].ready \ {"visual"} /\ TextOnly(row[v].batches) \subseteq row[v].batches
      /\ \A p \in TextOnly(row[v].batches) : p[1] # "visual"
  BY DEF Withdrawn, TextOnly
<1>3. ASSUME Subject = v, ~Exists(v), Rendered \/ Withdraw \/ ForgetBatches \/ LoseBatches \/ CommitExtract
      PROVE  row'[v] = NoRow
  <2>1. row[v] = NoRow
    BY <1>0, <1>3 DEF Exists
  <2>2. CASE CommitExtract
    BY <2>1, <1>1, <1>3, <2>2 DEF CommitExtract
  <2>3. CASE Rendered \/ Withdraw \/ ForgetBatches \/ LoseBatches
    BY <2>1, <1>3, <2>3 DEF Rendered, Withdraw, ForgetBatches, LoseBatches, Update
  <2> QED
    BY <1>3, <2>2, <2>3
<1>4. ASSUME Subject = v, Exists(v)
      PROVE  /\ Rendered => row'[v] = [row[v] EXCEPT !.raw = FALSE, !.ready = Withdrawn(v), !.recovery = FALSE]
             /\ Withdraw => row'[v] = [row[v] EXCEPT !.ready = Withdrawn(v), !.recovery = TRUE]
             /\ ForgetBatches \/ LoseBatches => row'[v] = [row[v] EXCEPT !.batches = TextOnly(@)]
             /\ CommitExtract => row'[v] = [row[v] EXCEPT !.state = "indexed", !.raw = FALSE, !.ready = {},
                                            !.recovery = FALSE, !.replacing = FALSE]
  BY <1>0, <1>4 DEF Rendered, Withdraw, ForgetBatches, LoseBatches, CommitExtract, Update
<1>5. /\ Subject = v /\ (Rendered \/ CommitExtract) => ~row'[v].recovery
      /\ Subject = v /\ (Rendered \/ Withdraw) => "visual" \notin row'[v].ready
      /\ Subject = v /\ (ForgetBatches \/ LoseBatches) => \A p \in row'[v].batches : p[1] # "visual"
  <2>1. CASE Exists(v)
    <3>1. Subject = v /\ Rendered => ~row'[v].recovery /\ row'[v].ready = Withdrawn(v)
      BY <1>0, <1>4, <2>1 DEF RowType
    <3>2. Subject = v /\ Withdraw => row'[v].ready = Withdrawn(v)
      BY <1>0, <1>4, <2>1 DEF RowType
    <3>3. Subject = v /\ CommitExtract => ~row'[v].recovery
      BY <1>0, <1>4, <2>1 DEF RowType
    <3>4. Subject = v /\ (ForgetBatches \/ LoseBatches) => row'[v].batches = TextOnly(row[v].batches)
      BY <1>0, <1>4, <2>1 DEF RowType
    <3> QED
      BY <1>2, <3>1, <3>2, <3>3, <3>4
  <2>2. CASE ~Exists(v)
    BY <1>1, <1>3, <2>2
  <2> QED
    BY <2>1, <2>2
<1>6. CASE row'[v] = row[v]
  BY <1>5, <1>6
<1>7. CASE row'[v] # row[v]
  <2> DEFINE State == \/ row'[v].state = row[v].state
                      \/ Upload(v) /\ row[v].state # "indexed" /\ row'[v].state = "staged"
                      \/ CommitExtract /\ Subject = v /\ row'[v].state = "indexed"
                      \/ CommitExtract /\ Subject # v /\ row[v].state = "staged" /\ row'[v] = NoRow
             Has == \/ row'[v].has = row[v].has
                    \/ CommitExtract /\ Subject # v /\ row'[v] = NoRow
                    \/ Expire /\ row'[v].has = row[v].has \ {"visual"}
                    \/ Subject = v /\ ReplaceChunks /\ Exists(v) /\ row'[v].has = {"text"}
                    \/ Subject = v /\ ReplaceVisuals /\ Exists(v) /\ row'[v].has = row[v].has \cup {"visual"}
             Recovery == row'[v].recovery => \/ row[v].recovery \/ Withhold
                                             \/ Expire /\ "visual" \in row[v].has /\ "visual" \notin row'[v].has
                                             \/ Subject = v /\ Withdraw
             Ready == \/ row'[v].ready \subseteq row[v].ready
                      \/ Subject = v /\ SetReady /\ row'[v].ready = row[v].ready \cup {Modality}
             Recorded == \/ row'[v].batches \subseteq row[v].batches
                         \/ Subject = v /\ RecordBatch /\ row'[v].batches = row[v].batches \cup {Piece}
             Fields == State /\ Has /\ Recovery /\ Ready /\ Recorded
  <2>1. ASSUME Upload(v), \/ row[v].state # "indexed" /\ row'[v] = [row[v] EXCEPT !.state = "staged", !.raw = TRUE]
                          \/ row'[v] = [row[v] EXCEPT !.raw = TRUE]
        PROVE  Fields
    BY <1>0, <2>1 DEF RowType
  <2>2. ASSUME Withhold, row'[v] = [row[v] EXCEPT !.batches = TextOnly(@), !.ready = Withdrawn(v), !.recovery = TRUE]
        PROVE  Fields
    BY <1>0, <1>2, <2>2 DEF RowType
  <2>3. ASSUME Expire, NEW raw \in BOOLEAN,
               \/ row'[v] = [row[v] EXCEPT !.raw = raw]
               \/ /\ "visual" \in row[v].has
                  /\ row'[v] = [row[v] EXCEPT !.raw = raw, !.has = @ \ {"visual"}, !.ready = Withdrawn(v),
                                              !.recovery = TRUE, !.batches = TextOnly(@)]
        PROVE  Fields
    <3>1. CASE row'[v] = [row[v] EXCEPT !.raw = raw]
      BY <1>0, <2>3, <3>1 DEF RowType
    <3>2. CASE /\ "visual" \in row[v].has
               /\ row'[v] = [row[v] EXCEPT !.raw = raw, !.has = @ \ {"visual"}, !.ready = Withdrawn(v),
                                           !.recovery = TRUE, !.batches = TextOnly(@)]
      <4>1. /\ row'[v].state = row[v].state /\ row'[v].has = row[v].has \ {"visual"}
            /\ row'[v].ready = Withdrawn(v) /\ row'[v].batches = TextOnly(row[v].batches)
        BY <1>0, <3>2 DEF RowType
      <4> QED
        BY <1>2, <2>3, <3>2, <4>1
    <3> QED
      BY <2>3, <3>1, <3>2
  <2>4. ASSUME CommitExtract, Subject = v,
               row'[v] = [row[v] EXCEPT !.state = "indexed", !.raw = FALSE, !.ready = {},
                                            !.recovery = FALSE, !.replacing = FALSE]
        PROVE  Fields
    BY <1>0, <2>4 DEF RowType
  <2>5. ASSUME CommitExtract, Subject # v, row[v].state = "staged", row'[v] = NoRow
        PROVE  Fields
    BY <1>1, <2>5
  <2>6. ASSUME Subject = v, Exists(v),
              \/ ReplaceChunks /\ row'[v] = [row[v] EXCEPT !.has = {"text"}, !.replacing = TRUE]
              \/ ReplaceVisuals /\ row'[v] = [row[v] EXCEPT !.has = @ \cup {"visual"}]
        PROVE  Fields
    BY <1>0, <2>6 DEF RowType
  <2>7. ASSUME Subject = v, Exists(v), (ForgetBatches \/ LoseBatches) /\ row'[v] = [row[v] EXCEPT !.batches = TextOnly(@)]
        PROVE  Fields
    BY <1>0, <1>2, <2>7 DEF RowType
  <2>8. ASSUME Subject = v, Exists(v),
              \/ row'[v] = [row[v] EXCEPT !.raw = FALSE, !.ready = Withdrawn(v), !.recovery = FALSE]
              \/ Withdraw /\ row'[v] = [row[v] EXCEPT !.ready = Withdrawn(v), !.recovery = TRUE]
        PROVE  Fields
    <3>1. /\ row'[v].state = row[v].state /\ row'[v].has = row[v].has
          /\ row'[v].ready = Withdrawn(v) /\ row'[v].batches = row[v].batches
          /\ row'[v].recovery => Withdraw
      BY <1>0, <2>8 DEF RowType
    <3> QED
      BY <1>2, <2>8, <3>1
  <2>9. ASSUME Subject = v, Exists(v), RecordBatch, row'[v] = [row[v] EXCEPT !.batches = @ \cup {Piece}]
        PROVE  Fields
    BY <1>0, <2>9 DEF RowType
  <2>10. ASSUME Subject = v, Exists(v), SetReady, row'[v] = [row[v] EXCEPT !.ready = @ \cup {Modality},
                                                         !.recovery = @ /\ Modality # "visual"]
        PROVE  Fields
    BY <1>0, <2>10 DEF RowType
  <2> HIDE DEF State, Has, Recovery, Ready, Recorded, Fields
  <2>11. Fields
    BY <1>7, <2>1, <2>2, <2>3, <2>4, <2>5, <2>6, <2>7, <2>8, <2>9, <2>10, RowChanges, ZenonT(120)
  <2> QED
    BY <1>5, <2>11 DEF Fields, State, Has, Recovery, Ready, Recorded
<1> QED
  BY <1>6, <1>7

DropOf(v) == <<"delete_version_vectors", v>>
RenderOf(v) == <<"render_visual", v>>
ExtractOf(v) == <<"extract", v>>
Runs(j, steps) == hand.job = j /\ hand.step \in steps

\* What has not happened yet: no deletion; then no failure, or nothing that deletes the
\* vectors of a version.
Undeleted == count["delete"] = 0
Untroubled == Undeleted /\ count["trouble"] = 0
Unexpired == Undeleted /\ count["expire"] + count["look"] = 0

UndeletedFit ==
    /\ unlinking = {} /\ status[DeleteVectors] = "none"
    /\ \A v \in Versions : status[RenderOf(v)] # "none" => row[v].state = "indexed"

UnexpiredFit == missed = None /\ \A v \in Versions : status[DropOf(v)] = "none"

NoBatches(v) == \A p \in row[v].batches : p[1] # "visual"
NoVisual(v) == NoBatches(v) /\ "visual" \notin row[v].ready

\* Nothing fails: a version is extracted once, while it has nothing.
ExtractedOnce(v) ==
    /\ row[v].state = "indexed" =>
          status[ExtractOf(v)] = "none" \/ Runs(ExtractOf(v), {"enqueue", "returned"})
    /\ row[v].state # "indexed" =>
          ~row[v].recovery /\ (row[v].has = {} \/ Runs(ExtractOf(v), {"visuals", "commit"}))

\* Nothing fails: previews have their files, and nobody is asked to render them again.
PreviewsThere(v) ==
    "visual" \in row[v].has =>
        /\ v \in files
        /\ row[v].recovery => Runs(RenderOf(v), {"rendered"})
        /\ status[RenderOf(v)] # "none" => Runs(RenderOf(v), {"rendered", "enqueue", "returned"})

\* Nothing fails: after an expiry the vectors go before anything else happens.
DropComesFirst(v) ==
    status[DropOf(v)] # "none" =>
        /\ NoVisual(v)
        /\ hand.step = "idle" \/ Kind = "delete_version_vectors"
        /\ status[DropOf(v)] = "queued" \/ Runs(DropOf(v), {"claimed", "dropVisual", "returned"})

FilesInHand ==
    /\ hand.step \in {"chunks", "visuals", "forget"} => Subject \in files
    /\ hand.step = "dropVisual" /\ Kind = "render_visual" => Subject \in files
    /\ Kind = "embed_visual" => hand.step \notin {"lost", "withdraw", "dropVisual"}

UntroubledFit ==
    /\ missed = None /\ FilesInHand
    /\ \A v \in Versions : ExtractedOnce(v) /\ PreviewsThere(v) /\ DropComesFirst(v)

\* What v has recorded or is ready in, in this modality, is in Qdrant.
Kept(v, m) ==
    \A p \in Pieces : p[1] = m /\ (p \in row[v].batches \/ m \in row[v].ready) => Point(v, p) \in points

Unrendered(v) == status[RenderOf(v)] = "none" \/ Runs(RenderOf(v), {"enqueue", "returned"})

\* How far an embedding handler has come.
EmbeddedSoFar ==
    Embedding /\ (Kind = "embed_visual" => Unrendered(Subject)) =>
        /\ \A n \in 1..hand.at : Point(Subject, <<Modality, n>>) \in points
        /\ hand.step = "record" => Point(Subject, Piece) \in points

VisualKept(v) ==
    /\ Unrendered(v) => Kept(v, "visual")
    /\ Runs(RenderOf(v), {"visuals", "rendered"}) => NoBatches(v)
    /\ Runs(<<"embed_visual", v>>, {"withdraw", "dropVisual"}) => NoBatches(v)
    /\ Runs(<<"embed_visual", v>>, {"dropVisual"}) => NoVisual(v)

ReadyInv ==
    /\ Undeleted => UndeletedFit
    /\ Unexpired => UnexpiredFit
    /\ Untroubled => UntroubledFit
    /\ Untroubled \/ Unexpired =>
          EmbeddedSoFar /\ \A v \in Versions : Kept(v, "text") /\ VisualKept(v)

LEMMA JobNames ==
    \A v \in Versions : /\ DropOf(v) \in Jobs /\ RenderOf(v) \in Jobs /\ ExtractOf(v) \in Jobs
                        /\ <<"embed_text", v>> \in Jobs /\ <<"embed_visual", v>> \in Jobs
                        /\ DropOf(v)[1] = "delete_version_vectors" /\ DropOf(v)[2] = v
                        /\ RenderOf(v)[1] = "render_visual" /\ RenderOf(v)[2] = v
                        /\ ExtractOf(v)[1] = "extract" /\ ExtractOf(v)[2] = v
BY DEF Jobs, Priority, DropOf, RenderOf, ExtractOf

\* JobComes for the jobs of one version.
LEMMA NamedJobsCome ==
    ASSUME VInv, VNext, NEW v \in Versions
    PROVE  /\ status[ExtractOf(v)] = "none" /\ status'[ExtractOf(v)] # "none" =>
                Upload(v) /\ row[v].state # "indexed"
           /\ status[RenderOf(v)] = "none" /\ status'[RenderOf(v)] # "none" =>
                Upload(v) /\ row[v].state = "indexed" /\ row[v].recovery
           /\ status[DropOf(v)] = "none" /\ status'[DropOf(v)] # "none" =>
                /\ status'[DropOf(v)] = "queued"
                /\ \/ Withhold
                   \/ Expire /\ row'[v].ready = Withdrawn(v) /\ row'[v].batches = TextOnly(row[v].batches)
<1>1. ASSUME NEW j \in Jobs, j[2] = v, status[j] = "none", status'[j] # "none"
      PROVE  /\ j[1] = "extract" => Upload(v) /\ row[v].state # "indexed"
             /\ j[1] = "render_visual" => Upload(v) /\ row[v].state = "indexed" /\ row[v].recovery
             /\ j[1] = "delete_version_vectors" =>
                  \/ Withhold
                  \/ Expire /\ row'[v].ready = Withdrawn(v) /\ row'[v].batches = TextOnly(row[v].batches)
             /\ status'[j] = "queued"
  BY <1>1, JobComes
<1> QED
  BY <1>1, JobNames

\* What has happened stays.
LEMMA RegimesShrink ==
    ASSUME VInv, VNext
    PROVE  /\ Undeleted' => Undeleted /\ ~Delete
           /\ Untroubled' => Untroubled /\ ~Crash /\ ~Raise /\ ~CleanupDies
           /\ Unexpired' => Unexpired /\ ~Expire /\ ~Look
<1> USE DEF outside, queueVars, apiVars
<1>0. /\ count \in [Events \cup {"upload"} -> Nat]
      /\ {"delete", "expire", "configure", "look", "trouble", "upload"} = Events \cup {"upload"}
  BY DEF VInv, CountsFit, Events
<1>1. count' = count \/ \E e \in Events \cup {"upload"} : Counted(e)
  BY <1>0 DEF VNext, Api, Worker, Handler, Upload, Delete, Unlink, Configure, Backfill, Look, Withhold,
     Claim, Finish, Fail, Boot, Expire, CleanupDies, Crash, Raise, Requeue, Begin, Happens,
     RemovePreviews, Parse, ReplaceChunks, ReplaceVisuals, Insert, Update, CommitExtract, Enqueue,
     DropVisual, ForgetBatches, Rendered, LoseBatches, Withdraw, EmbedBatch, RecordBatch, SetReady,
     Drop, Mark
<1>2. ASSUME NEW e \in Events \cup {"upload"}, Counted(e)
      PROVE  /\ count'[e] = count[e] + 1
             /\ \A f \in Events \cup {"upload"} : f # e => count'[f] = count[f]
  BY <1>0, <1>2 DEF Counted
<1>3. \A f \in Events \cup {"upload"} : count'[f] \in Nat /\ count[f] \in Nat /\ count[f] <= count'[f]
  <2>1. CASE count' = count
    BY <1>0, <2>1
  <2>2. ASSUME NEW e \in Events \cup {"upload"}, Counted(e), NEW f \in Events \cup {"upload"}
        PROVE  count'[f] \in Nat /\ count[f] \in Nat /\ count[f] <= count'[f]
    <3>1. count[e] \in Nat /\ count[f] \in Nat
      BY <1>0
    <3> QED
      BY <1>2, <2>2, <3>1
  <2> QED
    BY <1>1, <2>1, <2>2
<1>4. /\ Delete => count'["delete"] = count["delete"] + 1
      /\ Crash \/ Raise \/ CleanupDies => count'["trouble"] = count["trouble"] + 1
      /\ Expire => count'["expire"] = count["expire"] + 1
      /\ Look => count'["look"] = count["look"] + 1
  <2>1. \A e \in Events : Happens(e) => count'[e] = count[e] + 1
    BY <1>0 DEF Happens, Counted
  <2> QED
    BY <1>0, <2>1 DEF Delete, Crash, Raise, CleanupDies, Expire, Look, Events
<1>5. /\ count["delete"] \in Nat /\ count'["delete"] \in Nat /\ count["delete"] <= count'["delete"]
      /\ count["trouble"] \in Nat /\ count'["trouble"] \in Nat /\ count["trouble"] <= count'["trouble"]
      /\ count["expire"] \in Nat /\ count'["expire"] \in Nat /\ count["expire"] <= count'["expire"]
      /\ count["look"] \in Nat /\ count'["look"] \in Nat /\ count["look"] <= count'["look"]
  BY <1>0, <1>3
<1> QED
  BY <1>4, <1>5 DEF Undeleted, Untroubled, Unexpired

LEMMA UndeletedStaysFit ==
    ASSUME VInv, VNext, UndeletedFit, ~Delete
    PROVE  UndeletedFit'
<1> USE DEF outside, queueVars, apiVars
<1>1. unlinking' = {}
  BY DEF UndeletedFit, VNext, Api, Worker, Handler, Upload, Unlink, Configure, Backfill, Look, Withhold,
     Claim, Finish, Fail, Boot, Expire, CleanupDies, Crash, Raise, Requeue, Begin,
     RemovePreviews, Parse, ReplaceChunks, ReplaceVisuals, Insert, Update, CommitExtract, Enqueue,
     DropVisual, ForgetBatches, Rendered, LoseBatches, Withdraw, EmbedBatch, RecordBatch, SetReady,
     Drop, Mark
<1>2. status'[DeleteVectors] = "none"
  BY JobComes, JobFacts DEF UndeletedFit
<1>3. ASSUME NEW v \in Versions, status'[RenderOf(v)] # "none"
      PROVE  row'[v].state = "indexed"
  <2>1. row[v].state = "indexed"
    BY <1>3, NamedJobsCome DEF UndeletedFit
  <2> QED
    BY <2>1, FieldChanges
<1>4. DeleteVectors' = DeleteVectors /\ \A v : RenderOf(v)' = RenderOf(v)
  BY DEF RenderOf, DeleteVectors
<1> QED
  BY <1>1, <1>2, <1>3 DEF UndeletedFit, RenderOf, DeleteVectors

LEMMA UnexpiredStaysFit ==
    ASSUME VInv, VNext, UnexpiredFit, ~Expire, ~Look
    PROVE  UnexpiredFit'
<1> USE DEF outside, queueVars, apiVars
<1>1. missed' = None
  BY DEF UnexpiredFit, VNext, Api, Worker, Handler, Upload, Delete, Unlink, Configure, Backfill, Withhold,
     Claim, Finish, Fail, Boot, CleanupDies, Crash, Raise, Requeue, Begin,
     RemovePreviews, Parse, ReplaceChunks, ReplaceVisuals, Insert, Update, CommitExtract, Enqueue,
     DropVisual, ForgetBatches, Rendered, LoseBatches, Withdraw, EmbedBatch, RecordBatch, SetReady,
     Drop, Mark
<1>2. ~Withhold
  BY DEF UnexpiredFit, Withhold
<1>3. ASSUME NEW v \in Versions PROVE status'[DropOf(v)] = "none"
  BY <1>2, NamedJobsCome DEF UnexpiredFit
<1> QED
  BY <1>1, <1>3 DEF UnexpiredFit, DropOf

\* As long as the worker lives and nothing is thrown at it, a handler goes on by its own steps.
LEMMA HandWorks ==
    ASSUME VInv, VNext, ~Crash, ~Raise, hand.step \notin {"idle", "booting"}
    PROVE  \/ hand' = hand
           \/ Handler /\ hand'.job = hand.job /\ hand.step \notin {"returned", "raised"}
           \/ Finish /\ hand.step = "returned"
           \/ Fail /\ hand.step = "raised"
<1>1. Handler => hand.step \notin {"returned", "raised"}
  BY EmbedFacts DEF Handler, Begin, RemovePreviews, Parse, ReplaceChunks, ReplaceVisuals, Insert, Update,
     CommitExtract, Enqueue, DropVisual, ForgetBatches, Rendered, LoseBatches, Withdraw, EmbedBatch,
     RecordBatch, SetReady, Drop, Mark, At
<1>2. Handler => hand'.job = hand.job
  <2>1. Handler => (\E s : GoTo(s)) \/ (\E s, n : Proceed(n, s))
    BY DEF Handler, Begin, RemovePreviews, Parse, ReplaceChunks, ReplaceVisuals, Insert, Update,
       CommitExtract, Enqueue, DropVisual, ForgetBatches, Rendered, LoseBatches, Withdraw, EmbedBatch,
       RecordBatch, SetReady, Drop, Mark
  <2> QED
    BY <2>1 DEF GoTo, Proceed, HandFits, VInv
<1> QED
  BY <1>1, <1>2 DEF VNext, Api, Worker, Upload, Delete, Unlink, Configure, Backfill, Look, Withhold,
     Claim, Finish, Fail, Boot, Expire, CleanupDies, Requeue, At

\* Without failures, a version is extracted while it has nothing, and then no more.
LEMMA ExtractionStaysOnce ==
    ASSUME VInv, VNext, UndeletedFit, UntroubledFit, ~Delete, ~Crash, ~Raise, NEW v \in Versions
    PROVE  ExtractedOnce(v)'
<1>0. /\ ExtractedOnce(v) /\ FilesInHand /\ HandFits /\ ExtractOf(v) \in Jobs /\ ~Withhold
      /\ ExtractOf(v) = <<"extract", v>> /\ ExtractOf(v)' = ExtractOf(v)
      /\ row[v].state = "absent" => row[v].has = {}
  <2>1. ExtractedOnce(v) /\ FilesInHand /\ ~Withhold
    BY DEF UntroubledFit, Withhold
  <2>2. HandFits /\ ExtractOf(v) \in Jobs /\ ExtractOf(v) = <<"extract", v>> /\ ExtractOf(v)' = ExtractOf(v)
    BY JobNames DEF VInv, ExtractOf
  <2>3. row[v].state = "absent" => row[v].has = {}
    BY DEF VInv, VTypeOK, RowsOK, NoRow
  <2> QED
    BY <2>1, <2>2, <2>3
<1>1. ASSUME Subject = v, Kind = "extract", hand.job \in Jobs PROVE hand.job = ExtractOf(v)
  BY <1>0, <1>1, JobFacts DEF Kind, Subject
<1>2. ASSUME row'[v].state = "indexed"
      PROVE  status'[ExtractOf(v)] = "none" \/ Runs(ExtractOf(v), {"enqueue", "returned"})'
  <2>1. CASE CommitExtract /\ Subject = v
    <3>1. hand.job = ExtractOf(v)
      BY <1>1, <2>1, KindOfStep DEF CommitExtract, At
    <3>2. hand'.job = hand.job /\ hand'.step = "enqueue"
      BY <1>0, <2>1 DEF CommitExtract, GoTo, HandFits
    <3> QED
      BY <1>0, <3>1, <3>2 DEF Runs
  <2>2. CASE ~(CommitExtract /\ Subject = v)
    <3>1. row[v].state = "indexed"
      BY <1>2, <2>2, FieldChanges DEF NoRow
    <3>2. CASE status[ExtractOf(v)] = "none"
      BY <3>1, <3>2, NamedJobsCome
    <3>3. CASE Runs(ExtractOf(v), {"enqueue", "returned"})
      <4>1. CASE hand' = hand
        BY <1>0, <3>3, <4>1 DEF Runs
      <4>2. CASE Handler /\ hand'.job = hand.job /\ hand.step \notin {"returned", "raised"}
        <5>1. Enqueue
          BY <3>3, <4>2, EmbedFacts DEF Runs, Handler, Begin, RemovePreviews, Parse, ReplaceChunks, ReplaceVisuals,
             Insert, Update, CommitExtract, DropVisual, ForgetBatches, Rendered, LoseBatches, Withdraw,
             EmbedBatch, RecordBatch, SetReady, Drop, Mark, At
        <5>2. hand'.step = "returned"
          BY <1>0, <5>1 DEF Enqueue, GoTo, HandFits
        <5> QED
          BY <1>0, <3>3, <4>2, <5>2 DEF Runs
      <4>3. CASE Finish
        BY <1>0, <3>3, <4>3 DEF Runs, Finish, VInv, VTypeOK, QueueOK
      <4> QED
        BY <3>3, <4>1, <4>2, <4>3, HandWorks DEF Runs
    <3> QED
      BY <1>0, <3>1, <3>2, <3>3 DEF ExtractedOnce
  <2> QED
    BY <2>1, <2>2
<1>3. ASSUME row'[v].state # "indexed"
      PROVE  ~row'[v].recovery /\ (row'[v].has = {} \/ Runs(ExtractOf(v), {"visuals", "commit"})')
  <2>1. row[v].state # "indexed" /\ ~row[v].recovery
        /\ (row[v].has = {} \/ Runs(ExtractOf(v), {"visuals", "commit"}))
    BY <1>0, <1>3, FieldChanges DEF ExtractedOnce
  <2>2. Expire => row[v].has = {}
    BY <2>1 DEF Expire, At, Runs
  <2>3. ~row'[v].recovery
    <3>1. ~(Subject = v /\ Withdraw)
      BY <1>0, KindOfStep DEF Withdraw, Update, At, FilesInHand
    <3> QED
      BY <1>0, <2>1, <2>2, <3>1, FieldChanges
  <2>4. CASE row'[v].has = row[v].has
    <3>1. CASE row[v].has = {}
      BY <2>3, <2>4, <3>1
    <3>2. CASE row[v].has # {}
      <4>1. Runs(ExtractOf(v), {"visuals", "commit"}) /\ Exists(v) /\ Kind = "extract" /\ Subject = v
        BY <1>0, <2>1, <3>2 DEF Exists, Runs, Kind, Subject
      <4>2. CASE hand' = hand
        BY <1>0, <2>3, <4>1, <4>2 DEF Runs
      <4>3. CASE Handler /\ hand'.job = hand.job
        <5>1. ReplaceVisuals \/ CommitExtract
          BY <4>1, <4>3, EmbedFacts DEF Runs, Handler, Begin, RemovePreviews, Parse, ReplaceChunks,
             Insert, Update, Enqueue, DropVisual, ForgetBatches, Rendered, LoseBatches, Withdraw,
             EmbedBatch, RecordBatch, SetReady, Drop, Mark, At
        <5>2. ~CommitExtract
          <6>1. CommitExtract => row'[v] = [row[v] EXCEPT !.state = "indexed", !.raw = FALSE, !.ready = {},
                                                          !.recovery = FALSE, !.replacing = FALSE]
            BY <4>1 DEF CommitExtract
          <6>2. row[v] \in RowType
            BY DEF VInv, VTypeOK, RowsOK
          <6> QED
            BY <1>3, <6>1, <6>2 DEF RowType
        <5>3. hand'.step = "commit"
          BY <1>0, <4>1, <5>1, <5>2 DEF ReplaceVisuals, Insert, Update, GoTo, HandFits
        <5> QED
          BY <1>0, <2>3, <4>1, <4>3, <5>3 DEF Runs
      <4> QED
        BY <4>1, <4>2, <4>3, HandWorks DEF Runs
    <3> QED
      BY <3>1, <3>2
  <2>5. CASE Subject = v /\ Exists(v) /\ (ReplaceChunks \/ ReplaceVisuals)
    <3>1. hand.job \in Jobs /\ Kind \in {"extract", "render_visual"} /\ status[hand.job] = "running"
          /\ hand'.job = hand.job
      BY <1>0, <2>5, KindOfStep DEF ReplaceChunks, ReplaceVisuals, Insert, Update, At, GoTo, HandFits
    <3>2. Kind # "render_visual"
      <4>1. Kind = "render_visual" => hand.job = RenderOf(v)
        BY <2>5, <3>1, JobFacts DEF Kind, Subject, RenderOf
      <4> QED
        BY <2>1, <3>1, <4>1 DEF UndeletedFit
    <3>3. hand.job = ExtractOf(v)
      BY <1>1, <2>5, <3>1, <3>2
    <3>4. hand'.step \in {"visuals", "commit"}
      BY <1>0, <2>5, <3>1, <3>2 DEF ReplaceChunks, ReplaceVisuals, Insert, Update, GoTo, HandFits
    <3> QED
      BY <1>0, <2>3, <3>1, <3>3, <3>4 DEF Runs
  <2>6. CASE row'[v] = NoRow
    BY <2>3, <2>6 DEF NoRow
  <2>7. CASE Expire /\ row'[v].has = row[v].has \ {"visual"}
    BY <2>2, <2>3, <2>7
  <2> QED
    BY <2>4, <2>5, <2>6, <2>7, FieldChanges
<1> QED
  BY <1>2, <1>3 DEF ExtractedOnce

LEMMA ActsAt ==
    /\ Begin => hand.step = "claimed"
    /\ RemovePreviews => hand.step = "parse"
    /\ Parse => hand.step = "filling"
    /\ ReplaceChunks => hand.step = "chunks"
    /\ ReplaceVisuals => hand.step = "visuals"
    /\ CommitExtract => hand.step = "commit"
    /\ Enqueue => hand.step = "enqueue"
    /\ DropVisual => hand.step = "dropVisual"
    /\ ForgetBatches => hand.step = "forget"
    /\ Rendered => hand.step = "rendered"
    /\ LoseBatches => hand.step = "lost"
    /\ Withdraw => hand.step = "withdraw"
    /\ EmbedBatch => hand.step = "embed"
    /\ RecordBatch => hand.step = "record"
    /\ SetReady => hand.step = "embed"
    /\ Drop => hand.step = "drop"
    /\ Mark => hand.step = "mark"
BY DEF Begin, RemovePreviews, Parse, ReplaceChunks, ReplaceVisuals, Insert, Update, CommitExtract, Enqueue,
   DropVisual, ForgetBatches, Rendered, LoseBatches, Withdraw, EmbedBatch, RecordBatch, SetReady, Drop, Mark, At

LEMMA HandlerActs ==
    Handler <=> \/ Begin \/ RemovePreviews \/ Parse \/ ReplaceChunks \/ ReplaceVisuals \/ CommitExtract
                \/ Enqueue \/ DropVisual \/ ForgetBatches \/ Rendered \/ LoseBatches \/ Withdraw
                \/ EmbedBatch \/ RecordBatch \/ SetReady \/ Drop \/ Mark
BY DEF Handler

\* Vectors go by a deletion alone.
LEMMA PointsStay ==
    ASSUME VInv, VNext, ~Drop
    PROVE  points \subseteq points' \/ (DropVisual /\ points' = points \ Visual(Subject, points)
                                                   /\ row' = row)
<1> USE DEF outside, queueVars, apiVars
<1>1. points \subseteq points' \/ DropVisual
  BY DEF VNext, Api, Worker, Handler, Upload, Delete, Unlink, Configure, Backfill, Look, Withhold,
     Claim, Finish, Fail, Boot, Expire, CleanupDies, Crash, Raise, Requeue, Begin,
     RemovePreviews, Parse, ReplaceChunks, ReplaceVisuals, Insert, Update, CommitExtract, Enqueue,
     ForgetBatches, Rendered, LoseBatches, Withdraw, EmbedBatch, RecordBatch, SetReady, Mark
<1> QED
  BY <1>1 DEF DropVisual

\* Preview files go by an expiry, with the rows, or to be rendered again.
LEMMA FilesStay ==
    ASSUME VInv, VNext, ~CleanupDies, unlinking = {}, NEW v \in Versions, v \in files
    PROVE  \/ v \in files'
           \/ Expire /\ "visual" \notin row'[v].has
           \/ RemovePreviews /\ Subject = v
<1> USE DEF outside, queueVars, apiVars
<1>1. CASE Expire
  <2>1. PICK vs \in SUBSET {w \in Versions : "visual" \in row[w].has}, raws \in SUBSET Versions :
          /\ row' = [w \in Versions |->
                    [row[w] EXCEPT !.raw = IF w \in raws THEN FALSE ELSE @,
                                   !.has = IF w \in vs THEN @ \ {"visual"} ELSE @,
                                   !.ready = IF w \in vs THEN Withdrawn(w) ELSE @,
                                   !.recovery = IF w \in vs THEN TRUE ELSE @,
                                   !.batches = IF w \in vs THEN TextOnly(@) ELSE @]]
          /\ files' = files \ vs
    BY <1>1 DEF Expire
  <2>2. row'[v] = [row[v] EXCEPT !.raw = IF v \in raws THEN FALSE ELSE @,
                                 !.has = IF v \in vs THEN @ \ {"visual"} ELSE @,
                                 !.ready = IF v \in vs THEN Withdrawn(v) ELSE @,
                                 !.recovery = IF v \in vs THEN TRUE ELSE @,
                                 !.batches = IF v \in vs THEN TextOnly(@) ELSE @]
    BY <2>1
  <2>3. row[v] \in RowType
    BY DEF VInv, VTypeOK, RowsOK
  <2>4. row'[v].has = IF v \in vs THEN row[v].has \ {"visual"} ELSE row[v].has
    BY <2>2, <2>3 DEF RowType
  <2>5. v \in vs \/ v \in files'
    BY <2>1
  <2> QED
    BY <1>1, <2>4, <2>5
<1>2. CASE ~Expire
  BY <1>2 DEF VNext, Api, Worker, Handler, Upload, Delete, Unlink, Configure, Backfill, Look, Withhold,
     Claim, Finish, Fail, Boot, Crash, Raise, Requeue, Begin,
     RemovePreviews, Parse, ReplaceChunks, ReplaceVisuals, Insert, Update, CommitExtract, Enqueue,
     DropVisual, ForgetBatches, Rendered, LoseBatches, Withdraw, EmbedBatch, RecordBatch, SetReady,
     Drop, Mark
<1> QED
  BY <1>1, <1>2

\* A job stays queued until the worker claims it.
LEMMA QueuedStays ==
    ASSUME VInv, VNext, NEW j \in Jobs, status[j] = "queued"
    PROVE  status'[j] = "queued" \/ (Claim /\ hand'.job = j /\ hand'.step = "claimed")
<1> USE DEF outside, queueVars, apiVars
<1>0. QueueOK /\ HandFits
  BY DEF VInv, VTypeOK
<1>1. (\E asked : CreateJobs(asked)) => status'[j] = "queued"
  BY <1>0 DEF CreateJobs
<1>2. Claim => status'[j] = "queued" \/ (hand'.job = j /\ hand'.step = "claimed")
  <2>1. Claim => \E k \in Jobs : /\ status' = [status EXCEPT ![k] = "running"]
                                 /\ hand' = [job |-> k, step |-> "claimed", at |-> 0]
    BY DEF Claim, Claimable
  <2> QED
    BY <1>0, <2>1 DEF QueueOK
<1>3. Finish \/ Fail => status'[j] = "queued"
  <2>0. Finish \/ Fail => hand.step \in {"returned", "raised"}
    BY DEF Finish, Fail, At
  <2>1. Finish \/ Fail => hand.job \in Jobs /\ status[hand.job] = "running"
    BY <2>0, KindOfStep
  <2>2. Finish \/ Fail => \E s : status' = [status EXCEPT ![hand.job] = s]
    BY DEF Finish, Fail
  <2> QED
    BY <1>0, <2>1, <2>2 DEF QueueOK
<1>4. ASSUME NEW k \in Jobs PROVE Requeue(k) => status'[j] = "queued"
  <2>1. Requeue(k) => status' = [status EXCEPT ![k] = "queued"]
    BY DEF Requeue
  <2> QED
    BY <1>0, <2>1 DEF QueueOK
<1>5. CommitExtract => status'[j] = "queued"
  <2> DEFINE failed == {<<"extract", u>> : u \in {w \in Versions : status[<<"extract", w>>] = "failed"}}
             mark == <<"mark_historical", Subject>>
  <2>1. ASSUME NEW k \in failed PROVE status[k] = "failed"
    OBVIOUS
  <2>2. CommitExtract => status' = [k \in Jobs |-> IF k \in failed THEN "none"
                                  ELSE IF k = mark /\ status[k] \in {"none", "failed"}
                                  THEN "queued" ELSE status[k]]
    BY DEF CommitExtract
  <2> HIDE DEF failed, mark
  <2> QED
    BY <1>0, <2>1, <2>2
<1> QED
  BY <1>1, <1>2, <1>3, <1>4, <1>5
  DEF VNext, Api, Worker, Handler, Upload, Delete, Unlink, Configure, Backfill, Look, Withhold,
      Boot, Expire, CleanupDies, Crash, Raise, Begin,
      RemovePreviews, Parse, ReplaceChunks, ReplaceVisuals, Insert, Update, Enqueue,
      DropVisual, ForgetBatches, Rendered, LoseBatches, Withdraw, EmbedBatch, RecordBatch, SetReady,
      Drop, Mark

\* A named run of a job goes on at the same step, or by the action that is at that step.
LEMMA RunGoesOn ==
    ASSUME VInv, VNext, NEW j \in Jobs, hand'.job = j,
           hand'.step \notin {"idle", "booting", "claimed", "raised"}
    PROVE  hand' = hand \/ (Handler /\ hand.job = j)
BY HandArrives

\* Without failures, the vectors of previews that expired go before anything else happens.
LEMMA DropStaysFirst ==
    ASSUME VInv, VNext, UndeletedFit, UntroubledFit, ~Delete, ~Crash, ~Raise, ~CleanupDies,
           NEW v \in Versions
    PROVE  DropComesFirst(v)'
<1>1. /\ DropOf(v) \in Jobs /\ DropOf(v)[1] = "delete_version_vectors" /\ DropOf(v)[2] = v
      /\ DropOf(v)' = DropOf(v) /\ DropComesFirst(v) /\ ~Withhold
  BY JobNames DEF DropOf, UntroubledFit, Withhold
<1>2. QueueOK /\ HandFits /\ row[v] \in RowType
  BY DEF VInv, VTypeOK, RowsOK
<1>3. SUFFICES ASSUME status'[DropOf(v)] # "none"
               PROVE  /\ NoVisual(v)'
                      /\ hand'.step = "idle" \/ Kind' = "delete_version_vectors"
                      /\ status'[DropOf(v)] = "queued"
                           \/ Runs(DropOf(v), {"claimed", "dropVisual", "returned"})'
  BY <1>1 DEF DropComesFirst
<1>4. CASE status[DropOf(v)] = "none"
  <2>1. status'[DropOf(v)] = "queued" /\ Expire /\ row'[v].ready = Withdrawn(v)
        /\ row'[v].batches = TextOnly(row[v].batches)
    BY <1>1, <1>3, <1>4, NamedJobsCome
  <2>2. NoVisual(v)'
    BY <2>1 DEF NoVisual, NoBatches, Withdrawn, TextOnly
  <2>3. hand'.step = "idle"
    BY <2>1 DEF Expire, At
  <2> QED
    BY <2>1, <2>2, <2>3
<1>5. CASE status[DropOf(v)] # "none"
  <2>1. /\ NoVisual(v)
        /\ hand.step = "idle" \/ Kind = "delete_version_vectors"
        /\ status[DropOf(v)] = "queued" \/ Runs(DropOf(v), {"claimed", "dropVisual", "returned"})
    BY <1>1, <1>5 DEF DropComesFirst
  <2>2. hand.step # "idle" => hand.job \in Jobs /\ hand.step \in {"claimed", "dropVisual", "returned", "raised"}
    <3>1. hand.step # "idle" => hand.step # "booting"
      BY <1>2, <2>1 DEF HandFits, Kind, Idle
    <3> QED
      BY <1>2, <2>1, <3>1, StepFacts, KindOfStep DEF HandFits
  <2>3. ~SetReady /\ ~RecordBatch
    BY <2>2, ActsAt
  <2>4. NoVisual(v)'
    BY <2>1, <2>3, FieldChanges DEF NoVisual, NoBatches
  <2>5. CASE hand.step = "idle"
    <3>1. status[DropOf(v)] = "queued"
      BY <2>1, <2>5 DEF Runs
    <3>2. CASE hand' = hand
      <4>1. ~Claim
        BY <2>5, <3>2 DEF Claim
      <4> QED
        BY <1>1, <2>4, <2>5, <3>1, <3>2, <4>1, QueuedStays
    <3>3. CASE hand' # hand
      <4>1. Claim
        <5>1. ~Handler
          BY <2>5, ActsAt, HandlerActs
        <5>2. ~Finish /\ ~Fail /\ ~Boot
          BY <2>5 DEF Finish, Fail, Boot, At
        <5> QED
          BY <3>3, <5>1, <5>2 DEF VNext, Api, Worker, Upload, Unlink, Configure, Backfill, Look, Withhold,
             Expire, Requeue
      <4>2. PICK j \in Claimable :
              /\ \A k \in Claimable : Priority[j[1]] <= Priority[k[1]]
              /\ status' = [status EXCEPT ![j] = "running"]
              /\ hand' = [job |-> j, step |-> "claimed", at |-> 0]
        BY <4>1 DEF Claim
      <4>3. j \in Jobs /\ j # DeleteVectors /\ status[j] = "queued" /\ DropOf(v) \in Claimable
        BY <1>1, <3>1 DEF Claimable, UndeletedFit
      <4>4. j[1] \in DOMAIN Priority /\ Priority[j[1]] <= 20
        BY <1>1, <4>2, <4>3, JobFacts DEF Priority
      <4>5. j[1] = "delete_version_vectors"
        BY <4>3, <4>4, JobFacts DEF Priority
      <4>6. Kind' = "delete_version_vectors"
        BY <4>2, <4>5 DEF Kind
      <4>7. status'[DropOf(v)] = "queued" \/ Runs(DropOf(v), {"claimed", "dropVisual", "returned"})'
        BY <1>1, <3>1, QueuedStays DEF Runs
      <4> QED
        BY <2>4, <4>6, <4>7
    <3> QED
      BY <3>2, <3>3
  <2>6. CASE hand.step # "idle"
    <3>1. Kind = "delete_version_vectors" /\ hand.job \in Jobs
      BY <2>1, <2>2, <2>6
    <3>2. ~Claim
      BY <2>6 DEF Claim, At
    <3>3. CASE hand' = hand
      <4>1. hand.job = DropOf(v) \/ status'[DropOf(v)] = "queued"
        BY <1>1, <2>1, <3>2, QueuedStays DEF Runs
      <4>2. ~(hand.job = DropOf(v) /\ ~Runs(DropOf(v), {"claimed", "dropVisual", "returned"}))
        BY <1>2, <2>1, <3>1 DEF HandFits
      <4>3. status'[DropOf(v)] = "queued" \/ Runs(DropOf(v), {"claimed", "dropVisual", "returned"})'
        BY <1>1, <3>3, <4>1, <4>2 DEF Runs
      <4> QED
        BY <2>4, <3>1, <3>3, <4>3 DEF Kind
    <3>4. CASE Handler /\ hand'.job = hand.job /\ hand.step \notin {"returned", "raised"}
      <4>1. Begin \/ DropVisual
        BY <2>2, <2>6, <3>4, ActsAt, HandlerActs
      <4>2. hand'.step \in {"dropVisual", "returned"}
        BY <1>2, <3>1, <4>1 DEF Begin, DropVisual, GoTo, FirstStep, HandFits, Embeds
      <4>3. status' = status
        BY <4>1 DEF Begin, DropVisual, queueVars
      <4>4. status'[DropOf(v)] = "queued" \/ Runs(DropOf(v), {"claimed", "dropVisual", "returned"})'
        BY <1>1, <2>1, <3>4, <4>2, <4>3 DEF Runs
      <4> QED
        BY <2>4, <3>1, <3>4, <4>4 DEF Kind
    <3>5. CASE Finish \/ Fail
      <4>1. hand'.step = "idle"
        BY <3>5 DEF Finish, Fail, Idle
      <4>2. status[DropOf(v)] = "queued"
        <5>1. CASE Finish /\ hand.job = DropOf(v)
          BY <1>1, <1>2, <1>3, <5>1 DEF Finish, QueueOK
        <5>2. CASE Fail /\ hand.job = DropOf(v)
          BY <1>2, <2>1, <5>2 DEF Fail, At, Runs, HandFits
        <5> QED
          BY <2>1, <3>5, <5>1, <5>2 DEF Runs
      <4>3. status'[DropOf(v)] = "queued"
        BY <1>1, <3>2, <4>2, QueuedStays
      <4> QED
        BY <2>4, <4>1, <4>3
    <3> QED
      BY <2>2, <2>6, <3>3, <3>4, <3>5, HandWorks
  <2> QED
    BY <2>5, <2>6
<1> QED
  BY <1>4, <1>5

\* Without failures, whoever works on previews has their files.
LEMMA FilesStayInHand ==
    ASSUME VInv, VNext, UndeletedFit, UntroubledFit, ~Delete, ~Crash, ~Raise, ~CleanupDies
    PROVE  FilesInHand'
<1>0. HandFits /\ FilesInHand /\ unlinking = {}
  BY DEF VInv, UntroubledFit, UndeletedFit
<1>1. CASE hand' = hand
  <2>1. hand.step \in {"chunks", "visuals", "forget", "dropVisual"} =>
           ~Expire /\ ~RemovePreviews /\ (Subject \in Versions \/ hand.step = "dropVisual")
    BY ActsAt, KindOfStep DEF Expire, At
  <2>2. Subject \in Versions /\ hand.step \in {"chunks", "visuals", "forget", "dropVisual"} /\ Subject \in files
           => Subject \in files'
    BY <1>0, <2>1, FilesStay
  <2>3. files \subseteq Versions
    BY DEF VInv, VTypeOK, StoresOK
  <2>4. Subject' = Subject /\ Kind' = Kind
    BY <1>1 DEF Subject, Kind
  <2> QED
    BY <1>0, <1>1, <2>2, <2>3, <2>4 DEF FilesInHand
<1>2. CASE hand' # hand /\ hand'.step \notin {"idle", "booting", "claimed", "raised"}
  <2>0. Subject' = Subject /\ Kind' = Kind /\ hand.job \in Jobs /\ Handler
    BY <1>2, HandArrives DEF Subject, Kind
  <2>1. hand'.step \in {"chunks", "visuals", "forget"} => Subject \in files'
    <3>1. hand'.step = "chunks" => Subject \in files'
      BY <1>2, HandArrives DEF Parse
    <3>2. hand'.step = "visuals" => Subject \in files'
      <4>1. ReplaceChunks \/ ForgetBatches => files' = files /\ Subject \in files
        BY <1>0, ActsAt DEF ReplaceChunks, ForgetBatches, Insert, Update, outside, FilesInHand
      <4> QED
        BY <1>2, <4>1, HandArrives
    <3>3. hand'.step = "forget" => Subject \in files'
      <4>1. DropVisual /\ Kind = "render_visual" => files' = files /\ Subject \in files
        BY <1>0, ActsAt DEF DropVisual, FilesInHand
      <4> QED
        BY <1>2, <4>1, HandArrives
    <3> QED
      BY <3>1, <3>2, <3>3
  <2>2. Begin => ~(Kind = "render_visual" /\ hand'.step = "dropVisual")
                 /\ ~(Kind = "embed_visual" /\ hand'.step \in {"lost", "withdraw", "dropVisual"})
    <3>1. Begin => hand'.step = FirstStep
      BY <1>0 DEF Begin, GoTo, HandFits
    <3>2. Kind = "render_visual" => FirstStep # "dropVisual"
      BY EmbedFacts DEF FirstStep
    <3>3. ASSUME Kind = "embed_visual" PROVE FirstStep \notin {"lost", "withdraw", "dropVisual"}
      <4>1. Modality = "visual" /\ Kind \in DOMAIN Embeds
        BY <3>3, EmbedFacts DEF Modality
      <4>2. Subject \in Versions
        BY <2>0, <3>3, JobFacts DEF Kind, Subject
      <4>3. "visual" \in row[Subject].has => Subject \in files
        BY <4>2 DEF UntroubledFit, PreviewsThere
      <4> HIDE DEF Kind, Subject, Modality
      <4>4. FirstStep = IF ~IsCurrent(Subject) \/ Modality \notin row[Subject].has THEN "returned"
                        ELSE IF Modality = "visual" /\ Subject \notin files THEN "lost" ELSE "embed"
        BY <3>3, <4>1 DEF FirstStep
      <4> QED
        BY <4>1, <4>3, <4>4
    <3> QED
      BY <3>1, <3>2, <3>3
  <2>3. hand'.step = "dropVisual" /\ Kind = "render_visual" => Subject \in files'
    <3>1. Parse => Subject \in files'
      BY DEF Parse
    <3>2. Withdraw => Kind = "embed_visual"
      BY ActsAt, KindOfStep
    <3> QED
      BY <1>2, <2>2, <3>1, <3>2, HandArrives
  <2>4. Kind = "embed_visual" => hand'.step \notin {"lost", "withdraw", "dropVisual"}
    <3>1. Kind = "embed_visual" => ~Parse /\ ~Withdraw /\ ~LoseBatches
      BY <1>0, ActsAt, KindOfStep DEF FilesInHand
    <3> QED
      BY <1>2, <2>2, <3>1, HandArrives
  <2> QED
    BY <2>0, <2>1, <2>3, <2>4 DEF FilesInHand
<1> QED
  BY <1>1, <1>2 DEF FilesInHand

\* Without failures, previews keep their files, and wait for no rendering but their own.
LEMMA PreviewsStayThere ==
    ASSUME VInv, VNext, UndeletedFit, UntroubledFit, ~Delete, ~Crash, ~Raise, ~CleanupDies,
           NEW v \in Versions
    PROVE  PreviewsThere(v)'
<1>1. /\ RenderOf(v) \in Jobs /\ RenderOf(v)[1] = "render_visual" /\ RenderOf(v)[2] = v
      /\ RenderOf(v)' = RenderOf(v) /\ ExtractOf(v) \in Jobs
  BY JobNames DEF RenderOf, ExtractOf
<1>2. PreviewsThere(v) /\ ExtractedOnce(v) /\ FilesInHand /\ unlinking = {} /\ ~Withhold
      /\ (status[RenderOf(v)] # "none" => row[v].state = "indexed")
  BY DEF UntroubledFit, UndeletedFit, Withhold
<1>3. HandFits /\ files \subseteq Versions
  BY DEF VInv, VTypeOK, StoresOK
<1>4. SUFFICES ASSUME "visual" \in row'[v].has
               PROVE  /\ v \in files'
                      /\ row'[v].recovery => Runs(RenderOf(v), {"rendered"})'
                      /\ status'[RenderOf(v)] # "none" => Runs(RenderOf(v), {"rendered", "enqueue", "returned"})'
  BY <1>1 DEF PreviewsThere
\* The job of a handler that works on v.
<1>5. ASSUME Subject = v, hand.step \notin {"idle", "booting"}
      PROVE  /\ Kind = "extract" => hand.job = ExtractOf(v) /\ status[ExtractOf(v)] = "running"
             /\ Kind = "render_visual" => hand.job = RenderOf(v) /\ status[RenderOf(v)] = "running"
  <2>1. hand.job \in Jobs /\ status[hand.job] = "running"
    BY <1>5, KindOfStep
  <2> QED
    BY <1>5, <2>1, JobFacts DEF Kind, Subject, ExtractOf, RenderOf
<1>6. CASE "visual" \in row[v].has
  <2>1. v \in files /\ (row[v].recovery => Runs(RenderOf(v), {"rendered"}))
        /\ (status[RenderOf(v)] # "none" => Runs(RenderOf(v), {"rendered", "enqueue", "returned"}))
    BY <1>2, <1>6 DEF PreviewsThere
  <2>2. v \in files'
    <3>1. ~(RemovePreviews /\ Subject = v)
      <4>1. RemovePreviews => hand.step = "parse" /\ Kind \in {"extract", "render_visual"}
        BY ActsAt, KindOfStep
      <4> QED
        BY <1>2, <1>5, <1>6, <2>1, <4>1 DEF ExtractedOnce, Runs
    <3> QED
      BY <1>2, <1>4, <2>1, <3>1, FilesStay
  <2>3. row'[v].recovery => Runs(RenderOf(v), {"rendered"})'
    <3>1. ~(Subject = v /\ Withdraw)
      BY <1>2, ActsAt, KindOfStep DEF FilesInHand
    <3>2. row'[v].recovery => row[v].recovery
      BY <1>2, <1>4, <3>1, FieldChanges
    <3>3. ASSUME Runs(RenderOf(v), {"rendered"}), hand' # hand
          PROVE  ~row'[v].recovery
      <4>1. Handler
        BY <3>3, HandWorks DEF Runs
      <4>2. Rendered
        BY <3>3, <4>1, ActsAt, HandlerActs DEF Runs
      <4>3. Subject = v
        BY <1>1, <3>3 DEF Runs, Subject
      <4> QED
        BY <4>2, <4>3, FieldChanges
    <3> QED
      BY <1>1, <2>1, <3>2, <3>3 DEF Runs
  <2>4. status'[RenderOf(v)] # "none" => Runs(RenderOf(v), {"rendered", "enqueue", "returned"})'
    <3>1. ASSUME status[RenderOf(v)] = "none", status'[RenderOf(v)] # "none" PROVE FALSE
      <4>1. row[v].recovery
        BY <3>1, NamedJobsCome
      <4>2. hand.job = RenderOf(v) /\ hand.step = "rendered"
        BY <2>1, <4>1 DEF Runs
      <4> QED
        BY <3>1, <4>2, KindOfStep
    <3>2. ASSUME Runs(RenderOf(v), {"rendered", "enqueue", "returned"}), hand' # hand,
                 status'[RenderOf(v)] # "none"
          PROVE  Runs(RenderOf(v), {"rendered", "enqueue", "returned"})'
      <4>1. CASE Handler /\ hand'.job = hand.job /\ hand.step \notin {"returned", "raised"}
        <5>1. Rendered \/ Enqueue
          BY <3>2, <4>1, ActsAt, HandlerActs DEF Runs
        <5>2. hand'.step \in {"enqueue", "returned"}
          BY <1>3, <5>1 DEF Rendered, Update, Enqueue, GoTo, HandFits
        <5> QED
          BY <1>1, <3>2, <4>1, <5>2 DEF Runs
      <4>2. CASE Finish
        BY <1>1, <3>2, <4>2 DEF Runs, Finish, VInv, VTypeOK, QueueOK
      <4> QED
        BY <3>2, <4>1, <4>2, HandWorks DEF Runs
    <3> QED
      BY <1>1, <2>1, <3>1, <3>2 DEF Runs
  <2> QED
    BY <2>2, <2>3, <2>4
<1>7. CASE "visual" \notin row[v].has
  <2>1. Subject = v /\ ReplaceVisuals /\ Exists(v)
    BY <1>4, <1>7, FieldChanges DEF NoRow
  <2>2. hand.step = "visuals" /\ Kind \in {"extract", "render_visual"}
    BY <2>1, ActsAt, KindOfStep
  <2>3. v \in files'
    BY <1>2, <2>1, <2>2 DEF FilesInHand, ReplaceVisuals, Insert, Update, outside
  <2>4. status' = status
    BY <2>1 DEF ReplaceVisuals, Insert, Update, queueVars
  <2>5. CASE Kind = "extract"
    <3>1. row[v].state # "indexed" /\ ~row[v].recovery
      BY <1>2, <1>5, <2>1, <2>2, <2>5 DEF ExtractedOnce, Runs
    <3>2. ~row'[v].recovery
      <4>1. ~Expire /\ ~Withdraw
        BY <2>2, ActsAt DEF Expire, At
      <4> QED
        BY <1>2, <3>1, <4>1, FieldChanges
    <3> QED
      BY <1>2, <2>3, <2>4, <3>1, <3>2
  <2>6. CASE Kind = "render_visual"
    <3>1. hand'.step = "rendered" /\ hand'.job = hand.job
      BY <1>3, <2>1, <2>6 DEF ReplaceVisuals, Insert, Update, GoTo, HandFits
    <3> QED
      BY <1>1, <1>5, <2>1, <2>2, <2>3, <2>6, <3>1 DEF Runs
  <2> QED
    BY <2>2, <2>5, <2>6
<1> QED
  BY <1>6, <1>7

\* Without failures, the invariant of the failure-free run holds on.
LEMMA UntroubledStaysFit ==
    ASSUME VInv, VNext, UndeletedFit, UntroubledFit, ~Delete, ~Crash, ~Raise, ~CleanupDies
    PROVE  UntroubledFit'
<1>1. ~Look
  BY DEF Look, UntroubledFit, PreviewsThere
<1>2. missed' = None
  BY <1>1 DEF UntroubledFit, VNext, Api, Worker, Handler, Upload, Delete, Unlink, Configure, Backfill, Withhold,
     Claim, Finish, Fail, Boot, Expire, CleanupDies, Crash, Raise, Requeue, Begin, apiVars,
     RemovePreviews, Parse, ReplaceChunks, ReplaceVisuals, Insert, Update, CommitExtract, Enqueue,
     DropVisual, ForgetBatches, Rendered, LoseBatches, Withdraw, EmbedBatch, RecordBatch, SetReady,
     Drop, Mark
<1>3. ASSUME NEW v \in Versions PROVE ExtractedOnce(v)' /\ PreviewsThere(v)' /\ DropComesFirst(v)'
  BY ExtractionStaysOnce, PreviewsStayThere, DropStaysFirst
<1> QED
  BY <1>2, <1>3, FilesStayInHand DEF UntroubledFit

\* As long as nothing deletes vectors late, a step leaves those of v unless v claims none.
LEMMA VectorsStay ==
    ASSUME VInv, VNext, UndeletedFit, UnexpiredFit \/ UntroubledFit, NEW v \in Versions, VisualKept(v)
    PROVE  /\ \A p \in Pieces : p[1] = "text" /\ Point(v, p) \in points => Point(v, p) \in points'
           /\ Unrendered(v) =>
                 \/ \A p \in Pieces : Point(v, p) \in points => Point(v, p) \in points'
                 \/ NoVisual(v) /\ row' = row
<1>1. ~Drop
  <2>1. Drop => hand.job = DeleteVectors /\ status[hand.job] = "running"
    BY ActsAt, KindOfStep
  <2> QED
    BY <2>1 DEF UndeletedFit
<1>2. CASE points \subseteq points'
  BY <1>2
<1>3. CASE DropVisual /\ points' = points \ Visual(Subject, points) /\ row' = row
  <2>1. ASSUME NEW p \in Pieces, Point(v, p) \in points, p[1] # "visual" \/ Subject # v
        PROVE  Point(v, p) \in points'
    BY <1>3, <2>1 DEF Visual, Point
  <2>2. hand.job \in Jobs /\ status[hand.job] = "running" /\ hand.step = "dropVisual"
        /\ Kind \in {"render_visual", "embed_visual", "delete_version_vectors"}
    BY <1>3, ActsAt, KindOfStep
  <2>3. ASSUME Unrendered(v), Subject = v PROVE NoVisual(v)
    <3>1. hand.job = <<Kind, v>>
      BY <2>2, <2>3, JobFacts DEF Kind, Subject
    <3>2. Kind # "render_visual"
      BY <2>2, <2>3, <3>1 DEF Unrendered, Runs, RenderOf
    <3>3. Kind = "embed_visual" => NoVisual(v)
      BY <2>2, <3>1 DEF VisualKept, Runs
    <3>4. Kind = "delete_version_vectors" => NoVisual(v)
      <4>1. Kind = "delete_version_vectors" => status[DropOf(v)] = "running"
        BY <2>2, <3>1 DEF DropOf
      <4> QED
        BY <4>1 DEF UnexpiredFit, UntroubledFit, DropComesFirst
    <3> QED
      BY <2>2, <3>2, <3>3, <3>4
  <2> QED
    BY <1>3, <2>1, <2>3
<1> QED
  BY <1>1, <1>2, <1>3, PointsStay

\* A rendering is asked for only by an upload, and ends with its handler.
LEMMA RenderingEnds ==
    ASSUME VInv, VNext, NEW v \in Versions, status[RenderOf(v)] # "none", status'[RenderOf(v)] = "none"
    PROVE  Finish /\ Runs(RenderOf(v), {"returned"})
<1>1. RenderOf(v) \in Jobs /\ RenderOf(v)[1] = "render_visual"
  BY JobNames
<1>2. Finish /\ hand.job = RenderOf(v)
  BY <1>1, JobStays
<1> QED
  BY <1>2 DEF Finish, At, Runs

\* The batches that an embedding handler has behind it are in Qdrant.
LEMMA EmbeddingKeepsItsBatches ==
    ASSUME VInv, VNext, UndeletedFit, UnexpiredFit \/ UntroubledFit, EmbeddedSoFar,
           \A v \in Versions : Kept(v, "text") /\ VisualKept(v)
    PROVE  EmbeddedSoFar'
<1>0. HandFits
  BY DEF VInv
<1>1. SUFFICES ASSUME Embedding', (Kind = "embed_visual" => Unrendered(Subject))'
               PROVE  /\ \A n \in 1..hand'.at : Point(Subject', <<Modality', n>>) \in points'
                      /\ hand'.step = "record" => Point(Subject', Piece') \in points'
  BY DEF EmbeddedSoFar
<1>2. /\ hand'.job = hand.job /\ hand.job \in Jobs
      /\ hand' = hand \/ Begin \/ EmbedBatch \/ RecordBatch
  <2>1. CASE hand' = hand
    BY <1>1, <2>1, KindOfStep DEF Embedding
  <2>2. CASE hand' # hand
    BY <1>1, <2>2, HandArrives, EmbeddingGoesOn DEF Embedding
  <2> QED
    BY <2>1, <2>2
<1>3. Subject' = Subject /\ Kind' = Kind /\ Modality' = Modality
  BY <1>2 DEF Subject, Kind, Modality
<1>4. CASE Begin
  <2>1. hand'.at = 0 /\ hand'.step # "record"
    <3>1. hand'.at = hand.at /\ hand'.step = FirstStep /\ hand.at = 0
      BY <1>0, <1>4, ActsAt DEF Begin, GoTo, HandFits
    <3>2. FirstStep # "record"
      BY <1>2, JobFacts, EmbedFacts DEF FirstStep, Kind
    <3> QED
      BY <3>1, <3>2
  <2> QED
    BY <2>1
<1>5. CASE ~Begin
  <2>1. Embedding /\ Kind \in DOMAIN Embeds /\ Subject \in Versions
    <3>1. Embedding
      BY <1>1, <1>2, <1>5, ActsAt DEF Embedding
    <3> QED
      BY <3>1, KindOfStep DEF Embedding
  <2>2. Kind = "embed_visual" => Unrendered(Subject)
    <3>1. ASSUME Kind = "embed_visual" PROVE Unrendered(Subject)
      <4>1. hand'.job # RenderOf(Subject) /\ hand.job # RenderOf(Subject)
        BY <1>2, <3>1 DEF RenderOf, Kind
      <4>2. status'[RenderOf(Subject)] = "none"
        BY <1>1, <1>3, <3>1, <4>1 DEF Unrendered, Runs, RenderOf
      <4>3. status[RenderOf(Subject)] = "none"
        BY <2>1, <4>1, <4>2, RenderingEnds DEF Runs
      <4> QED
        BY <4>3 DEF Unrendered
    <3> QED
      BY <3>1
  <2>3. /\ \A n \in 1..hand.at : Point(Subject, <<Modality, n>>) \in points
        /\ hand.step = "record" => Point(Subject, Piece) \in points
    BY <2>1, <2>2 DEF EmbeddedSoFar
  <2>4. points \subseteq points'
    <3>1. ~Drop /\ ~DropVisual
      BY <2>1, ActsAt DEF Embedding
    <3> QED
      BY <3>1, PointsStay
  <2>50. Modality \in Modalities
    BY <2>1, KindOfStep DEF Embedding
  <2>5. Modality \in Modalities /\ hand.at \in Nat /\ Batches[Modality] \in Nat
    BY <1>0, <2>50, VectorsAssumption DEF HandFits
  <2>6. CASE hand' = hand
    <3>1. Piece' = Piece
      BY <1>3, <2>6 DEF Piece
    <3> QED
      BY <1>3, <2>3, <2>4, <2>6, <3>1
  <2>7. CASE EmbedBatch
    <3>1. CASE Done /\ Proceed(hand.at + 1, "embed")
      <4>1. hand'.at = hand.at + 1 /\ hand'.step = "embed"
        BY <1>0, <3>1 DEF Proceed, HandFits
      <4>2. Piece \in Pieces /\ Piece[1] = Modality /\ Piece = <<Modality, hand.at + 1>>
        BY <2>5, <2>7 DEF EmbedBatch, Piece, Pieces
      <4>3. Kept(Subject, Modality)
        <5>1. Modality = "visual" => Kind = "embed_visual"
          BY <2>1, EmbedFacts DEF Modality
        <5> QED
          BY <2>1, <2>2, <2>5, <5>1 DEF VisualKept, Modalities
      <4>4. Point(Subject, Piece) \in points
        BY <3>1, <4>2, <4>3 DEF Kept, Done
      <4>5. \A n \in 1..hand'.at : n \in 1..hand.at \/ n = hand.at + 1
        BY <2>5, <4>1
      <4> QED
        BY <1>3, <2>3, <2>4, <4>1, <4>2, <4>4, <4>5
    <3>2. CASE points' = points \cup {Point(Subject, Piece)} /\ GoTo("record")
      <4>1. hand'.at = hand.at /\ hand'.step = "record"
        BY <1>0, <3>2 DEF GoTo, HandFits
      <4>2. Piece' = Piece
        BY <1>3, <4>1 DEF Piece
      <4> QED
        BY <1>3, <2>3, <2>4, <3>2, <4>1, <4>2
    <3>3. CASE GoTo("raised")
      BY <1>0, <1>1, <3>3 DEF GoTo, HandFits, Embedding
    <3> QED
      BY <2>7, <3>1, <3>2, <3>3 DEF EmbedBatch
  <2>8. CASE RecordBatch
    <3>1. CASE Proceed(hand.at + 1, "embed")
      <4>1. hand'.at = hand.at + 1 /\ hand'.step = "embed"
        BY <1>0, <3>1 DEF Proceed, HandFits
      <4>2. Piece = <<Modality, hand.at + 1>> /\ Point(Subject, Piece) \in points
        BY <2>3, <2>8, ActsAt DEF Piece
      <4>3. \A n \in 1..hand'.at : n \in 1..hand.at \/ n = hand.at + 1
        BY <2>5, <4>1
      <4> QED
        BY <1>3, <2>3, <2>4, <4>1, <4>2, <4>3
    <3>2. CASE GoTo("raised")
      BY <1>0, <1>1, <3>2 DEF GoTo, HandFits, Embedding
    <3> QED
      BY <2>8, <3>1, <3>2 DEF RecordBatch
  <2> QED
    BY <1>2, <1>5, <2>6, <2>7, <2>8
<1> QED
  BY <1>4, <1>5

\* What an embedding handler records or makes ready is in Qdrant.
LEMMA EmbeddingKeepsClaims ==
    ASSUME VInv, VNext, ~Delete, EmbeddedSoFar, NEW v \in Versions, NEW m \in Modalities, Kept(v, m),
           m = "visual" => Unrendered(v)
    PROVE  \A p \in Pieces : p[1] = m /\ (p \in row'[v].batches \/ m \in row'[v].ready)
              => Point(v, p) \in points
<1>1. SUFFICES ASSUME NEW p \in Pieces, p[1] = m, p \in row'[v].batches \/ m \in row'[v].ready,
                      ~(p \in row[v].batches \/ m \in row[v].ready)
               PROVE  Point(v, p) \in points
  BY DEF Kept
<1>2. Subject = v /\ Modality = m /\ ((RecordBatch /\ p = Piece) \/ SetReady)
  <2>1. CASE p \in row'[v].batches
    <3>1. Subject = v /\ RecordBatch /\ p = Piece
      BY <1>1, <2>1, FieldChanges
    <3> QED
      BY <1>1, <3>1 DEF Piece
  <2>2. CASE m \in row'[v].ready
    BY <1>1, <2>2, FieldChanges
  <2> QED
    BY <1>1, <2>1, <2>2
<1>3. Embedding /\ Kind \in DOMAIN Embeds
  <2>1. Embedding
    BY <1>2, ActsAt DEF Embedding
  <2> QED
    BY <2>1, KindOfStep DEF Embedding
<1>4. Kind = "embed_visual" => m = "visual"
  BY <1>2, EmbedFacts DEF Modality
<1>5. /\ \A n \in 1..hand.at : Point(Subject, <<Modality, n>>) \in points
      /\ hand.step = "record" => Point(Subject, Piece) \in points
  BY <1>2, <1>3, <1>4 DEF EmbeddedSoFar
<1>6. CASE RecordBatch /\ p = Piece
  BY <1>2, <1>5, <1>6, ActsAt
<1>7. CASE SetReady
  <2>1. hand.at = Batches[m]
    BY <1>2, <1>7 DEF SetReady
  <2>2. PICK n \in 1..Batches[m] : p = <<m, n>>
    BY <1>1 DEF Pieces
  <2>3. Point(v, p) = Point(v, <<m, n>>)
    BY <2>2
  <2> QED
    BY <1>2, <1>5, <2>1, <2>2, <2>3
<1> QED
  BY <1>2, <1>6, <1>7

\* What v claims goes on being in Qdrant, and a rendering or a loss of previews forgets
\* the claims before it deletes.
LEMMA ClaimsStayKept ==
    ASSUME VInv, VNext, UndeletedFit, UnexpiredFit \/ UntroubledFit, ~Delete, EmbeddedSoFar,
           NEW v \in Versions, Kept(v, "text"), VisualKept(v)
    PROVE  Kept(v, "text")' /\ VisualKept(v)'
<1>0. HandFits
  BY DEF VInv
<1>1. /\ RenderOf(v) \in Jobs /\ RenderOf(v)[1] = "render_visual" /\ RenderOf(v)[2] = v
      /\ RenderOf(v)' = RenderOf(v) /\ <<"embed_visual", v>> \in Jobs
      /\ <<"embed_visual", v>>[1] = "embed_visual" /\ <<"embed_visual", v>>[2] = v
  BY JobNames DEF RenderOf
<1>2. "text" \in Modalities /\ "visual" \in Modalities
  BY DEF Modalities
<1>3. Kept(v, "text")'
  <2>1. \A p \in Pieces : p[1] = "text" /\ (p \in row'[v].batches \/ "text" \in row'[v].ready)
              => Point(v, p) \in points
    BY <1>2, EmbeddingKeepsClaims
  <2>2. \A p \in Pieces : p[1] = "text" /\ Point(v, p) \in points => Point(v, p) \in points'
    BY VectorsStay
  <2> QED
    BY <2>1, <2>2 DEF Kept, Point
<1>4. NoVisual(v)' => Kept(v, "visual")'
  BY DEF NoVisual, NoBatches, Kept
\* A visual batch is recorded by embed_visual alone.
<1>5. ASSUME NoBatches(v), ~RecordBatch PROVE NoBatches(v)'
  BY <1>5, FieldChanges DEF NoBatches
<1>6. Unrendered(v)' => Kept(v, "visual")'
  <2>1. CASE Unrendered(v)
    <3>1. CASE \A p \in Pieces : Point(v, p) \in points => Point(v, p) \in points'
      <4>1. Kept(v, "visual")
        BY <2>1 DEF VisualKept
      <4>2. \A p \in Pieces : p[1] = "visual" /\ (p \in row'[v].batches \/ "visual" \in row'[v].ready)
                => Point(v, p) \in points
        BY <1>2, <2>1, <4>1, EmbeddingKeepsClaims
      <4> QED
        BY <3>1, <4>2 DEF Kept, Point
    <3>2. CASE NoVisual(v) /\ row' = row
      <4>1. NoVisual(v)'
        BY <3>2 DEF NoVisual, NoBatches
      <4> QED
        BY <1>4, <4>1
    <3> QED
      BY <2>1, <3>1, <3>2, VectorsStay
  <2>2. ASSUME ~Unrendered(v), Unrendered(v)' PROVE Kept(v, "visual")'
    <3>1. Runs(RenderOf(v), {"enqueue", "returned"})'
      <4>1. status'[RenderOf(v)] # "none"
        BY <2>2, RenderingEnds DEF Unrendered, Runs
      <4> QED
        BY <1>1, <2>2, <4>1 DEF Unrendered
    <3>2. hand' # hand
      BY <1>1, <2>2, <3>1 DEF Unrendered, Runs
    <3>3. hand.job = RenderOf(v) /\ Kind = "render_visual" /\ Subject = v
          /\ (CommitExtract \/ Rendered \/ Enqueue)
      BY <1>1, <3>1, <3>2, HandArrives DEF Runs, Kind, Subject
    <3>4. ~CommitExtract /\ ~Enqueue
      <4>1. CommitExtract => Kind = "extract"
        BY ActsAt, KindOfStep
      <4>2. Enqueue => Runs(RenderOf(v), {"enqueue"})
        BY <3>3, ActsAt DEF Runs
      <4> QED
        BY <2>2, <3>3, <4>1, <4>2 DEF Unrendered, Runs
    <3>5. NoBatches(v)
      BY <3>3, <3>4, ActsAt DEF VisualKept, Runs
    <3>6. ~RecordBatch
      BY <3>3, <3>4, ActsAt
    <3>7. NoVisual(v)'
      BY <1>5, <3>3, <3>4, <3>5, <3>6, FieldChanges DEF NoVisual
    <3> QED
      BY <1>4, <3>7
  <2> QED
    BY <2>1, <2>2
<1>7. Runs(RenderOf(v), {"visuals", "rendered"})' => NoBatches(v)'
  <2>1. SUFFICES ASSUME hand'.job = RenderOf(v), hand'.step \in {"visuals", "rendered"}
                 PROVE  NoBatches(v)'
    BY <1>1 DEF Runs
  <2>2. CASE hand' = hand
    <3>1. ~RecordBatch
      BY <2>1, <2>2, ActsAt
    <3> QED
      BY <1>5, <2>1, <2>2, <3>1 DEF VisualKept, Runs
  <2>3. CASE hand' # hand
    <3>1. hand.job = RenderOf(v) /\ Kind = "render_visual" /\ Subject = v
          /\ (ReplaceChunks \/ ForgetBatches \/ ReplaceVisuals)
      BY <1>1, <2>1, <2>3, HandArrives DEF Kind, Subject
    <3>2. ~ReplaceChunks
      BY <3>1, ActsAt, KindOfStep
    <3>3. CASE ForgetBatches
      BY <3>1, <3>3, FieldChanges DEF NoBatches
    <3>4. CASE ReplaceVisuals
      <4>1. NoBatches(v) /\ ~RecordBatch
        BY <3>1, <3>4, ActsAt DEF VisualKept, Runs
      <4> QED
        BY <1>5, <4>1
    <3> QED
      BY <3>1, <3>2, <3>3, <3>4
  <2> QED
    BY <2>2, <2>3
<1>8. /\ Runs(<<"embed_visual", v>>, {"withdraw", "dropVisual"})' => NoBatches(v)'
      /\ Runs(<<"embed_visual", v>>, {"dropVisual"})' => NoVisual(v)'
  <2>1. SUFFICES ASSUME hand'.job = <<"embed_visual", v>>, hand'.step \in {"withdraw", "dropVisual"}
                 PROVE  NoBatches(v)' /\ (hand'.step = "dropVisual" => NoVisual(v)')
    BY DEF Runs
  <2>2. CASE hand' = hand
    <3>1. ~RecordBatch /\ ~SetReady
      BY <2>1, <2>2, ActsAt
    <3>2. NoBatches(v)'
      BY <1>5, <2>1, <2>2, <3>1 DEF VisualKept, Runs
    <3>3. hand'.step = "dropVisual" => "visual" \notin row[v].ready
      BY <2>1, <2>2 DEF VisualKept, Runs, NoVisual
    <3>4. "visual" \notin row[v].ready => "visual" \notin row'[v].ready
      BY <3>1, FieldChanges
    <3> QED
      BY <3>2, <3>3, <3>4 DEF NoVisual
  <2>3. CASE hand' # hand
    <3>1. /\ hand.job = <<"embed_visual", v>> /\ Kind = "embed_visual" /\ Subject = v
          /\ hand'.step = "withdraw" => LoseBatches
          /\ hand'.step = "dropVisual" => Parse \/ Withdraw \/ Begin
      BY <1>1, <2>1, <2>3, HandArrives DEF Kind, Subject
    <3>2. ~Parse
      BY <3>1, ActsAt, KindOfStep
    <3>3. ~(Begin /\ hand'.step = "dropVisual")
      <4>1. Begin => hand'.step = FirstStep
        BY <1>0 DEF Begin, GoTo, HandFits
      <4>2. FirstStep # "dropVisual"
        <5> HIDE DEF Kind
        <5> QED
          BY <3>1, EmbedFacts DEF FirstStep
      <4> QED
        BY <4>1, <4>2
    <3>4. CASE LoseBatches /\ hand'.step = "withdraw"
      BY <3>1, <3>4, FieldChanges DEF NoBatches
    <3>5. CASE Withdraw /\ hand'.step = "dropVisual"
      <4>1. NoBatches(v) /\ ~RecordBatch
        BY <3>1, <3>5, ActsAt DEF VisualKept, Runs
      <4>2. "visual" \notin row'[v].ready
        BY <3>1, <3>5, FieldChanges
      <4> QED
        BY <1>5, <4>1, <4>2 DEF NoVisual
    <3> QED
      BY <2>1, <3>1, <3>2, <3>3, <3>4, <3>5
  <2> QED
    BY <2>2, <2>3
<1> QED
  BY <1>3, <1>6, <1>7, <1>8 DEF VisualKept

LEMMA InitReadyInv == VInit => ReadyInv
<1> SUFFICES ASSUME VInit PROVE ReadyInv
  OBVIOUS
<1>1. hand.step = "idle" /\ hand.job = Idle.job /\ ~Embedding
  BY DEF VInit, Idle, Embedding
<1>2. \A j \in Jobs : status[j] = "none"
  BY DEF VInit
<1>3. \A v \in Versions : row[v].state = "absent" /\ row[v].has = {} /\ row[v].ready = {}
                          /\ row[v].batches = {} /\ ~row[v].recovery
  BY DEF VInit, NoRow
<1>4. UndeletedFit
  BY <1>2, JobFacts, JobNames DEF UndeletedFit, VInit
<1>5. UnexpiredFit
  BY <1>2, JobNames DEF UnexpiredFit, VInit
<1>6. UntroubledFit
  <2>1. FilesInHand
    BY <1>1, JobFacts DEF FilesInHand, Kind
  <2>2. \A v \in Versions : ExtractedOnce(v) /\ PreviewsThere(v) /\ DropComesFirst(v)
    BY <1>2, <1>3, JobNames DEF ExtractedOnce, PreviewsThere, DropComesFirst
  <2> QED
    BY <2>1, <2>2 DEF UntroubledFit, VInit
<1>7. EmbeddedSoFar /\ \A v \in Versions : Kept(v, "text") /\ VisualKept(v)
  BY <1>1, <1>3 DEF EmbeddedSoFar, Kept, VisualKept, Runs, NoVisual, NoBatches
<1> QED
  BY <1>4, <1>5, <1>6, <1>7 DEF ReadyInv

LEMMA StepReadyInv == VInv /\ ReadyInv /\ [VNext]_vectorVars => ReadyInv'
<1>1. ASSUME VInv, ReadyInv, VNext PROVE ReadyInv'
  <2>1. /\ Undeleted' => UndeletedFit /\ ~Delete /\ UndeletedFit'
        /\ Unexpired' => Undeleted'
        /\ Untroubled' => Undeleted'
    BY <1>1, RegimesShrink, UndeletedStaysFit DEF ReadyInv, Undeleted, Unexpired, Untroubled
  <2>2. Unexpired' => Unexpired /\ UnexpiredFit /\ UnexpiredFit'
    BY <1>1, RegimesShrink, UnexpiredStaysFit DEF ReadyInv
  <2>3. Untroubled' => Untroubled /\ UntroubledFit /\ UntroubledFit'
    BY <1>1, <2>1, RegimesShrink, UntroubledStaysFit DEF ReadyInv
  <2>4. ASSUME Untroubled' \/ Unexpired'
        PROVE  EmbeddedSoFar' /\ \A v \in Versions : Kept(v, "text")' /\ VisualKept(v)'
    <3>1. /\ UndeletedFit /\ ~Delete /\ (UnexpiredFit \/ UntroubledFit)
          /\ EmbeddedSoFar /\ \A v \in Versions : Kept(v, "text") /\ VisualKept(v)
      BY <1>1, <2>1, <2>2, <2>3, <2>4 DEF ReadyInv
    <3>2. EmbeddedSoFar'
      BY <1>1, <3>1, EmbeddingKeepsItsBatches
    <3>3. ASSUME NEW v \in Versions PROVE Kept(v, "text")' /\ VisualKept(v)'
      BY <1>1, <3>1, ClaimsStayKept
    <3> QED
      BY <3>2, <3>3
  <2> QED
    BY <2>1, <2>2, <2>3, <2>4 DEF ReadyInv
<1>2. ASSUME VInv, ReadyInv, UNCHANGED vectorVars PROVE ReadyInv'
  <2> USE <1>2 DEF vectorVars, outside, queueVars, apiVars
  <2>1. (Undeleted' <=> Undeleted) /\ (Untroubled' <=> Untroubled) /\ (Unexpired' <=> Unexpired)
    BY DEF Undeleted, Untroubled, Unexpired
  <2>2. (UndeletedFit' <=> UndeletedFit) /\ (UnexpiredFit' <=> UnexpiredFit)
    BY DEF UndeletedFit, UnexpiredFit, RenderOf, DropOf, DeleteVectors
  <2>3. UntroubledFit' <=> UntroubledFit
    BY DEF UntroubledFit, FilesInHand, ExtractedOnce, PreviewsThere, DropComesFirst, NoVisual, NoBatches,
       Runs, ExtractOf, RenderOf, DropOf, Kind, Subject
  <2>4. EmbeddedSoFar' <=> EmbeddedSoFar
    BY DEF EmbeddedSoFar, Embedding, Kind, Subject, Modality, Piece, Unrendered, Runs, RenderOf, Point
  <2>5. \A v \in Versions : (Kept(v, "text") /\ VisualKept(v))' <=> Kept(v, "text") /\ VisualKept(v)
    BY DEF Kept, VisualKept, Unrendered, Runs, RenderOf, NoVisual, NoBatches, Point
  <2> QED
    BY <2>1, <2>2, <2>3, <2>4, <2>5 DEF ReadyInv
<1> QED
  BY <1>1, <1>2

\* What the readiness of the current version claims is in Qdrant, while the document was
\* never deleted and either no preview expired or went missing or nothing failed: an
\* embedding handler has upserted all it passed, and whatever deletes vectors has
\* withdrawn the claims on them before.
THEOREM ReadyUntilDeletedHolds == VSpec => []ReadyUntilDeleted
<1>1. VInv /\ ReadyInv => ReadyUntilDeleted
  <2> SUFFICES ASSUME VInv, ReadyInv,
                      count["delete"] = 0, count["expire"] + count["look"] = 0 \/ count["trouble"] = 0,
                      NEW v \in Versions, status[<<"render_visual", v>>] = "none",
                      NEW p \in Pieces, p[1] \in row[v].ready
               PROVE  Point(v, p) \in points
    BY DEF ReadyUntilDeleted
  <2>1. Kept(v, "text") /\ VisualKept(v)
    BY DEF ReadyInv, Untroubled, Unexpired, Undeleted
  <2>2. Kept(v, "visual")
    BY <2>1 DEF VisualKept, Unrendered, RenderOf
  <2>3. p[1] \in {"text", "visual"}
    BY DEF Pieces, Modalities
  <2> QED
    BY <2>1, <2>2, <2>3 DEF Kept
<1> QED
  BY <1>1, InitReadyInv, StepReadyInv, VectorsInvariant, PTL DEF VSpec
=============================================================================

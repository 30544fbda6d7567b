------------------------- MODULE PhotoLibraryProofs -------------------------
(* Theorems about PhotoLibrary, for any photos, orders and requests. *)
EXTENDS PhotoLibrary, TLAPS

(***************************************************************************)
(* Type correctness.                                                       *)
(***************************************************************************)

LEMMA IdleIsJob == Idle \in Jobs
  BY DEF Idle, Jobs, Steps

\* What the steps of a request change in its job keeps it a job.
LEMMA JobStep ==
  ASSUME NEW j \in Jobs, NEW step \in Steps
  PROVE  [j EXCEPT !.step = step] \in Jobs
  BY ZenonT(30) DEF Jobs

LEMMA JobTodo ==
  ASSUME NEW j \in Jobs, NEW set \in SUBSET Photos
  PROVE  [j EXCEPT !.todo = set] \in Jobs
  BY ZenonT(30) DEF Jobs

LEMMA JobStepTodo ==
  ASSUME NEW j \in Jobs, NEW step \in Steps, NEW set \in SUBSET Photos
  PROVE  [j EXCEPT !.step = step, !.todo = set] \in Jobs
  BY ZenonT(30) DEF Jobs

LEMMA JobTodoMade ==
  ASSUME NEW j \in Jobs, NEW set \in SUBSET Photos, NEW made \in SUBSET Photos
  PROVE  [j EXCEPT !.todo = set, !.made = made] \in Jobs
  BY ZenonT(30) DEF Jobs

LEMMA JobStepLoaded ==
  ASSUME NEW j \in Jobs, NEW step \in Steps, NEW pairs \in SUBSET (Orders \X Photos)
  PROVE  [j EXCEPT !.step = step, !.loaded = pairs] \in Jobs
  BY ZenonT(30) DEF Jobs

\* The sets a job has are sets of photos.
LEMMA JobFields ==
  ASSUME NEW j \in Jobs, NEW p \in Photos
  PROVE  /\ j.todo \ {p} \in SUBSET Photos
         /\ j.made \in SUBSET Photos
         /\ j.made \cup {p} \in SUBSET Photos
         /\ PhotosOf(j.session) \in SUBSET Photos
  BY DEF Jobs, PhotosOf

LEMMA StepNames ==
  {"process", "original", "preview", "cascade", "delete"} \subseteq Steps
  BY DEF Steps

LEMMA TakesType ==
  ASSUME TypeOK, NEW w \in Workers, NEW j \in Jobs, Takes(w, j)
  PROVE  job' \in [Workers -> Jobs]
  BY DEF TypeOK, Takes

\* Taking on a job concerns one worker.
LEMMA TakesOne ==
  ASSUME TypeOK, NEW w \in Workers, NEW j, Takes(w, j)
  PROVE  job'[w] = j /\ \A u \in Workers \ {w} : job'[u] = job[u]
  BY DEF TypeOK, Takes

LEMMA KeysType ==
  ASSUME NEW p \in Photos
  PROVE  StorageKey(p) \in Keys /\ PreviewKey(p) \in Keys
  BY LibraryAssumption DEF StorageKey, PreviewKey, Keys

\* The count finds every sale, so a deletion that begins is of an unsold photo.
LEMMA AskedInTime ==
  ASSUME LibraryInv, NEW w \in Workers, NEW p \in Photos, DeletePhoto(w, p)
  PROVE  asked' = asked \cup {p}
  <1>1. p \in Rows /\ PurchasesOf(p) = {} /\ asked' = IF Sold(p) THEN asked ELSE asked \cup {p}
    BY DEF DeletePhoto, Unsold
  <1>2. ~Sold(p)
    <2> SUFFICES ASSUME NEW o \in Orders, status[o] = "captured", p \in Items[o]
                 PROVE  FALSE
      BY DEF Sold
    <2>1. <<o, p>> \in purchases
      BY <1>1 DEF LibraryInv, SalesFollowPhotos
    <2> QED BY <1>1, <2>1 DEF PurchasesOf
  <1> QED BY <1>1, <1>2

\* A step of Next keeps every variable in its type.
LEMMA TypeStep == LibraryInv /\ [Next]_vars => TypeOK'
  <1> SUFFICES ASSUME LibraryInv, [Next]_vars
               PROVE  TypeOK'
    OBVIOUS
  <1> TypeOK /\ JobsOK
    BY DEF LibraryInv
  <1> USE DEF TypeOK
  <1>1. ASSUME NEW o \in Orders, PlaceOrder(o) \/ BuyerPays(o)
        PROVE  TypeOK'
    BY <1>1 DEF PlaceOrder, BuyerPays, OrderState
  <1>2. ASSUME NEW w \in Workers, NEW s \in Sessions, Upload(w, s)
        PROVE  TypeOK'
    <2>1. [Idle EXCEPT !.step = "write", !.session = s, !.todo = PhotosOf(s)] \in Jobs
      BY IdleIsJob DEF Jobs, Steps, PhotosOf
    <2> QED BY <1>2, <2>1, TakesType DEF Upload
  <1>3. ASSUME NEW w \in Workers, NEW p \in Photos, WriteFile(w, p)
        PROVE  TypeOK'
    <2>1. /\ [job[w] EXCEPT !.step = "process", !.todo = PhotosOf(job[w].session)] \in Jobs
          /\ [job[w] EXCEPT !.todo = @ \ {p}] \in Jobs
      <3>1. job[w] \in Jobs
        OBVIOUS
      <3> HIDE DEF TypeOK
      <3>2. /\ job[w].todo \ {p} \in SUBSET Photos
            /\ PhotosOf(job[w].session) \in SUBSET Photos
        BY <3>1, JobFields
      <3> QED BY <3>1, <3>2, JobTodo, JobStepTodo, StepNames
    <2>2. job' \in [Workers -> Jobs]
      BY <1>3, <2>1, TakesType DEF WriteFile
    <2> QED BY <1>3, <2>2, KeysType DEF WriteFile
  <1>4. ASSUME NEW w \in Workers, NEW p \in Photos, ProcessPhoto(w, p)
        PROVE  TypeOK'
    <2>1. /\ [job[w] EXCEPT !.todo = @ \ {p}, !.made = @ \cup {p}] \in Jobs
          /\ [job[w] EXCEPT !.todo = @ \ {p}, !.made = @] \in Jobs
      <3>1. job[w] \in Jobs
        OBVIOUS
      <3> HIDE DEF TypeOK
      <3>2. /\ job[w].todo \ {p} \in SUBSET Photos
            /\ job[w].made \in SUBSET Photos
            /\ job[w].made \cup {p} \in SUBSET Photos
        BY <3>1, JobFields
      <3> QED BY <3>1, <3>2, JobTodoMade
    <2>2. job' \in [Workers -> Jobs]
      BY <1>4, <2>1, TakesType DEF ProcessPhoto
    <2>3. preview' \in [Keys -> Photos \cup {None}]
      BY <1>4, KeysType DEF ProcessPhoto
    <2> QED BY <1>4, <2>2, <2>3 DEF ProcessPhoto
  <1>5. ASSUME NEW w \in Workers, NEW p \in Photos, DeletePhoto(w, p)
        PROVE  TypeOK'
    <2>1. [Idle EXCEPT !.step = "original", !.photo = p,
                       !.made = IF row[p] = "previewed" THEN {p} ELSE {}] \in Jobs
      BY IdleIsJob DEF Jobs, Steps
    <2> QED BY <1>5, <2>1, TakesType DEF DeletePhoto
  <1>6. ASSUME NEW w \in Workers, NEW o \in Orders, Fulfill(w, o)
        PROVE  TypeOK'
    <2>1. [Idle EXCEPT !.step = "fulfill", !.order = o] \in Jobs
      BY IdleIsJob DEF Jobs, Steps
    <2> QED BY <1>6, <2>1, TakesType DEF Fulfill
  <1>7. ASSUME NEW w \in Workers, CommitUpload(w)
        PROVE  TypeOK'
    <2>1. row' \in [Photos -> RowState]
      BY <1>7 DEF CommitUpload, RowState, Processed
    <2> QED BY <1>7, <2>1, IdleIsJob, TakesType DEF CommitUpload
  <1>8. ASSUME NEW w \in Workers, CommitFulfill(w)
        PROVE  TypeOK'
    <2>1. job[w].order \in Orders
      BY <1>8 DEF CommitFulfill, JobsOK, FulfillOK
    <2>2. status' \in [Orders -> OrderState]
      BY <1>8 DEF CommitFulfill, OrderState
    <2>3. purchases' \subseteq Orders \X Photos
      BY <1>8, <2>1, LibraryAssumption DEF CommitFulfill
    <2> QED BY <1>8, <2>2, <2>3, IdleIsJob, TakesType DEF CommitFulfill
  <1>9. ASSUME NEW w \in Workers, EraseOriginal(w)
        PROVE  TypeOK'
    <2>1. /\ [job[w] EXCEPT !.step = "cascade"] \in Jobs
          /\ [job[w] EXCEPT !.step = "preview"] \in Jobs
      BY JobStep, StepNames
    <2>2. job' \in [Workers -> Jobs]
      BY <1>9, <2>1, TakesType DEF EraseOriginal
    <2> QED BY <1>9, <2>2 DEF EraseOriginal
  <1>10. ASSUME NEW w \in Workers, ErasePreview(w)
         PROVE  TypeOK'
    <2>1. [job[w] EXCEPT !.step = "cascade"] \in Jobs
      BY JobStep, StepNames
    <2> QED BY <1>10, <2>1, TakesType DEF ErasePreview
  <1>11. ASSUME NEW w \in Workers, Cascade(w)
         PROVE  TypeOK'
    <2>1. PurchasesOf(job[w].photo) \in SUBSET (Orders \X Photos)
      BY DEF PurchasesOf
    <2>2. [job[w] EXCEPT !.step = "delete", !.loaded = PurchasesOf(job[w].photo)] \in Jobs
      BY <2>1, JobStepLoaded, StepNames
    <2> QED BY <1>11, <2>2, TakesType DEF Cascade
  <1>12. ASSUME NEW w \in Workers, CommitDelete(w)
         PROVE  TypeOK'
    <2>1. row' \in [Photos -> RowState]
      BY <1>12 DEF CommitDelete, RowState
    <2>2. purchases' \subseteq Orders \X Photos
      BY <1>12 DEF CommitDelete
    <2> QED BY <1>12, <2>1, <2>2, IdleIsJob, TakesType DEF CommitDelete
  <1>13. ASSUME NEW w \in Workers, Rollback(w)
         PROVE  TypeOK'
    BY <1>13, IdleIsJob, TakesType DEF Rollback
  <1>14. CASE UNCHANGED vars
    BY <1>14 DEF vars
  <1> QED BY <1>1, <1>2, <1>3, <1>4, <1>5, <1>6, <1>7, <1>8, <1>9, <1>10, <1>11, <1>12, <1>13, <1>14
          DEF Next

-----------------------------------------------------------------------------
(***************************************************************************)
(* What each request relies on is kept by the steps of the others.         *)
(***************************************************************************)

\* A step that deletes, asks for photos that have rows, or sells only those,
\* makes no photo known.
LEMMA NothingNew ==
  ASSUME TypeOK, NEW p \in Photos, Known(p)',
         Rows' \cup asked' \subseteq Rows \cup asked,
         \A o \in Orders : status'[o] # "none" => status[o] # "none" \/ Items[o] \subseteq Rows
  PROVE  Known(p)
  BY DEF Known

\* A worker that a step leaves alone.
LEMMA OtherWorker ==
  ASSUME LibraryInv, NEW w \in Workers, NEW j, Takes(w, j), NEW v \in Workers, v # w,
         begun \subseteq begun', asked \subseteq asked',
         Uploading(v) =>
            /\ j.step \in {"write", "process"} => j.session # job[v].session
            /\ \A p \in PhotosOf(job[v].session) : ~Known(p)',
         job[v].step = "fulfill" =>
            /\ j.step = "fulfill" => j.order # job[v].order
            /\ status'[job[v].order] = "paid"
            /\ Items[job[v].order] \subseteq Rows'
  PROVE  UploadOK(v)' /\ FulfillOK(v)' /\ DeleteOK(v)'
  <1>1. job'[w] = j /\ \A u \in Workers \ {w} : job'[u] = job[u]
    BY TakesOne DEF LibraryInv
  <1>2. UploadOK(v) /\ FulfillOK(v) /\ DeleteOK(v) /\ job'[v] = job[v]
    BY <1>1 DEF LibraryInv, JobsOK
  <1>3. UploadOK(v)'
    BY <1>1, <1>2 DEF UploadOK, Uploading
  <1>4. FulfillOK(v)'
    BY <1>1, <1>2 DEF FulfillOK
  <1>5. DeleteOK(v)'
    BY <1>1, <1>2 DEF DeleteOK, Deleting
  <1> QED BY <1>3, <1>4, <1>5

\* A step that starts neither an upload nor a fulfilment, and makes nothing known.
LEMMA QuietStep ==
  ASSUME LibraryInv, NEW w \in Workers, NEW j, Takes(w, j),
         UNCHANGED begun, asked \subseteq asked',
         Rows' \cup asked' \subseteq Rows \cup asked,
         \A o \in Orders : status'[o] # "none" => status[o] # "none" \/ Items[o] \subseteq Rows,
         j.step \in {"write", "process"} => Uploading(w) /\ j.session = job[w].session,
         j.step # "fulfill",
         \A v \in Workers \ {w} : job[v].step = "fulfill" =>
            status'[job[v].order] = "paid" /\ Items[job[v].order] \subseteq Rows',
         UploadOK(w)', DeleteOK(w)'
  PROVE  KnownOK' /\ JobsOK'
  <1>1. \A p \in Photos : Known(p)' => Known(p)
    BY NothingNew DEF LibraryInv
  <1>2. KnownOK'
    BY <1>1 DEF LibraryInv, KnownOK
  <1>3. job'[w] = j
    BY TakesOne DEF LibraryInv
  <1>4. ASSUME NEW v \in Workers, v # w
        PROVE  UploadOK(v)' /\ FulfillOK(v)' /\ DeleteOK(v)'
    <2>1. UploadOK(v) /\ UploadOK(w)
      BY DEF LibraryInv, JobsOK
    <2>2. Uploading(v) =>
            /\ j.step \in {"write", "process"} => j.session # job[v].session
            /\ \A p \in PhotosOf(job[v].session) : ~Known(p)'
      BY <1>1, <1>4, <2>1 DEF UploadOK, PhotosOf
    <2> QED BY <1>4, <2>2, OtherWorker
  <1>5. FulfillOK(w)'
    BY <1>3 DEF FulfillOK
  <1> QED BY <1>2, <1>4, <1>5 DEF JobsOK

\* A request that ends relies on nothing.
LEMMA IdleOK ==
  ASSUME LibraryInv, NEW w \in Workers, Takes(w, Idle)
  PROVE  UploadOK(w)' /\ FulfillOK(w)' /\ DeleteOK(w)'
  <1>1. job'[w] = Idle
    BY TakesOne DEF LibraryInv
  <1> QED BY <1>1 DEF UploadOK, FulfillOK, DeleteOK, Uploading, Deleting, Idle

\* An upload that goes on with the same session.
LEMMA UploadGoesOn ==
  ASSUME LibraryInv, NEW w \in Workers, NEW j, Takes(w, j), Uploading(w),
         j.step \in {"write", "process"}, j.session = job[w].session,
         j.todo \subseteq PhotosOf(job[w].session),
         UNCHANGED <<row, status, asked, begun>>
  PROVE  KnownOK' /\ JobsOK'
  <1>1. job'[w] = j /\ \A u \in Workers \ {w} : job'[u] = job[u]
    BY TakesOne DEF LibraryInv
  <1>2. UploadOK(w)
    BY DEF LibraryInv, JobsOK
  <1>3. Rows' = Rows /\ \A p : Known(p)' <=> Known(p)
    BY DEF Rows, Known
  <1>4. UploadOK(w)'
    BY <1>1, <1>2, <1>3 DEF UploadOK, Uploading
  <1>5. DeleteOK(w)'
    BY <1>1 DEF DeleteOK, Deleting
  <1>6. \A v \in Workers \ {w} : job[v].step = "fulfill" =>
            status'[job[v].order] = "paid" /\ Items[job[v].order] \subseteq Rows'
    BY <1>3 DEF LibraryInv, JobsOK, FulfillOK
  <1> QED BY <1>3, <1>4, <1>5, <1>6, QuietStep

LEMMA JobsStep == LibraryInv /\ [Next]_vars => KnownOK' /\ JobsOK'
  <1> SUFFICES ASSUME LibraryInv, [Next]_vars
               PROVE  KnownOK' /\ JobsOK'
    OBVIOUS
  <1> TypeOK /\ KnownOK /\ JobsOK
    BY DEF LibraryInv
  <1> DEFINE Selling(v) == job[v].step = "fulfill" =>
                              status'[job[v].order] = "paid" /\ Items[job[v].order] \subseteq Rows'
  <1>0. ASSUME row' = row, status' = status
        PROVE  \A v \in Workers : Selling(v)
    BY <1>0 DEF JobsOK, FulfillOK, Rows
  <1>1. ASSUME NEW o \in Orders, PlaceOrder(o) \/ BuyerPays(o)
        PROVE  KnownOK' /\ JobsOK'
    <2>1. Rows' = Rows /\ UNCHANGED <<asked, begun, job>>
      BY <1>1 DEF PlaceOrder, BuyerPays, Rows
    <2>2. \A u \in Orders : status'[u] # "none" => status[u] # "none" \/ Items[u] \subseteq Rows
      BY <1>1 DEF PlaceOrder, BuyerPays, TypeOK
    <2>3. \A p \in Photos : Known(p)' => Known(p)
      BY <2>1, <2>2, NothingNew
    <2>4. KnownOK'
      BY <2>1, <2>3 DEF KnownOK
    <2>5. ASSUME NEW v \in Workers
          PROVE  UploadOK(v)' /\ FulfillOK(v)' /\ DeleteOK(v)'
      <3>1. UploadOK(v) /\ FulfillOK(v) /\ DeleteOK(v)
        BY DEF JobsOK
      <3>2. UploadOK(v)'
        BY <2>1, <2>3, <3>1 DEF UploadOK, Uploading, PhotosOf
      <3>3. \A u \in Orders : status[u] = "paid" => status'[u] = "paid"
        BY <1>1 DEF PlaceOrder, BuyerPays, TypeOK
      <3>4. FulfillOK(v)'
        BY <2>1, <3>1, <3>3 DEF FulfillOK
      <3>5. DeleteOK(v)'
        BY <2>1, <3>1 DEF DeleteOK, Deleting
      <3> QED BY <3>2, <3>4, <3>5
    <2> QED BY <2>4, <2>5 DEF JobsOK
  <1>2. ASSUME NEW w \in Workers, NEW s \in Sessions, Upload(w, s)
        PROVE  KnownOK' /\ JobsOK'
    <2> DEFINE j == [Idle EXCEPT !.step = "write", !.session = s, !.todo = PhotosOf(s)]
    <2>1. Takes(w, j) /\ j.step = "write" /\ j.session = s /\ j.todo = PhotosOf(s)
      BY <1>2 DEF Upload, Idle
    <2>2. job'[w] = j /\ \A u \in Workers \ {w} : job'[u] = job[u]
      BY <2>1, TakesOne
    <2>3. /\ Rows' = Rows /\ begun' = begun \cup {s} /\ s \notin begun
          /\ UNCHANGED <<row, asked, status>> /\ \A p : Known(p)' <=> Known(p)
      BY <1>2 DEF Upload, Rows, Known
    <2>4. KnownOK'
      BY <2>3 DEF KnownOK
    <2>5. \A p \in PhotosOf(s) : ~Known(p)
      BY <2>3 DEF KnownOK, PhotosOf
    <2>6. \A v \in Workers \ {w} : Uploading(v) => job[v].session # s
      BY <2>3 DEF JobsOK, UploadOK
    <2>7. UploadOK(w)'
      BY <2>1, <2>2, <2>3, <2>5, <2>6 DEF UploadOK, Uploading
    <2>8. FulfillOK(w)' /\ DeleteOK(w)'
      BY <2>1, <2>2 DEF FulfillOK, DeleteOK, Deleting
    <2>9. ASSUME NEW v \in Workers, v # w
          PROVE  UploadOK(v)' /\ FulfillOK(v)' /\ DeleteOK(v)'
      <3>1. Selling(v)
        BY <1>0, <2>3
      <3>2. Uploading(v) => \A p \in PhotosOf(job[v].session) : ~Known(p)'
        BY <2>3 DEF JobsOK, UploadOK
      <3> QED BY <2>1, <2>3, <2>6, <2>9, <3>1, <3>2, OtherWorker
    <2> QED BY <2>4, <2>7, <2>8, <2>9 DEF JobsOK
  <1>3. ASSUME NEW w \in Workers, NEW p \in Photos, WriteFile(w, p)
        PROVE  KnownOK' /\ JobsOK'
    <2>1. Uploading(w) /\ job[w].todo \subseteq PhotosOf(job[w].session) /\ job[w] \in Jobs
      BY <1>3 DEF WriteFile, Uploading, JobsOK, UploadOK, TypeOK
    <2> DEFINE j == IF job[w].todo = {p}
                    THEN [job[w] EXCEPT !.step = "process", !.todo = PhotosOf(job[w].session)]
                    ELSE [job[w] EXCEPT !.todo = @ \ {p}]
    <2>2. /\ j.step \in {"write", "process"} /\ j.session = job[w].session
          /\ j.todo \subseteq PhotosOf(job[w].session)
      BY <1>3, <2>1 DEF WriteFile, Jobs
    <2>3. Takes(w, j) /\ UNCHANGED <<row, status, asked, begun>>
      BY <1>3 DEF WriteFile
    <2> QED BY <2>1, <2>2, <2>3, UploadGoesOn
  <1>4. ASSUME NEW w \in Workers, NEW p \in Photos, ProcessPhoto(w, p)
        PROVE  KnownOK' /\ JobsOK'
    <2>1. Uploading(w) /\ job[w].todo \subseteq PhotosOf(job[w].session) /\ job[w] \in Jobs
      BY <1>4 DEF ProcessPhoto, Uploading, JobsOK, UploadOK, TypeOK
    <2>2. PICK m : Takes(w, [job[w] EXCEPT !.todo = @ \ {p}, !.made = m])
      BY <1>4 DEF ProcessPhoto
    <2> DEFINE j == [job[w] EXCEPT !.todo = @ \ {p}, !.made = m]
    <2>3. /\ j.step \in {"write", "process"} /\ j.session = job[w].session
          /\ j.todo \subseteq PhotosOf(job[w].session)
      BY <1>4, <2>1 DEF ProcessPhoto, Jobs
    <2>4. UNCHANGED <<row, status, asked, begun>>
      BY <1>4 DEF ProcessPhoto
    <2> QED BY <2>1, <2>2, <2>3, <2>4, UploadGoesOn
  <1>5. ASSUME NEW w \in Workers, NEW p \in Photos, DeletePhoto(w, p)
        PROVE  KnownOK' /\ JobsOK'
    <2> DEFINE j == [Idle EXCEPT !.step = "original", !.photo = p,
                                 !.made = IF row[p] = "previewed" THEN {p} ELSE {}]
    <2>1. Takes(w, j) /\ j.step = "original" /\ j.photo = p
      BY <1>5 DEF DeletePhoto, Idle
    <2>2. job'[w] = j
      BY <2>1, TakesOne
    <2>3. /\ UNCHANGED <<begun, row, status>> /\ Rows' = Rows
          /\ asked' = asked \cup {p} /\ p \in Rows
      BY <1>5, AskedInTime DEF DeletePhoto, Rows
    <2>4. UploadOK(w)' /\ DeleteOK(w)'
      BY <2>1, <2>2, <2>3 DEF UploadOK, Uploading, DeleteOK, Deleting
    <2>5. \A v \in Workers : Selling(v)
      BY <1>0, <2>3
    <2> QED BY <2>1, <2>3, <2>4, <2>5, QuietStep
  <1>6. ASSUME NEW w \in Workers, NEW o \in Orders, Fulfill(w, o)
        PROVE  KnownOK' /\ JobsOK'
    <2> DEFINE j == [Idle EXCEPT !.step = "fulfill", !.order = o]
    <2>1. Takes(w, j) /\ j.step = "fulfill" /\ j.order = o
      BY <1>6 DEF Fulfill, Idle
    <2>2. job'[w] = j /\ \A u \in Workers \ {w} : job'[u] = job[u]
      BY <2>1, TakesOne
    <2>3. /\ UNCHANGED <<begun, row, status, asked>> /\ Rows' = Rows
          /\ \A p : Known(p)' <=> Known(p)
      BY <1>6 DEF Fulfill, Rows, Known
    <2>4. KnownOK'
      BY <2>3 DEF KnownOK
    <2>5. status[o] = "paid" /\ Items[o] \subseteq Rows /\ \A v \in Workers : job[v].order # o
      BY <1>6 DEF Fulfill, Insertable
    <2>6. FulfillOK(w)'
      BY <2>1, <2>2, <2>3, <2>5 DEF FulfillOK
    <2>7. UploadOK(w)' /\ DeleteOK(w)'
      BY <2>1, <2>2 DEF UploadOK, Uploading, DeleteOK, Deleting
    <2>8. ASSUME NEW v \in Workers, v # w
          PROVE  UploadOK(v)' /\ FulfillOK(v)' /\ DeleteOK(v)'
      <3>1. Selling(v)
        BY <1>0, <2>3
      <3>2. Uploading(v) => \A p \in PhotosOf(job[v].session) : ~Known(p)'
        BY <2>3 DEF JobsOK, UploadOK
      <3> QED BY <2>1, <2>3, <2>5, <2>8, <3>1, <3>2, OtherWorker
    <2> QED BY <2>4, <2>6, <2>7, <2>8 DEF JobsOK
  <1>7. ASSUME NEW w \in Workers, CommitUpload(w)
        PROVE  KnownOK' /\ JobsOK'
    <2> DEFINE s == job[w].session
    <2>1. Uploading(w) /\ s \in begun /\ UploadOK(w)
      BY <1>7 DEF CommitUpload, Uploading, JobsOK, UploadOK
    <2>2. Takes(w, Idle) /\ UNCHANGED <<status, asked, begun>>
      BY <1>7 DEF CommitUpload
    <2>3. \A p \in Photos : SessionOf[p] # s => row'[p] = row[p]
      BY <1>7 DEF CommitUpload
    <2>4. \A p \in Photos : Known(p)' => Known(p) \/ SessionOf[p] = s
      BY <2>2, <2>3 DEF Known, Rows
    <2>5. KnownOK'
      BY <2>1, <2>2, <2>4 DEF KnownOK
    <2>6. Rows \subseteq Rows'
      <3>1. \A p \in Rows : SessionOf[p] # s
        BY <2>1 DEF UploadOK, Known, PhotosOf, Rows
      <3> QED BY <2>3, <3>1 DEF Rows
    <2>7. ASSUME NEW v \in Workers, v # w
          PROVE  UploadOK(v)' /\ FulfillOK(v)' /\ DeleteOK(v)'
      <3>1. Uploading(v) => job[v].session # s
        BY <2>1, <2>7 DEF UploadOK
      <3>2. Uploading(v) => \A p \in PhotosOf(job[v].session) : ~Known(p)'
        BY <2>4, <3>1 DEF JobsOK, UploadOK, PhotosOf
      <3>3. Selling(v)
        BY <2>2, <2>6 DEF JobsOK, FulfillOK
      <3>4. Idle.step = "idle"
        BY DEF Idle
      <3> QED BY <2>2, <2>7, <3>2, <3>3, <3>4, OtherWorker
    <2> QED BY <2>2, <2>5, <2>7, IdleOK DEF JobsOK
  <1>8. ASSUME NEW w \in Workers, CommitFulfill(w)
        PROVE  KnownOK' /\ JobsOK'
    <2>1. FulfillOK(w) /\ job[w].step = "fulfill"
      BY <1>8 DEF CommitFulfill, JobsOK
    <2>2. Takes(w, Idle) /\ UNCHANGED <<row, asked, begun>> /\ Rows' = Rows
      BY <1>8 DEF CommitFulfill, Rows
    <2>3. status' = [status EXCEPT ![job[w].order] = "captured"]
      BY <1>8 DEF CommitFulfill
    <2>4. \A u \in Orders : status'[u] # "none" => status[u] # "none"
      BY <2>1, <2>3 DEF FulfillOK, TypeOK
    <2>5. \A v \in Workers \ {w} : Selling(v)
      <3> TAKE v \in Workers \ {w}
      <3>1. job[v].step = "fulfill" => job[v].order # job[w].order /\ FulfillOK(v)
        BY <2>1 DEF FulfillOK, JobsOK
      <3> QED BY <2>2, <2>3, <3>1 DEF FulfillOK, TypeOK
    <2>6. Idle.step = "idle"
      BY DEF Idle
    <2> QED BY <2>2, <2>4, <2>5, <2>6, IdleOK, QuietStep
  <1>9. ASSUME NEW w \in Workers, EraseOriginal(w) \/ ErasePreview(w) \/ Cascade(w)
        PROVE  KnownOK' /\ JobsOK'
    <2>1. PICK j : /\ Takes(w, j) /\ j.step \in {"preview", "cascade", "delete"}
                   /\ j.photo = job[w].photo
                   /\ j.step = "delete" => j.loaded = PurchasesOf(job[w].photo)
      <3>1. job[w] \in Jobs
        BY DEF TypeOK
      <3>2. CASE EraseOriginal(w) /\ job[w].made = {}
        BY <3>1, <3>2 DEF EraseOriginal, Jobs
      <3>3. CASE EraseOriginal(w) /\ job[w].made # {}
        BY <3>1, <3>3 DEF EraseOriginal, Jobs
      <3>4. CASE ErasePreview(w)
        BY <3>1, <3>4 DEF ErasePreview, Jobs
      <3>5. CASE Cascade(w)
        <4> DEFINE pairs == PurchasesOf(job[w].photo)
                   j == [job[w] EXCEPT !.step = "delete", !.loaded = pairs]
        <4> HIDE DEF pairs
        <4>1. j.step = "delete" /\ j.photo = job[w].photo /\ j.loaded = pairs
          BY <3>1 DEF Jobs
        <4>2. Takes(w, j)
          BY <3>5 DEF Cascade, pairs
        <4> HIDE DEF j
        <4> QED BY <4>1, <4>2 DEF pairs
      <3> QED BY <1>9, <3>2, <3>3, <3>4, <3>5
    <2>2. UNCHANGED <<row, status, asked, begun>> /\ Rows' = Rows
      BY <1>9 DEF EraseOriginal, ErasePreview, Cascade, Rows
    <2>3. Deleting(w)
      BY <1>9 DEF EraseOriginal, ErasePreview, Cascade, Deleting
    <2>4. job'[w] = j
      BY <2>1, TakesOne
    <2>5. UploadOK(w)' /\ DeleteOK(w)'
      BY <2>1, <2>2, <2>3, <2>4 DEF UploadOK, Uploading, DeleteOK, Deleting, JobsOK, PurchasesOf
    <2>6. \A v \in Workers : Selling(v)
      BY <1>0, <2>2
    <2> QED BY <2>1, <2>2, <2>5, <2>6, QuietStep
  <1>10. ASSUME NEW w \in Workers, CommitDelete(w)
         PROVE  KnownOK' /\ JobsOK'
    <2> DEFINE p == job[w].photo
    <2>1. Takes(w, Idle) /\ UNCHANGED <<status, asked, begun>>
      BY <1>10 DEF CommitDelete
    <2>2. row' = row \/ row' = [row EXCEPT ![p] = "none"]
      BY <1>10 DEF CommitDelete
    <2>3. Rows' \subseteq Rows
      BY <2>2 DEF Rows, TypeOK
    <2>4. \A v \in Workers \ {w} : Selling(v)
      <3> SUFFICES ASSUME NEW v \in Workers \ {w}, job[v].step = "fulfill"
                   PROVE  status'[job[v].order] = "paid" /\ Items[job[v].order] \subseteq Rows'
        OBVIOUS
      <3>1. FulfillOK(v)
        BY DEF JobsOK
      <3>2. p \notin Items[job[v].order]
        BY <1>10 DEF CommitDelete, KeyShared
      <3> QED BY <2>1, <2>2, <3>1, <3>2 DEF FulfillOK, Rows, TypeOK
    <2>5. Idle.step = "idle"
      BY DEF Idle
    <2> QED BY <2>1, <2>3, <2>4, <2>5, IdleOK, QuietStep
  <1>11. ASSUME NEW w \in Workers, Rollback(w)
         PROVE  KnownOK' /\ JobsOK'
    <2>1. Takes(w, Idle) /\ UNCHANGED <<row, status, asked, begun>> /\ Rows' = Rows
      BY <1>11 DEF Rollback, Rows
    <2>2. Idle.step = "idle"
      BY DEF Idle
    <2>3. \A v \in Workers : Selling(v)
      BY <1>0, <2>1
    <2> QED BY <2>1, <2>2, <2>3, IdleOK, QuietStep
  <1>12. CASE UNCHANGED vars
    BY <1>12 DEF vars, KnownOK, Known, Rows, JobsOK, UploadOK, Uploading, FulfillOK, DeleteOK, Deleting
  <1> QED BY <1>1, <1>2, <1>3, <1>4, <1>5, <1>6, <1>7, <1>8, <1>9, <1>10, <1>11, <1>12 DEF Next

-----------------------------------------------------------------------------
(***************************************************************************)
(* Sales follow photos.                                                    *)
(***************************************************************************)

LEMMA SalesStep == LibraryInv /\ [Next]_vars => SalesFollowPhotos'
  <1> SUFFICES ASSUME LibraryInv, [Next]_vars
               PROVE  SalesFollowPhotos'
    OBVIOUS
  <1> TypeOK /\ JobsOK /\ SalesFollowPhotos
    BY DEF LibraryInv
  <1>1. ASSUME UNCHANGED <<row, purchases>>,
               \A o \in Orders : status'[o] = "captured" <=> status[o] = "captured"
        PROVE  SalesFollowPhotos'
    BY <1>1 DEF SalesFollowPhotos, Rows, TypeOK
  <1>2. ASSUME NEW o \in Orders, PlaceOrder(o) \/ BuyerPays(o)
        PROVE  SalesFollowPhotos'
    BY <1>1, <1>2 DEF PlaceOrder, BuyerPays, TypeOK
  <1>3. ASSUME NEW w \in Workers, CommitUpload(w)
        PROVE  SalesFollowPhotos'
    <2>1. UploadOK(w) /\ Uploading(w) /\ UNCHANGED <<purchases, status>>
      BY <1>3 DEF CommitUpload, JobsOK, Uploading
    <2>2. \A p \in Photos : SessionOf[p] # job[w].session => row'[p] = row[p]
      BY <1>3 DEF CommitUpload
    <2>3. \A o \in Orders : status[o] = "captured" => \A p \in Items[o] : row'[p] = row[p]
      <3> SUFFICES ASSUME NEW o \in Orders, status[o] = "captured", NEW p \in Items[o]
                   PROVE  row'[p] = row[p]
        OBVIOUS
      <3>1. p \in Photos /\ Known(p)
        BY LibraryAssumption DEF Known
      <3>2. SessionOf[p] # job[w].session
        BY <2>1, <3>1 DEF UploadOK, PhotosOf
      <3> QED BY <2>2, <3>1, <3>2
    <2> QED BY <2>1, <2>3, LibraryAssumption DEF SalesFollowPhotos, Rows
  <1>4. ASSUME NEW w \in Workers, CommitFulfill(w)
        PROVE  SalesFollowPhotos'
    <2> DEFINE o == job[w].order
    <2>1. o \in Orders /\ status[o] = "paid" /\ Items[o] \subseteq Rows /\ Rows' = Rows
      BY <1>4 DEF CommitFulfill, JobsOK, FulfillOK, Rows
    <2>2. purchases' = purchases \cup ({o} \X Items[o]) /\ status' = [status EXCEPT ![o] = "captured"]
      BY <1>4 DEF CommitFulfill
    <2>3. \A s \in purchases' : status'[s[1]] = "captured" /\ s[2] \in Items[s[1]]
      <3> TAKE s \in purchases'
      <3>1. CASE s \in purchases
        BY <2>1, <2>2, <3>1 DEF SalesFollowPhotos, TypeOK
      <3>2. CASE s \in {o} \X Items[o]
        BY <2>1, <2>2, <3>2 DEF TypeOK
      <3> QED BY <2>2, <3>1, <3>2
    <2>4. ASSUME NEW u \in Orders, status'[u] = "captured", NEW p \in Items[u]
          PROVE  <<u, p>> \in purchases' <=> p \in Rows'
      BY <2>1, <2>2, <2>4 DEF SalesFollowPhotos, TypeOK
    <2> QED BY <2>3, <2>4 DEF SalesFollowPhotos
  <1>5. ASSUME NEW w \in Workers, CommitDelete(w)
        PROVE  SalesFollowPhotos'
    <2> DEFINE p == job[w].photo
    <2>1. DeleteOK(w) /\ Deleting(w) /\ job[w].step = "delete" /\ status' = status
      BY <1>5 DEF CommitDelete, JobsOK, Deleting
    <2>2. CASE UNCHANGED <<row, purchases>>
      BY <1>1, <2>1, <2>2
    <2>3. CASE /\ PurchasesOf(p) \subseteq job[w].loaded
               /\ row' = [row EXCEPT ![p] = "none"]
               /\ purchases' = purchases \ job[w].loaded
      <3>1. \A s \in purchases : s \in purchases' <=> s[2] # p
        BY <2>1, <2>3 DEF DeleteOK, PurchasesOf
      <3>2. \A q \in Photos : q \in Rows' <=> q \in Rows /\ q # p
        BY <2>3 DEF Rows, TypeOK
      <3>3. purchases' \subseteq purchases
        BY <2>3
      <3>4. \A s \in purchases' : status'[s[1]] = "captured" /\ s[2] \in Items[s[1]]
        BY <2>1, <3>3 DEF SalesFollowPhotos
      <3>5. ASSUME NEW u \in Orders, status'[u] = "captured", NEW q \in Items[u]
            PROVE  <<u, q>> \in purchases' <=> q \in Rows'
        <4>1. q \in Photos /\ (<<u, q>> \in purchases <=> q \in Rows)
          BY <2>1, <3>5, LibraryAssumption DEF SalesFollowPhotos
        <4>2. <<u, q>> \in purchases' => <<u, q>> \in purchases
          BY <3>3
        <4>3. <<u, q>> \in purchases => (<<u, q>> \in purchases' <=> q # p)
          BY <3>1
        <4> QED BY <3>2, <4>1, <4>2, <4>3
      <3> QED BY <3>4, <3>5 DEF SalesFollowPhotos
    <2> QED BY <1>5, <2>2, <2>3 DEF CommitDelete
  <1>6. CASE UNCHANGED <<row, purchases, status>>
    BY <1>1, <1>6
  <1> QED BY <1>2, <1>3, <1>4, <1>5, <1>6
          DEF Next, Upload, WriteFile, ProcessPhoto, DeletePhoto, Fulfill,
              EraseOriginal, ErasePreview, Cascade, Rollback, vars

\* The rows of sold photos leave only by deletions that began in time.
LEMMA SoldRowsStep == LibraryInv /\ [Next]_vars => SoldRowsStay'
  <1> SUFFICES ASSUME LibraryInv, [Next]_vars
               PROVE  SoldRowsStay'
    OBVIOUS
  <1> TypeOK /\ JobsOK /\ SoldRowsStay
    BY DEF LibraryInv
  <1>1. ASSUME asked \subseteq asked', Rows \subseteq Rows' \cup asked',
               \A o \in Orders : status'[o] = "captured" => status[o] = "captured"
        PROVE  SoldRowsStay'
    BY <1>1 DEF SoldRowsStay
  <1>2. ASSUME NEW o \in Orders, PlaceOrder(o) \/ BuyerPays(o)
        PROVE  SoldRowsStay'
    BY <1>1, <1>2 DEF PlaceOrder, BuyerPays, TypeOK, Rows
  <1>3. ASSUME NEW w \in Workers, CommitUpload(w)
        PROVE  SoldRowsStay'
    <2>1. UploadOK(w) /\ Uploading(w) /\ UNCHANGED <<status, asked>>
      BY <1>3 DEF CommitUpload, JobsOK, Uploading
    <2>2. \A p \in Rows : SessionOf[p] # job[w].session
      BY <2>1 DEF UploadOK, Known, PhotosOf, Rows
    <2>3. Rows \subseteq Rows'
      BY <1>3, <2>2 DEF CommitUpload, Rows
    <2> QED BY <1>1, <2>1, <2>3
  <1>4. ASSUME NEW w \in Workers, CommitFulfill(w)
        PROVE  SoldRowsStay'
    <2>1. FulfillOK(w) /\ job[w].step = "fulfill" /\ UNCHANGED <<row, asked>> /\ Rows' = Rows
      BY <1>4 DEF CommitFulfill, JobsOK, Rows
    <2>2. \A o \in Orders : status'[o] = "captured" => status[o] = "captured" \/ o = job[w].order
      BY <1>4 DEF CommitFulfill, TypeOK
    <2> QED BY <2>1, <2>2 DEF SoldRowsStay, FulfillOK
  <1>5. ASSUME NEW w \in Workers, CommitDelete(w)
        PROVE  SoldRowsStay'
    <2>1. job[w].photo \in asked /\ UNCHANGED <<status, asked>>
      BY <1>5 DEF CommitDelete, JobsOK, DeleteOK, Deleting
    <2>2. \A p \in Photos \ {job[w].photo} : row'[p] = row[p]
      BY <1>5 DEF CommitDelete, TypeOK
    <2> QED BY <1>1, <2>1, <2>2 DEF Rows
  <1>6. ASSUME UNCHANGED <<row, status>>, asked \subseteq asked'
        PROVE  SoldRowsStay'
    BY <1>1, <1>6 DEF Rows
  <1> QED BY <1>2, <1>3, <1>4, <1>5, <1>6
          DEF Next, Upload, WriteFile, ProcessPhoto, DeletePhoto, Fulfill,
              EraseOriginal, ErasePreview, Cascade, Rollback, vars

\* LibraryInv is inductive.
LEMMA LibraryInvariance == Spec => []LibraryInv
  <1>1. Init => LibraryInv
    <2> SUFFICES ASSUME Init
                 PROVE  LibraryInv
      OBVIOUS
    <2>1. TypeOK
      BY IdleIsJob DEF Init, TypeOK, RowState, OrderState
    <2>2. KnownOK
      BY DEF Init, KnownOK, Known, Rows
    <2>3. JobsOK
      BY DEF Init, JobsOK, UploadOK, FulfillOK, DeleteOK, Uploading, Deleting, Idle
    <2>4. SalesFollowPhotos
      BY DEF Init, SalesFollowPhotos
    <2>5. SoldRowsStay
      BY DEF Init, SoldRowsStay
    <2> QED BY <2>1, <2>2, <2>3, <2>4, <2>5 DEF LibraryInv
  <1>2. LibraryInv /\ [Next]_vars => LibraryInv'
    BY TypeStep, JobsStep, SalesStep, SoldRowsStep DEF LibraryInv
  <1> QED BY <1>1, <1>2, PTL DEF Spec

\* Every variable keeps its type.
THEOREM LibraryTypes == Spec => []TypeOK
  BY LibraryInvariance, PTL DEF LibraryInv

-----------------------------------------------------------------------------
(***************************************************************************)
(* The store, when no two files of an upload have one name.                *)
(***************************************************************************)

\* The files of other photos are elsewhere.
LEMMA OtherKey ==
  ASSUME DistinctKeys, TypeOK, NEW p \in Photos, NEW q \in Photos, p # q, NEW x
  PROVE  /\ [original EXCEPT ![StorageKey(p)] = x][StorageKey(q)] = original[StorageKey(q)]
         /\ [preview EXCEPT ![PreviewKey(p)] = x][PreviewKey(q)] = preview[PreviewKey(q)]
  BY KeysType DEF DistinctKeys, PreviewKey, TypeOK

LEMMA OwnKey ==
  ASSUME TypeOK, NEW p \in Photos, NEW x
  PROVE  /\ [original EXCEPT ![StorageKey(p)] = x][StorageKey(p)] = x
         /\ [preview EXCEPT ![PreviewKey(p)] = x][PreviewKey(p)] = x
  BY KeysType DEF TypeOK

\* Each object still belongs to its photo.
LEMMA ObjectsStep ==
  ASSUME DistinctKeys, LibraryInv, StoreInv, [Next]_vars
  PROVE  ObjectsOK'
  <1> TypeOK /\ JobsOK /\ ObjectsOK
    BY DEF LibraryInv, StoreInv
  <1>1. ASSUME NEW w \in Workers, NEW p \in Photos, WriteFile(w, p)
        PROVE  ObjectsOK'
    BY <1>1, OtherKey, OwnKey DEF WriteFile, ObjectsOK
  <1>2. ASSUME NEW w \in Workers, NEW p \in Photos, ProcessPhoto(w, p)
        PROVE  ObjectsOK'
    <2>1. original' = original /\ original[StorageKey(p)] \in {p, None}
      BY <1>2 DEF ProcessPhoto, ObjectsOK
    <2>2. \/ preview' = preview
          \/ preview' = [preview EXCEPT ![PreviewKey(p)] = original[StorageKey(p)]]
      BY <1>2 DEF ProcessPhoto
    <2> QED BY <2>1, <2>2, OtherKey, OwnKey DEF ObjectsOK
  <1>3. ASSUME NEW w \in Workers, EraseOriginal(w) \/ ErasePreview(w)
        PROVE  ObjectsOK'
    <2>1. job[w].photo \in Photos
      BY <1>3 DEF EraseOriginal, ErasePreview, JobsOK, DeleteOK, Deleting, TypeOK
    <2>2. CASE EraseOriginal(w)
      BY <2>1, <2>2, OtherKey, OwnKey DEF EraseOriginal, ObjectsOK
    <2>3. CASE ErasePreview(w)
      BY <2>1, <2>3, OtherKey, OwnKey DEF ErasePreview, ObjectsOK
    <2> QED BY <1>3, <2>2, <2>3
  <1>4. CASE UNCHANGED <<original, preview>>
    BY <1>4 DEF ObjectsOK
  <1> QED BY <1>1, <1>2, <1>3, <1>4
          DEF Next, PlaceOrder, BuyerPays, Upload, DeletePhoto, Fulfill, CommitUpload,
              CommitFulfill, Cascade, CommitDelete, Rollback, vars

\* A worker's written files are kept by a step of another, or by one that
\* leaves the worker's upload as it is.
LEMMA WrittenStays ==
  ASSUME NEW v \in Workers, WrittenOK(v), job'[v] = job[v],
         Uploading(v) => \A p \in PhotosOf(job[v].session) :
             /\ original[StorageKey(p)] = p => original'[StorageKey(p)] = p
             /\ preview[PreviewKey(p)] = p => preview'[PreviewKey(p)] = p
  PROVE  WrittenOK(v)'
  BY DEF WrittenOK, Uploading

\* What uploads have written is kept.
LEMMA WrittenStep ==
  ASSUME DistinctKeys, LibraryInv, StoreInv, [Next]_vars
  PROVE  \A v \in Workers : WrittenOK(v)'
  <1> SUFFICES ASSUME NEW v \in Workers
               PROVE  WrittenOK(v)'
    OBVIOUS
  <1> TypeOK /\ JobsOK /\ ObjectsOK /\ WrittenOK(v) /\ UploadOK(v) /\ job[v] \in Jobs
    BY DEF LibraryInv, StoreInv, JobsOK, TypeOK
  <1>1. ASSUME UNCHANGED <<original, preview>>, NEW w \in Workers, NEW j, Takes(w, j),
               j.step \notin {"write", "process"}
        PROVE  WrittenOK(v)'
    <2>1. CASE v = w
      <3>1. job'[v] = j
        BY <1>1, <2>1, TakesOne
      <3> QED BY <1>1, <3>1 DEF WrittenOK, Uploading
    <2>2. CASE v # w
      <3>1. job'[v] = job[v]
        BY <1>1, <2>2, TakesOne
      <3> QED BY <1>1, <3>1, WrittenStays
    <2> QED BY <2>1, <2>2
  <1>2. ASSUME NEW w \in Workers, NEW s \in Sessions, Upload(w, s)
        PROVE  WrittenOK(v)'
    <2> DEFINE j == [Idle EXCEPT !.step = "write", !.session = s, !.todo = PhotosOf(s)]
    <2>1. /\ Takes(w, j) /\ j.step = "write" /\ j.session = s /\ j.todo = PhotosOf(s) /\ j.made = {}
          /\ UNCHANGED <<original, preview>>
      BY <1>2 DEF Upload, Idle
    <2>2. job'[w] = j /\ (v # w => job'[v] = job[v])
      BY <2>1, TakesOne
    <2>3. CASE v = w
      BY <2>1, <2>2, <2>3 DEF WrittenOK, Uploading
    <2> QED BY <2>1, <2>2, <2>3, WrittenStays
  <1>3. ASSUME NEW w \in Workers, NEW p \in Photos, WriteFile(w, p)
        PROVE  WrittenOK(v)'
    <2> DEFINE j == IF job[w].todo = {p}
                    THEN [job[w] EXCEPT !.step = "process", !.todo = PhotosOf(job[w].session)]
                    ELSE [job[w] EXCEPT !.todo = @ \ {p}]
    <2>1. Takes(w, j) /\ p \in job[w].todo /\ job[w].step = "write" /\ job[w] \in Jobs
      BY <1>3 DEF WriteFile, TypeOK
    <2>2. original' = [original EXCEPT ![StorageKey(p)] = p] /\ preview' = preview
      BY <1>3 DEF WriteFile
    <2>3. \A q \in Photos : original[StorageKey(q)] = q => original'[StorageKey(q)] = q
      BY <2>2, OtherKey, OwnKey
    <2>4. job'[w] = j /\ (v # w => job'[v] = job[v])
      BY <2>1, TakesOne
    <2>5. CASE v = w
      <3>1. /\ j.session = job[w].session /\ j.made = job[w].made
            /\ j.step = "process" => job[w].todo = {p}
            /\ j.step # "process" => j.todo = job[w].todo \ {p}
        BY <2>1 DEF Jobs
      <3>2. Uploading(w) /\ PhotosOf(job[w].session) \subseteq Photos
        BY <2>1 DEF Uploading, PhotosOf
      <3>3. original'[StorageKey(p)] = p
        BY <2>2, OwnKey
      <3>4. ASSUME NEW q \in PhotosOf(job[w].session), j.step = "process" \/ q \notin j.todo
            PROVE  original'[StorageKey(q)] = q
        <4>1. CASE q = p
          BY <3>3, <4>1
        <4>2. CASE q # p
          <5>1. q \notin job[w].todo
            BY <3>1, <3>4, <4>2
          <5> QED BY <2>3, <2>5, <3>2, <5>1 DEF WrittenOK
        <4> QED BY <4>1, <4>2
      <3>5. \A q \in PhotosOf(job[w].session) : q \in j.made => preview'[PreviewKey(q)] = q
        BY <2>2, <2>5, <3>1, <3>2 DEF WrittenOK
      <3> HIDE DEF j
      <3> QED BY <2>4, <2>5, <3>1, <3>4, <3>5 DEF WrittenOK
    <2>6. CASE v # w
      BY <2>2, <2>3, <2>4, <2>6, WrittenStays DEF PhotosOf
    <2> QED BY <2>5, <2>6
  <1>4. ASSUME NEW w \in Workers, NEW p \in Photos, ProcessPhoto(w, p)
        PROVE  WrittenOK(v)'
    <2> PICK done \in SUBSET {"written", "recorded"} : ProcessPhoto(w, p)!3!(done)
      BY <1>4 DEF ProcessPhoto
    <2> DEFINE j == [job[w] EXCEPT !.todo = @ \ {p},
                                   !.made = IF "recorded" \in done THEN @ \cup {p} ELSE @]
    <2>1. Takes(w, j) /\ p \in job[w].todo /\ job[w].step = "process" /\ original' = original
      BY <1>4 DEF ProcessPhoto
    <2>2. p \in PhotosOf(job[w].session) /\ WrittenOK(w) /\ job[w] \in Jobs
      BY <2>1 DEF JobsOK, UploadOK, Uploading, StoreInv, TypeOK
    <2>3. original[StorageKey(p)] = p
      BY <2>1, <2>2 DEF WrittenOK, Uploading
    <2>4. /\ "recorded" \in done => preview'[PreviewKey(p)] = p
          /\ \A q \in Photos : preview[PreviewKey(q)] = q => preview'[PreviewKey(q)] = q
      BY <2>3, OtherKey, OwnKey
    <2>5. job'[w] = j /\ (v # w => job'[v] = job[v])
      BY <2>1, TakesOne
    <2>6. CASE v = w
      <3>1. /\ j.session = job[w].session /\ j.step = "process"
            /\ j.made \subseteq job[w].made \cup {p}
            /\ p \in j.made => p \in job[w].made \/ "recorded" \in done
        BY <2>1, <2>2 DEF Jobs
      <3>2. PhotosOf(job[w].session) \subseteq Photos
        BY DEF PhotosOf
      <3>3. \A q \in PhotosOf(job[w].session) : original'[StorageKey(q)] = q
        BY <2>1, <2>2 DEF WrittenOK, Uploading
      <3>4. \A q \in PhotosOf(job[w].session) : q \in j.made => preview'[PreviewKey(q)] = q
        BY <2>1, <2>2, <2>4, <3>1, <3>2 DEF WrittenOK, Uploading
      <3> HIDE DEF j
      <3> QED BY <2>5, <2>6, <3>1, <3>3, <3>4 DEF WrittenOK
    <2>7. CASE v # w
      BY <2>1, <2>4, <2>5, <2>7, WrittenStays DEF PhotosOf
    <2> QED BY <2>6, <2>7
  <1>5. ASSUME NEW w \in Workers, EraseOriginal(w) \/ ErasePreview(w)
        PROVE  WrittenOK(v)'
    <2> DEFINE p == job[w].photo
    <2>1. p \in Photos /\ p \in asked
      BY <1>5 DEF EraseOriginal, ErasePreview, JobsOK, DeleteOK, Deleting, TypeOK
    <2>2. Uploading(v) => p \notin PhotosOf(job[v].session)
      BY <2>1 DEF UploadOK, Known
    <2>3. \A q \in Photos \ {p} :
             /\ original'[StorageKey(q)] = original[StorageKey(q)]
             /\ preview'[PreviewKey(q)] = preview[PreviewKey(q)]
      <3>1. CASE EraseOriginal(w)
        BY <2>1, <3>1, OtherKey DEF EraseOriginal
      <3>2. CASE ErasePreview(w)
        BY <2>1, <3>2, OtherKey DEF ErasePreview
      <3> QED BY <1>5, <3>1, <3>2
    <2>4. \E j : Takes(w, j) /\ j.step \in {"preview", "cascade"}
      <3>1. job[w] \in Jobs
        BY DEF TypeOK
      <3>2. CASE EraseOriginal(w) /\ job[w].made = {}
        BY <3>1, <3>2 DEF EraseOriginal, Jobs
      <3>3. CASE EraseOriginal(w) /\ job[w].made # {}
        BY <3>1, <3>3 DEF EraseOriginal, Jobs
      <3>4. CASE ErasePreview(w)
        BY <3>1, <3>4 DEF ErasePreview, Jobs
      <3> QED BY <1>5, <3>2, <3>3, <3>4
    <2>5. PICK j : Takes(w, j) /\ j.step \in {"preview", "cascade"}
      BY <2>4
    <2>6. job'[w] = j /\ (v # w => job'[v] = job[v])
      BY <2>5, TakesOne
    <2>7. CASE v = w
      BY <2>5, <2>6, <2>7 DEF WrittenOK, Uploading
    <2>8. CASE v # w
      BY <2>2, <2>3, <2>6, <2>8, WrittenStays DEF PhotosOf
    <2> QED BY <2>7, <2>8
  <1>6. ASSUME NEW w \in Workers, Cascade(w)
        PROVE  WrittenOK(v)'
    <2> DEFINE j == [job[w] EXCEPT !.step = "delete", !.loaded = PurchasesOf(job[w].photo)]
    <2>1. j.step = "delete"
      BY DEF TypeOK, Jobs
    <2> QED BY <1>1, <1>6, <2>1 DEF Cascade
  <1>7. ASSUME NEW w \in Workers,
               CommitUpload(w) \/ CommitFulfill(w) \/ CommitDelete(w) \/ Rollback(w)
        PROVE  WrittenOK(v)'
    <2>1. Idle.step = "idle"
      BY DEF Idle
    <2> QED BY <1>1, <1>7, <2>1 DEF CommitUpload, CommitFulfill, CommitDelete, Rollback
  <1>8. ASSUME NEW w \in Workers, NEW p \in Photos, DeletePhoto(w, p)
        PROVE  WrittenOK(v)'
    <2>1. [Idle EXCEPT !.step = "original", !.photo = p,
                       !.made = IF row[p] = "previewed" THEN {p} ELSE {}].step = "original"
      BY DEF Idle
    <2> QED BY <1>1, <1>8, <2>1 DEF DeletePhoto
  <1>9. ASSUME NEW w \in Workers, NEW o \in Orders, Fulfill(w, o)
        PROVE  WrittenOK(v)'
    <2>1. [Idle EXCEPT !.step = "fulfill", !.order = o].step = "fulfill"
      BY DEF Idle
    <2> QED BY <1>1, <1>9, <2>1 DEF Fulfill
  <1>10. CASE UNCHANGED <<job, original, preview>>
    BY <1>10 DEF WrittenOK, Uploading
  <1> QED BY <1>2, <1>3, <1>4, <1>5, <1>6, <1>7, <1>8, <1>9, <1>10
          DEF Next, PlaceOrder, BuyerPays, vars

\* Photos nobody asked to delete are kept.
LEMMA KeptStep ==
  ASSUME DistinctKeys, LibraryInv, StoreInv, [Next]_vars
  PROVE  KeptUnlessAsked'
  <1> TypeOK /\ JobsOK /\ KeptUnlessAsked
    BY DEF LibraryInv, StoreInv
  <1>1. ASSUME asked \subseteq asked',
               \A p \in Rows' \ asked' :
                 /\ p \in Rows /\ row'[p] = row[p]
                 /\ original[StorageKey(p)] = p => original'[StorageKey(p)] = p
                 /\ preview[PreviewKey(p)] = p => preview'[PreviewKey(p)] = p
        PROVE  KeptUnlessAsked'
    BY <1>1 DEF KeptUnlessAsked
  <1>2. ASSUME NEW w \in Workers, NEW p \in Photos, WriteFile(w, p)
        PROVE  KeptUnlessAsked'
    <2>1. \A q \in Photos : original[StorageKey(q)] = q => original'[StorageKey(q)] = q
      BY <1>2, OtherKey, OwnKey DEF WriteFile
    <2> QED BY <1>1, <1>2, <2>1 DEF WriteFile, Rows
  <1>3. ASSUME NEW w \in Workers, NEW p \in Photos, ProcessPhoto(w, p)
        PROVE  KeptUnlessAsked'
    <2>1. Uploading(w) /\ p \in PhotosOf(job[w].session) /\ ~Known(p)
      BY <1>3 DEF ProcessPhoto, JobsOK, UploadOK, Uploading
    <2>2. /\ UNCHANGED <<row, asked, original>> /\ Rows' = Rows
          /\ \/ preview' = preview
             \/ preview' = [preview EXCEPT ![PreviewKey(p)] = original[StorageKey(p)]]
      BY <1>3 DEF ProcessPhoto, Rows
    <2>3. \A q \in Rows : q # p /\ q \in Photos
      BY <2>1 DEF Known, Rows
    <2>4. \A q \in Rows : preview'[PreviewKey(q)] = preview[PreviewKey(q)]
      BY <1>3, <2>2, <2>3, OtherKey, ZenonT(30)
    <2> QED BY <1>1, <2>2, <2>4
  <1>4. ASSUME NEW w \in Workers, EraseOriginal(w) \/ ErasePreview(w)
        PROVE  KeptUnlessAsked'
    <2> DEFINE p == job[w].photo
    <2>1. p \in Photos /\ p \in asked
      BY <1>4 DEF EraseOriginal, ErasePreview, JobsOK, DeleteOK, Deleting, TypeOK
    <2>2. UNCHANGED <<row, asked>> /\ Rows' = Rows
      BY <1>4 DEF EraseOriginal, ErasePreview, Rows
    <2>3. \A q \in Photos \ {p} :
             /\ original'[StorageKey(q)] = original[StorageKey(q)]
             /\ preview'[PreviewKey(q)] = preview[PreviewKey(q)]
      <3>1. CASE EraseOriginal(w)
        BY <2>1, <3>1, OtherKey DEF EraseOriginal
      <3>2. CASE ErasePreview(w)
        BY <2>1, <3>2, OtherKey DEF ErasePreview
      <3> QED BY <1>4, <3>1, <3>2
    <2> QED BY <1>1, <2>1, <2>2, <2>3 DEF Rows
  <1>5. ASSUME NEW w \in Workers, CommitUpload(w)
        PROVE  KeptUnlessAsked'
    <2> DEFINE s == job[w].session
    <2>1. /\ WrittenOK(w) /\ Uploading(w) /\ job[w].step = "process"
          /\ UNCHANGED <<original, preview, asked>>
      BY <1>5 DEF CommitUpload, StoreInv, Uploading
    <2>2. row' = [p \in Photos |-> IF SessionOf[p] = s THEN Processed(p, job[w].made) ELSE row[p]]
      BY <1>5 DEF CommitUpload
    <2>3. ASSUME NEW p \in Rows' \ asked'
          PROVE  /\ original'[StorageKey(p)] = p
                 /\ row'[p] = "previewed" => preview'[PreviewKey(p)] = p
      <3>1. p \in Photos
        BY DEF Rows
      <3>2. CASE SessionOf[p] = s
        <4>1. p \in PhotosOf(s)
          BY <3>1, <3>2 DEF PhotosOf
        <4>2. row'[p] = "previewed" => p \in job[w].made
          BY <2>2, <3>1, <3>2 DEF Processed
        <4> QED BY <2>1, <4>1, <4>2 DEF WrittenOK
      <3>3. CASE SessionOf[p] # s
        <4>1. row'[p] = row[p] /\ p \in Rows \ asked
          BY <2>1, <2>2, <2>3, <3>1, <3>3 DEF Rows
        <4> QED BY <2>1, <4>1 DEF KeptUnlessAsked
      <3> QED BY <3>2, <3>3
    <2> QED BY <2>3 DEF KeptUnlessAsked
  <1>6. ASSUME NEW w \in Workers, CommitDelete(w)
        PROVE  KeptUnlessAsked'
    <2>1. \A p \in Rows' : p \in Rows /\ row'[p] = row[p]
      BY <1>6 DEF CommitDelete, Rows, TypeOK
    <2> QED BY <1>1, <1>6, <2>1 DEF CommitDelete
  <1>7. ASSUME UNCHANGED <<row, original, preview>>, asked \subseteq asked'
        PROVE  KeptUnlessAsked'
    BY <1>1, <1>7 DEF Rows
  <1> QED BY <1>2, <1>3, <1>4, <1>5, <1>6, <1>7
          DEF Next, PlaceOrder, BuyerPays, Upload, DeletePhoto, Fulfill, CommitFulfill,
              Cascade, Rollback, vars

\* StoreInv is inductive beside LibraryInv.
LEMMA StoreInvariance ==
  ASSUME DistinctKeys
  PROVE  Spec => [](LibraryInv /\ StoreInv)
  <1>1. Init => StoreInv
    BY KeysType DEF Init, StoreInv, ObjectsOK, KeptUnlessAsked, WrittenOK, Uploading, Rows, Idle
  <1>2. LibraryInv /\ StoreInv /\ [Next]_vars => StoreInv'
    BY DistinctKeys, ObjectsStep, KeptStep, WrittenStep DEF StoreInv
  <1> QED BY <1>1, <1>2, LibraryInvariance, PTL DEF Spec

\* If no two files of an upload have one name, a photo nobody asked to delete
\* keeps its original and preview, whatever fails or dies beside it.
THEOREM PhotosAreKept ==
  ASSUME DistinctKeys
  PROVE  Spec => []KeptUnlessAsked
  BY DistinctKeys, StoreInvariance, PTL DEF StoreInv

\* If no two files of an upload have one name, the buyer of a captured order
\* downloads each of its photos for good, except those whose deletion had begun
\* before the capture, however uploads, sales and deletions interleave and die.
THEOREM SoldPhotosStay ==
  ASSUME DistinctKeys
  PROVE  Spec => []SoldStaysUnlessAsked
  <1>1. LibraryInv /\ StoreInv => SoldStaysUnlessAsked
    <2> SUFFICES ASSUME LibraryInv, StoreInv, NEW o \in Orders, status[o] = "captured",
                        NEW p \in Items[o] \ asked
                 PROVE  p \in Rows /\ Downloaded(o, p) = p
      BY DEF SoldStaysUnlessAsked
    <2>1. p \in Rows
      BY DEF LibraryInv, SoldRowsStay
    <2>2. <<o, p>> \in purchases
      BY <2>1 DEF LibraryInv, SalesFollowPhotos
    <2>3. original[StorageKey(p)] = p
      BY <2>1 DEF StoreInv, KeptUnlessAsked
    <2> QED BY <2>1, <2>2, <2>3 DEF Downloaded
  <1> QED BY <1>1, DistinctKeys, StoreInvariance, PTL

\* If no two files of an upload have one name, nobody is ever shown or sold
\* another photo under a photo's name.
THEOREM OwnBytes ==
  ASSUME DistinctKeys
  PROVE  Spec => []OwnBytesOnly
  <1>1. ObjectsOK => OwnBytesOnly
    BY DEF ObjectsOK, OwnBytesOnly, Shown, Downloaded
  <1> QED BY <1>1, DistinctKeys, StoreInvariance, PTL DEF StoreInv
=============================================================================

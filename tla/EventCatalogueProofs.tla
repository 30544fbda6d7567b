------------------------ MODULE EventCatalogueProofs ------------------------
(* Theorems about EventCatalogue, for any events, meetings and transactions. *)
EXTENDS EventCatalogue, TLAPS

(***************************************************************************)
(* The invariant.                                                          *)
(***************************************************************************)

\* Rows and drafts have the table's columns.
Shapes ==
    /\ DOMAIN row = Events /\ \A e \in Events : DOMAIN row[e] = Columns
    /\ DOMAIN draft = Workers
    /\ \A w \in Workers : DOMAIN draft[w] = Events /\ \A e \in Events : DOMAIN draft[w][e] = Columns
    /\ DOMAIN job = Workers

\* A transaction only writes rows that exist then.
DraftsExist == \A w \in Workers, e \in Events : e \in Changed(w) => Exists(draft[w][e])

\* What each transaction would commit has no identity twice.
ViewsUnique ==
    \A w \in Workers, e, f \in Events, k \in Keys :
        e # f /\ Seen(w, e)[k] # None => Seen(w, e)[k] # Seen(w, f)[k]

\* Two transactions write different rows, and none takes an identity that another
\* takes or gives up.
DraftsApart ==
    \A v, w \in Workers : v # w =>
        \A e \in Changed(v), f \in Changed(w) :
            e # f /\ \A k \in Keys : draft[v][e][k] # None => draft[v][e][k] \notin {draft[w][f][k], row[f][k]}

Named(v) == "slug" \in DOMAIN v /\ v.slug # None

\* What is to be inserted has a slug, and what is to be updated exists.
EntryInv(w, j) ==
    /\ DOMAIN j = DOMAIN Idle
    /\ j.step # "flush" => j.target = None
    /\ \A v \in j.todo : Named(v)
    /\ j.step = "flush" /\ j.target = None => Named(j.entry)
    /\ j.step = "flush" /\ j.target # None =>
          /\ j.target \in Events /\ Exists(Seen(w, j.target))
          /\ "slug" \in DOMAIN j.entry => j.entry.slug # None

EntriesOK == \A w \in Workers : EntryInv(w, job[w])

RowsInv == DraftsExist /\ UniqueIdentities /\ ViewsUnique /\ DraftsApart
CatalogueInv == Shapes /\ RowsInv /\ EntriesOK

LEMMA KeyColumns == Keys \subseteq Columns /\ "slug" \in Keys /\ \A k \in Keys : NoEvent[k] = None
  BY DEF Keys, Columns, NoEvent

LEMMA NoEventShape == DOMAIN NoEvent = Columns
  BY DEF NoEvent, Columns

\* A written row has the table's columns, and the slug of the entry or of the row.
LEMMA WriteShape ==
  ASSUME NEW r, NEW v, NEW columns
  PROVE  /\ DOMAIN Write(r, v, columns) = Columns
         /\ Write(r, v, columns).slug = IF "slug" \in columns THEN v.slug ELSE r.slug
  BY DEF Write, Columns

LEMMA EntryNames ==
  /\ \A m \in Meetings : \A l, s : Named(EquipeValues(m, l, s))
  /\ \A t \in TdbIds : Named(TdbValues(t))
  /\ \A m : "slug" \notin DOMAIN MatchValues(m) /\ "slug" \notin DOMAIN UnmatchValues(m)
  <1>1. None \notin Meetings /\ None \notin TdbIds
    BY CatalogueAssumption
  <1>2. ASSUME NEW m \in Meetings, NEW l, NEW s
        PROVE  Named(EquipeValues(m, l, s))
    BY <1>1 DEF Named, EquipeValues
  <1>3. ASSUME NEW t \in TdbIds
        PROVE  Named(TdbValues(t))
    BY <1>1 DEF Named, TdbValues
  <1>4. ASSUME NEW m
        PROVE  "slug" \notin DOMAIN MatchValues(m) /\ "slug" \notin DOMAIN UnmatchValues(m)
    BY DEF MatchValues, UnmatchValues
  <1> QED
    BY <1>2, <1>3, <1>4

(***************************************************************************)
(* Frames.                                                                 *)
(***************************************************************************)

LEMMA RowsFrame ==
  ASSUME RowsInv, UNCHANGED <<row, draft>>
  PROVE  RowsInv'
  <1>1. \A w : Changed(w)' = Changed(w)
    BY DEF Changed
  <1>2. \A w, e : Seen(w, e)' = Seen(w, e)
    BY <1>1 DEF Seen
  <1> QED
    BY <1>1, <1>2 DEF RowsInv, DraftsExist, UniqueIdentities, ViewsUnique, DraftsApart, Exists

LEMMA EntryKept ==
  ASSUME NEW w, NEW j, EntryInv(w, j), \A e \in Events : Exists(Seen(w, e)) => Exists(Seen(w, e))'
  PROVE  EntryInv(w, j)'
  BY DEF EntryInv, Named

LEMMA TakesEntries ==
  ASSUME Shapes, EntriesOK, NEW w \in Workers, NEW j, Takes(w, j), EntryInv(w, j)',
         \A v \in Workers \ {w}, e \in Events : Exists(Seen(v, e)) => Exists(Seen(v, e))'
  PROVE  EntriesOK' /\ DOMAIN job' = Workers
  <1>1. DOMAIN job' = Workers /\ job'[w] = j /\ \A v \in Workers \ {w} : job'[v] = job[v]
    BY DEF Shapes, Takes
  <1>2. ASSUME NEW v \in Workers, NEW k, k = job'[v]
        PROVE  EntryInv(v, k)'
    <2>1. CASE v = w
      BY <1>1, <1>2, <2>1
    <2>2. CASE v # w
      <3>1. EntryInv(v, k)
        BY <1>1, <1>2, <2>2 DEF EntriesOK
      <3> QED
        BY <2>2, <3>1, EntryKept
    <2> QED
      BY <2>1, <2>2
  <1> QED
    BY <1>1, <1>2 DEF EntriesOK

LEMMA IdleEntry ==
  ASSUME NEW w
  PROVE  EntryInv(w, Idle)
  BY DEF EntryInv, Idle

LEMMA ProceedEntry ==
  ASSUME NEW w, NEW v, NEW j, EntryInv(v, j)
  PROVE  EntryInv(w, Proceed(j))
  <1> DEFINE p == Proceed(j)
  <1>1. DOMAIN p = DOMAIN Idle /\ p.step # "flush" /\ p.target = None /\ p.todo = j.todo
    BY DEF EntryInv, Proceed, Idle
  <1> HIDE DEF p
  <1>2. EntryInv(w, p)
    BY <1>1 DEF EntryInv
  <1> QED
    BY <1>2 DEF p

(***************************************************************************)
(* A statement writes a row.                                               *)
(***************************************************************************)

LEMMA WriteRow ==
  ASSUME Shapes, RowsInv, NEW w \in Workers, NEW e \in Events, NEW r,
         DOMAIN r = Columns, r.slug # None, Writes(w, e, r), UNCHANGED row
  PROVE  /\ DOMAIN draft' = Workers
         /\ \A v \in Workers : DOMAIN draft'[v] = Events /\ \A f \in Events : DOMAIN draft'[v][f] = Columns
         /\ Changed(w)' = Changed(w) \cup {e}
         /\ \A v \in Workers \ {w} : Changed(v)' = Changed(v) /\ draft'[v] = draft[v]
         /\ Seen(w, e)' = r /\ draft'[w][e] = r
         /\ \A f \in Events \ {e} : Seen(w, f)' = Seen(w, f) /\ draft'[w][f] = draft[w][f]
         /\ \A v \in Workers \ {w}, f \in Events : Seen(v, f)' = Seen(v, f)
         /\ \A v \in Workers, f \in Events : Exists(Seen(v, f)) => Exists(Seen(v, f))'
  <1>1. draft' = [draft EXCEPT ![w][e] = r]
    BY DEF Writes
  <1>2. /\ DOMAIN draft' = Workers /\ draft'[w] = [draft[w] EXCEPT ![e] = r]
        /\ \A v \in Workers \ {w} : draft'[v] = draft[v]
    BY <1>1 DEF Shapes
  <1>3. /\ DOMAIN draft'[w] = Events /\ draft'[w][e] = r
        /\ \A f \in Events \ {e} : draft'[w][f] = draft[w][f]
    BY <1>2 DEF Shapes
  <1>4. NoEvent' = NoEvent /\ r # NoEvent
    BY DEF NoEvent
  <1>5. Changed(w)' = Changed(w) \cup {e}
    BY <1>3, <1>4 DEF Changed
  <1>6. \A v \in Workers \ {w} : Changed(v)' = Changed(v)
    BY <1>2, <1>4 DEF Changed
  <1>7. /\ Seen(w, e)' = r
        /\ \A f \in Events \ {e} : Seen(w, f)' = Seen(w, f)
    BY <1>3, <1>5 DEF Seen
  <1>8. \A v \in Workers \ {w}, f \in Events : Seen(v, f)' = Seen(v, f)
    BY <1>2, <1>6 DEF Seen
  <1>9. \A v \in Workers, f \in Events : Exists(Seen(v, f)) => Exists(Seen(v, f))'
    BY <1>7, <1>8 DEF Exists
  <1>10. \A v \in Workers : DOMAIN draft'[v] = Events /\ \A f \in Events : DOMAIN draft'[v][f] = Columns
    <2>1. ASSUME NEW v \in Workers
          PROVE  DOMAIN draft'[v] = Events /\ \A f \in Events : DOMAIN draft'[v][f] = Columns
      <3>1. CASE v # w
        <4>1. draft'[v] = draft[v]
          BY <1>2, <3>1
        <4> QED
          BY <4>1 DEF Shapes
      <3>2. CASE v = w
        <4>1. ASSUME NEW f \in Events
              PROVE  DOMAIN draft'[w][f] = Columns
          <5>1. CASE f = e
            BY <1>3, <5>1
          <5>2. CASE f # e
            BY <1>3, <5>2 DEF Shapes
          <5> QED
            BY <5>1, <5>2
        <4> QED
          BY <1>3, <3>2, <4>1
      <3> QED
        BY <3>1, <3>2
    <2> QED
      BY <2>1
  <1> QED
    BY <1>2, <1>3, <1>5, <1>6, <1>7, <1>8, <1>9, <1>10

\* The constraints and the locks keep identities unique and apart.
LEMMA WriteUnique ==
  ASSUME Shapes, RowsInv, NEW w \in Workers, NEW e \in Events, NEW r,
         DOMAIN r = Columns, r.slug # None, Writes(w, e, r), UNCHANGED row
  PROVE  RowsInv'
  <1>1. /\ Changed(w)' = Changed(w) \cup {e}
        /\ \A v \in Workers \ {w} : Changed(v)' = Changed(v) /\ draft'[v] = draft[v]
        /\ Seen(w, e)' = r /\ draft'[w][e] = r
        /\ \A f \in Events \ {e} : Seen(w, f)' = Seen(w, f) /\ draft'[w][f] = draft[w][f]
        /\ \A v \in Workers \ {w}, f \in Events : Seen(v, f)' = Seen(v, f)
    BY WriteRow
  <1>2. \A v \in Workers \ {w} : e \notin Changed(v)
    BY DEF Writes, Holds
  <1>3. ASSUME NEW v \in Workers \ {w}, NEW f \in Changed(v), NEW k \in Keys, r[k] # None
        PROVE  r[k] \notin {draft[v][f][k], row[f][k]}
    BY <1>2, <1>3 DEF Writes, Holds
  <1>4. ASSUME NEW f \in Events \ {e}, NEW k \in Keys, r[k] # None
        PROVE  Seen(w, f)[k] # r[k]
    BY <1>4 DEF Writes, Duplicate
  <1>5. DraftsExist'
    <2>1. ASSUME NEW v \in Workers, NEW f \in Events, f \in Changed(v)'
          PROVE  draft'[v][f].slug # None
      <3>1. CASE v = w /\ f = e
        BY <1>1, <3>1
      <3>2. CASE v # w \/ f # e
        <4>1. f \in Changed(v) /\ draft'[v][f] = draft[v][f]
          BY <1>1, <2>1, <3>2
        <4> QED
          BY <4>1 DEF RowsInv, DraftsExist, Exists
      <3> QED
        BY <3>1, <3>2
    <2> QED
      BY <2>1 DEF DraftsExist, Exists
  <1>6. UniqueIdentities'
    BY DEF RowsInv, UniqueIdentities
  <1>7. ViewsUnique'
    <2>1. ASSUME NEW v \in Workers, NEW f \in Events, NEW g \in Events, NEW k \in Keys, f # g, Seen(v, f)'[k] # None
          PROVE  Seen(v, f)'[k] # Seen(v, g)'[k]
      <3>1. CASE v # w
        BY <1>1, <2>1, <3>1 DEF RowsInv, ViewsUnique
      <3>2. CASE v = w /\ f = e
        BY <1>1, <1>4, <2>1, <3>2
      <3>3. CASE v = w /\ g = e
        BY <1>1, <1>4, <2>1, <3>3
      <3>4. CASE v = w /\ f # e /\ g # e
        BY <1>1, <2>1, <3>4 DEF RowsInv, ViewsUnique
      <3> QED
        BY <3>1, <3>2, <3>3, <3>4
    <2> QED
      BY <2>1 DEF ViewsUnique
  <1>8. DraftsApart'
    <2>1. ASSUME NEW u \in Workers, NEW v \in Workers, u # v, NEW f \in Changed(u)', NEW g \in Changed(v)'
          PROVE  f # g /\ \A k \in Keys : draft'[u][f][k] # None => draft'[u][f][k] \notin {draft'[v][g][k], row[g][k]}
      <3>1. CASE ~(u = w /\ f = e) /\ ~(v = w /\ g = e)
        <4>1. f \in Changed(u) /\ g \in Changed(v)
          BY <1>1, <2>1, <3>1
        <4>2. draft'[u][f] = draft[u][f] /\ draft'[v][g] = draft[v][g]
          BY <1>1, <3>1, <4>1 DEF Changed
        <4> QED
          BY <2>1, <4>1, <4>2 DEF RowsInv, DraftsApart
      <3>2. CASE u = w /\ f = e
        <4>1. v \in Workers \ {w} /\ g \in Changed(v) /\ draft'[v] = draft[v]
          BY <1>1, <2>1, <3>2
        <4> QED
          BY <1>1, <1>2, <1>3, <3>2, <4>1
      <3>3. CASE v = w /\ g = e
        <4>1. u \in Workers \ {w} /\ f \in Changed(u) /\ draft'[u] = draft[u] /\ e \notin Changed(u) /\ f # e
          BY <1>1, <1>2, <2>1, <3>3
        <4>2. ASSUME NEW k \in Keys, draft[u][f][k] # None
              PROVE  draft[u][f][k] # r[k] /\ draft[u][f][k] # row[e][k]
          <5>1. draft[u][f][k] # r[k]
            BY <1>3, <4>1, <4>2
          <5>2. Seen(u, f) = draft[u][f] /\ Seen(u, e) = row[e] /\ f \in Events
            BY <4>1 DEF Seen, Changed
          <5> QED
            BY <4>1, <4>2, <5>1, <5>2 DEF RowsInv, ViewsUnique
        <4> QED
          BY <1>1, <3>3, <4>1, <4>2
      <3> QED
        BY <3>1, <3>2, <3>3
    <2>2. row' = row
      OBVIOUS
    <2> QED
      BY <2>1, <2>2 DEF DraftsApart
  <1> QED
    BY <1>5, <1>6, <1>7, <1>8 DEF RowsInv

(***************************************************************************)
(* A transaction ends.                                                     *)
(***************************************************************************)

\* What holds of the drafts once transaction w has none, and the others theirs.
LEMMA Cleared ==
  ASSUME Shapes, NEW w \in Workers, RolledBack(w)
  PROVE  /\ DOMAIN draft' = Workers
         /\ \A v \in Workers : DOMAIN draft'[v] = Events /\ \A f \in Events : DOMAIN draft'[v][f] = Columns
         /\ Changed(w)' = {}
         /\ \A v \in Workers \ {w} : Changed(v)' = Changed(v) /\ draft'[v] = draft[v]
  <1>1. draft' = [draft EXCEPT ![w] = [e \in Events |-> NoEvent]]
    BY DEF RolledBack
  <1>2. /\ DOMAIN draft' = Workers /\ draft'[w] = [e \in Events |-> NoEvent]
        /\ \A v \in Workers \ {w} : draft'[v] = draft[v]
    BY <1>1 DEF Shapes
  <1>3. NoEvent' = NoEvent
    BY DEF NoEvent
  <1>4. Changed(w)' = {}
    BY <1>2, <1>3 DEF Changed
  <1>5. \A v \in Workers \ {w} : Changed(v)' = Changed(v)
    BY <1>2, <1>3 DEF Changed
  <1>6. ASSUME NEW v \in Workers
        PROVE  DOMAIN draft'[v] = Events /\ \A f \in Events : DOMAIN draft'[v][f] = Columns
    <2>1. CASE v = w
      BY <1>2, <2>1, NoEventShape
    <2>2. CASE v # w
      <3>1. draft'[v] = draft[v]
        BY <1>2, <2>2
      <3> QED
        BY <3>1 DEF Shapes
    <2> QED
      BY <2>1, <2>2
  <1> QED
    BY <1>2, <1>4, <1>5, <1>6

LEMMA RollbackKeepsRows ==
  ASSUME Shapes, RowsInv, NEW w \in Workers, RolledBack(w), UNCHANGED row
  PROVE  RowsInv' /\ \A v \in Workers \ {w}, e \in Events : Seen(v, e)' = Seen(v, e)
  <1>1. /\ Changed(w)' = {}
        /\ \A v \in Workers \ {w} : Changed(v)' = Changed(v) /\ draft'[v] = draft[v]
    BY Cleared
  <1>2. \A v \in Workers \ {w}, e \in Events : Seen(v, e)' = Seen(v, e)
    BY <1>1 DEF Seen
  <1>3. \A e \in Events : Seen(w, e)' = row[e]
    BY <1>1 DEF Seen
  <1>4. DraftsExist'
    <2>1. ASSUME NEW v \in Workers, NEW e \in Events, e \in Changed(v)'
          PROVE  Exists(draft[v][e]) /\ draft'[v] = draft[v]
      BY <1>1, <2>1 DEF RowsInv, DraftsExist
    <2> QED
      BY <2>1 DEF DraftsExist, Exists
  <1>5. UniqueIdentities'
    BY DEF RowsInv, UniqueIdentities
  <1>6. ViewsUnique'
    <2>1. ASSUME NEW v \in Workers, NEW e \in Events, NEW f \in Events, NEW k \in Keys, e # f, Seen(v, e)'[k] # None
          PROVE  Seen(v, e)'[k] # Seen(v, f)'[k]
      <3>1. CASE v # w
        BY <1>2, <2>1, <3>1 DEF RowsInv, ViewsUnique
      <3>2. CASE v = w
        BY <1>3, <2>1, <3>2 DEF RowsInv, UniqueIdentities
      <3> QED
        BY <3>1, <3>2
    <2> QED
      BY <2>1 DEF ViewsUnique
  <1>7. DraftsApart'
    <2>1. ASSUME NEW u \in Workers, NEW v \in Workers, u # v, NEW e \in Changed(u)', NEW f \in Changed(v)'
          PROVE  e # f /\ \A k \in Keys : draft'[u][e][k] # None => draft'[u][e][k] \notin {draft'[v][f][k], row'[f][k]}
      <3>1. u # w /\ v # w
        BY <1>1, <2>1
      <3>2. e \in Changed(u) /\ f \in Changed(v) /\ draft'[u] = draft[u] /\ draft'[v] = draft[v] /\ row' = row
        BY <1>1, <2>1, <3>1
      <3> QED
        BY <2>1, <3>2 DEF RowsInv, DraftsApart
    <2> QED
      BY <2>1 DEF DraftsApart
  <1> QED
    BY <1>2, <1>4, <1>5, <1>6, <1>7 DEF RowsInv

\* A commit makes one transaction's view everybody's.
LEMMA CommitKeepsRows ==
  ASSUME Shapes, RowsInv, NEW w \in Workers, Commit(w)
  PROVE  /\ RowsInv'
         /\ DOMAIN row' = Events /\ \A e \in Events : DOMAIN row'[e] = Columns
         /\ \A v \in Workers, e \in Events : Exists(Seen(v, e)) => Exists(Seen(v, e))'
  <1>1. /\ Changed(w)' = {}
        /\ \A v \in Workers \ {w} : Changed(v)' = Changed(v) /\ draft'[v] = draft[v]
    BY Cleared DEF Commit
  <1>2. DOMAIN row' = Events /\ \A e \in Events : row'[e] = Seen(w, e)
    BY DEF Commit
  <1>3. \A e \in Events : DOMAIN row'[e] = Columns
    BY <1>2 DEF Seen, Shapes
  <1>4. ASSUME NEW v \in Workers \ {w}, NEW e \in Events
        PROVE  /\ e \in Changed(v) => Seen(v, e)' = draft[v][e] /\ Seen(v, e) = draft[v][e] /\ row'[e] = row[e]
               /\ e \notin Changed(v) => Seen(v, e)' = Seen(w, e) /\ Seen(v, e) = row[e]
    <2>1. e \in Changed(v) => e \notin Changed(w)
      BY DEF RowsInv, DraftsApart
    <2> QED
      BY <1>1, <1>2, <2>1 DEF Seen
  <1>5. \A e \in Events : Seen(w, e)' = Seen(w, e)
    BY <1>1, <1>2 DEF Seen
  <1>6. DraftsExist'
    <2>1. ASSUME NEW v \in Workers, NEW e \in Events, e \in Changed(v)'
          PROVE  Exists(draft[v][e]) /\ draft'[v] = draft[v]
      BY <1>1, <2>1 DEF RowsInv, DraftsExist
    <2> QED
      BY <2>1 DEF DraftsExist, Exists
  <1>7. UniqueIdentities'
    BY <1>2 DEF RowsInv, ViewsUnique, UniqueIdentities
  <1>8. ASSUME NEW v \in Workers \ {w}, NEW e \in Changed(v), NEW f \in Events \ Changed(v), NEW k \in Keys
        PROVE  /\ draft[v][e][k] # None => draft[v][e][k] # Seen(w, f)[k]
               /\ Seen(w, f)[k] # None => draft[v][e][k] # Seen(w, f)[k]
    <2>1. e \in Events
      BY DEF Changed
    <2>2. CASE f \in Changed(w)
      <3>1. Seen(w, f) = draft[w][f]
        BY <2>2 DEF Seen
      <3> QED
        BY <2>1, <2>2, <3>1 DEF RowsInv, DraftsApart
    <2>3. CASE f \notin Changed(w)
      <3>1. Seen(w, f) = Seen(v, f) /\ Seen(v, e) = draft[v][e]
        BY <2>3 DEF Seen
      <3> QED
        BY <2>1, <3>1 DEF RowsInv, ViewsUnique
    <2> QED
      BY <2>2, <2>3
  <1>9. ViewsUnique'
    <2>1. ASSUME NEW v \in Workers, NEW e \in Events, NEW f \in Events, NEW k \in Keys, e # f, Seen(v, e)'[k] # None
          PROVE  Seen(v, e)'[k] # Seen(v, f)'[k]
      <3>1. CASE v = w
        BY <1>5, <2>1, <3>1 DEF RowsInv, ViewsUnique
      <3>2. CASE v # w /\ e \in Changed(v) /\ f \in Changed(v)
        BY <1>4, <2>1, <3>2 DEF RowsInv, ViewsUnique
      <3>3. CASE v # w /\ e \in Changed(v) /\ f \notin Changed(v)
        BY <1>4, <1>8, <2>1, <3>3
      <3>4. CASE v # w /\ e \notin Changed(v) /\ f \in Changed(v)
        BY <1>4, <1>8, <2>1, <3>4
      <3>5. CASE v # w /\ e \notin Changed(v) /\ f \notin Changed(v)
        BY <1>4, <2>1, <3>5 DEF RowsInv, ViewsUnique
      <3> QED
        BY <3>1, <3>2, <3>3, <3>4, <3>5
    <2> QED
      BY <2>1 DEF ViewsUnique
  <1>10. DraftsApart'
    <2>1. ASSUME NEW u \in Workers, NEW v \in Workers, u # v, NEW e \in Changed(u)', NEW f \in Changed(v)'
          PROVE  e # f /\ \A k \in Keys : draft'[u][e][k] # None => draft'[u][e][k] \notin {draft'[v][f][k], row'[f][k]}
      <3>1. u # w /\ v # w
        BY <1>1, <2>1
      <3>2. e \in Changed(u) /\ f \in Changed(v) /\ draft'[u] = draft[u] /\ draft'[v] = draft[v]
        BY <1>1, <2>1, <3>1
      <3>3. row'[f] = row[f]
        BY <1>4, <3>1, <3>2 DEF Changed
      <3> QED
        BY <2>1, <3>2, <3>3 DEF RowsInv, DraftsApart
    <2> QED
      BY <2>1 DEF DraftsApart
  <1>11. ASSUME NEW v \in Workers, NEW e \in Events, Exists(Seen(v, e))
         PROVE  Exists(Seen(v, e)')
    <2>1. CASE v = w
      BY <1>5, <1>11, <2>1
    <2>2. CASE v # w /\ e \in Changed(v)
      BY <1>4, <1>11, <2>2
    <2>3. CASE v # w /\ e \notin Changed(v)
      <3>1. Seen(v, e)' = Seen(w, e) /\ Exists(row[e])
        BY <1>4, <1>11, <2>3
      <3>2. e \in Changed(w) => Exists(draft[w][e])
        BY DEF RowsInv, DraftsExist
      <3> QED
        BY <3>1, <3>2 DEF Seen
    <2> QED
      BY <2>1, <2>2, <2>3
  <1>12. \A v \in Workers, e \in Events : Exists(Seen(v, e)) => Exists(Seen(v, e))'
    BY <1>11 DEF Exists
  <1> QED
    BY <1>2, <1>3, <1>6, <1>7, <1>9, <1>10, <1>12 DEF RowsInv

(***************************************************************************)
(* The last statement of a sync.                                           *)
(***************************************************************************)

LEMMA DeactivateKeepsRows ==
  ASSUME Shapes, RowsInv, NEW w \in Workers, Deactivate(w)
  PROVE  /\ RowsInv'
         /\ DOMAIN draft' = Workers
         /\ \A v \in Workers : DOMAIN draft'[v] = Events /\ \A f \in Events : DOMAIN draft'[v][f] = Columns
         /\ \A v \in Workers, e \in Events : Exists(Seen(v, e)) => Exists(Seen(v, e))'
  <1> DEFINE stale == Stale(w, job[w].ids)
  <1> DEFINE hidden(e) == [Seen(w, e) EXCEPT !.active = FALSE]
  <1>1. /\ \A v \in Workers \ {w} : stale \cap Changed(v) = {}
        /\ draft' = [draft EXCEPT ![w] = [e \in Events |-> IF e \in stale THEN hidden(e) ELSE draft[w][e]]]
        /\ row' = row
    BY DEF Deactivate
  <1>2. stale \subseteq Events /\ \A e \in stale : Exists(Seen(w, e))
    BY DEF Stale
  <1> HIDE DEF stale
  <1>3. ASSUME NEW e \in Events
        PROVE  DOMAIN Seen(w, e) = Columns
    BY DEF Seen, Shapes
  <1>4. ASSUME NEW e \in Events
        PROVE  DOMAIN hidden(e) = Columns /\ \A k \in Keys : hidden(e)[k] = Seen(w, e)[k]
    BY <1>3 DEF Keys, Columns
  <1> HIDE DEF hidden
  <1>5. /\ DOMAIN draft' = Workers /\ DOMAIN draft'[w] = Events
        /\ \A e \in Events : draft'[w][e] = IF e \in stale THEN hidden(e) ELSE draft[w][e]
        /\ \A v \in Workers \ {w} : draft'[v] = draft[v]
    BY <1>1 DEF Shapes
  <1>6. NoEvent' = NoEvent /\ NoEvent.slug = None
    BY DEF NoEvent
  <1>7. \A e \in stale : hidden(e).slug # None /\ hidden(e) # NoEvent
    BY <1>2, <1>4, <1>6, KeyColumns DEF Exists
  <1>8. Changed(w)' = Changed(w) \cup stale
    BY <1>2, <1>5, <1>6, <1>7 DEF Changed
  <1>9. \A v \in Workers \ {w} : Changed(v)' = Changed(v)
    BY <1>5, <1>6 DEF Changed
  <1>10. \A v \in Workers \ {w}, e \in Events : Seen(v, e)' = Seen(v, e)
    BY <1>1, <1>5, <1>9 DEF Seen
  <1>11. ASSUME NEW e \in Events
         PROVE  Seen(w, e)' = IF e \in stale THEN hidden(e) ELSE Seen(w, e)
    BY <1>1, <1>5, <1>8 DEF Seen
  <1>12. \A e \in Events, k \in Keys : Seen(w, e)'[k] = Seen(w, e)[k]
    BY <1>4, <1>11
  <1>13. DraftsExist'
    <2>1. ASSUME NEW v \in Workers, NEW e \in Events, e \in Changed(v)'
          PROVE  draft'[v][e].slug # None
      <3>1. CASE v = w /\ e \in stale
        BY <1>5, <1>7, <3>1
      <3>2. CASE v = w /\ e \notin stale
        BY <1>5, <1>8, <2>1, <3>2 DEF RowsInv, DraftsExist, Exists
      <3>3. CASE v # w
        BY <1>5, <1>9, <2>1, <3>3 DEF RowsInv, DraftsExist, Exists
      <3> QED
        BY <3>1, <3>2, <3>3
    <2> QED
      BY <2>1 DEF DraftsExist, Exists
  <1>14. UniqueIdentities'
    BY <1>1 DEF RowsInv, UniqueIdentities
  <1>15. ViewsUnique'
    <2>1. \A v \in Workers, e \in Events, k \in Keys : Seen(v, e)'[k] = Seen(v, e)[k]
      BY <1>10, <1>12
    <2>2. ASSUME NEW v \in Workers, NEW e \in Events, NEW f \in Events, NEW k \in Keys, e # f, Seen(v, e)'[k] # None
          PROVE  Seen(v, e)'[k] # Seen(v, f)'[k]
      BY <2>1, <2>2 DEF RowsInv, ViewsUnique
    <2> QED
      BY <2>2 DEF ViewsUnique
  <1>16. ASSUME NEW v \in Workers \ {w}, NEW e \in Changed(w)', NEW f \in Changed(v), NEW k \in Keys
         PROVE  /\ e # f
                /\ draft'[w][e][k] # None => draft'[w][e][k] # draft[v][f][k] /\ draft'[w][e][k] # row[f][k]
                /\ draft[v][f][k] # None => draft[v][f][k] # draft'[w][e][k] /\ draft[v][f][k] # row[e][k]
    <2>1. e \in Events /\ f \in Events
      BY <1>2, <1>8 DEF Changed
    <2>2. CASE e \in Changed(w)
      <3>1. draft'[w][e][k] = draft[w][e][k]
        <4>1. CASE e \in stale
          BY <1>4, <1>5, <2>1, <2>2, <4>1 DEF Seen
        <4>2. CASE e \notin stale
          BY <1>5, <2>1, <4>2
        <4> QED
          BY <4>1, <4>2
      <3> QED
        BY <2>2, <3>1 DEF RowsInv, DraftsApart
    <2>3. CASE e \notin Changed(w)
      <3>1. e \in stale /\ e \notin Changed(v) /\ e # f
        BY <1>1, <1>8, <2>3
      <3>2. draft'[w][e][k] = row[e][k]
        BY <1>4, <1>5, <2>1, <2>3, <3>1 DEF Seen
      <3>3. Seen(v, e) = row[e] /\ Seen(v, f) = draft[v][f]
        BY <3>1 DEF Seen
      <3> QED
        BY <2>1, <3>1, <3>2, <3>3 DEF RowsInv, ViewsUnique, UniqueIdentities
    <2> QED
      BY <2>2, <2>3
  <1>17. DraftsApart'
    <2>1. ASSUME NEW u \in Workers, NEW v \in Workers, u # v, NEW e \in Changed(u)', NEW f \in Changed(v)'
          PROVE  e # f /\ \A k \in Keys : draft'[u][e][k] # None => draft'[u][e][k] \notin {draft'[v][f][k], row[f][k]}
      <3>1. CASE u # w /\ v # w
        <4>1. e \in Changed(u) /\ f \in Changed(v) /\ draft'[u] = draft[u] /\ draft'[v] = draft[v]
          BY <1>5, <1>9, <2>1, <3>1
        <4> QED
          BY <2>1, <4>1 DEF RowsInv, DraftsApart
      <3>2. CASE u = w
        <4>1. v \in Workers \ {w} /\ f \in Changed(v) /\ draft'[v] = draft[v]
          BY <1>5, <1>9, <2>1, <3>2
        <4>2. e # f
          BY <1>16, <2>1, <3>2, <4>1, KeyColumns
        <4> QED
          BY <1>16, <2>1, <3>2, <4>1, <4>2
      <3>3. CASE v = w
        <4>1. u \in Workers \ {w} /\ e \in Changed(u) /\ draft'[u] = draft[u]
          BY <1>5, <1>9, <2>1, <3>3
        <4>2. e # f
          BY <1>16, <2>1, <3>3, <4>1, KeyColumns
        <4> QED
          BY <1>16, <2>1, <3>3, <4>1, <4>2
      <3> QED
        BY <3>1, <3>2, <3>3
    <2> QED
      BY <1>1, <2>1, SMTT(20) DEF DraftsApart
  <1>18. ASSUME NEW v \in Workers
         PROVE  DOMAIN draft'[v] = Events /\ \A f \in Events : DOMAIN draft'[v][f] = Columns
    <2>1. CASE v = w
      BY <1>4, <1>5, <2>1 DEF Shapes
    <2>2. CASE v # w
      <3>1. draft'[v] = draft[v]
        BY <1>5, <2>2
      <3> QED
        BY <3>1 DEF Shapes
    <2> QED
      BY <2>1, <2>2
  <1>19. \A v \in Workers, e \in Events : Exists(Seen(v, e)) => Exists(Seen(v, e))'
    BY <1>10, <1>12, KeyColumns DEF Exists
  <1> QED
    BY <1>5, <1>13, <1>14, <1>15, <1>17, <1>18, <1>19 DEF RowsInv

(***************************************************************************)
(* The steps, one by one.                                                  *)
(***************************************************************************)

\* A step that only gives w another job keeps the invariant, when the job names
\* what it will write.
LEMMA JobStep ==
  ASSUME CatalogueInv, NEW w \in Workers, NEW j, Takes(w, j), EntryInv(w, j), UNCHANGED <<row, draft>>
  PROVE  CatalogueInv'
  <1>1. RowsInv'
    BY RowsFrame DEF CatalogueInv
  <1>2. \A v, e : Seen(v, e)' = Seen(v, e)
    BY DEF Seen, Changed
  <1>3. \A v, e : Exists(Seen(v, e)) => Exists(Seen(v, e))'
    BY <1>2 DEF Exists
  <1>4. EntryInv(w, j)'
    BY <1>3, EntryKept
  <1>5. EntriesOK' /\ DOMAIN job' = Workers
    BY <1>3, <1>4, TakesEntries DEF CatalogueInv
  <1>6. Shapes'
    BY <1>5 DEF CatalogueInv, Shapes
  <1> QED
    BY <1>1, <1>5, <1>6 DEF CatalogueInv

LEMMA FindsEntry ==
  ASSUME CatalogueInv, NEW w \in Workers, NEW j, NEW found \in SUBSET Events, Finds(w, j, found),
         DOMAIN j = DOMAIN Idle, \A v \in j.todo : Named(v), j.target = None,
         \A e \in found : Exists(Seen(w, e)),
         "slug" \in DOMAIN j.entry => j.entry.slug # None,
         found = {} => Named(j.entry), UNCHANGED <<row, draft>>
  PROVE  CatalogueInv'
  <1> DEFINE updating(e) == [j EXCEPT !.step = "flush", !.target = e, !.loaded = Seen(w, e)]
  <1> DEFINE inserting == [j EXCEPT !.step = "flush"]
  <1>1. {"step", "target", "loaded", "todo", "entry"} \subseteq DOMAIN j
    BY DEF Idle
  <1>2. ASSUME NEW e \in found, Takes(w, updating(e))
        PROVE  CatalogueInv'
    <2>1. /\ DOMAIN updating(e) = DOMAIN Idle
          /\ updating(e).step = "flush" /\ updating(e).target = e
          /\ updating(e).todo = j.todo /\ updating(e).entry = j.entry
      BY <1>1
    <2> HIDE DEF updating
    <2>2. EntryInv(w, updating(e))
      BY <2>1, CatalogueAssumption DEF EntryInv
    <2> QED
      BY <1>2, <2>2, JobStep
  <1>3. ASSUME found = {}, Takes(w, inserting)
        PROVE  CatalogueInv'
    <2>1. /\ DOMAIN inserting = DOMAIN Idle
          /\ inserting.step = "flush" /\ inserting.target = None
          /\ inserting.todo = j.todo /\ inserting.entry = j.entry
      BY <1>1
    <2> HIDE DEF inserting
    <2>2. EntryInv(w, inserting)
      BY <1>3, <2>1 DEF EntryInv
    <2> QED
      BY <1>3, <2>2, JobStep
  <1> QED
    BY <1>2, <1>3 DEF Finds

LEMMA StartKeeps ==
  ASSUME CatalogueInv, NEW w \in Workers, StartEquipeSync(w) \/ StartTdbSync(w)
  PROVE  CatalogueInv'
  <1>1. CASE StartEquipeSync(w)
    <2> DEFINE listed == {m \in Meetings : feed[m] # "absent"}
    <2> DEFINE todo == {EquipeValues(m, feed[m], TRUE) : m \in listed}
    <2> DEFINE j == [Idle EXCEPT !.kind = "equipe", !.step = IF listed = {} THEN "commit" ELSE "next",
                                 !.todo = todo, !.ids = listed, !.before = photos]
    <2>1. Takes(w, j) /\ UNCHANGED <<row, draft>>
      BY <1>1 DEF StartEquipeSync
    <2>2. \A v \in todo : Named(v)
      BY EntryNames
    <2>3. j.todo = todo /\ j.step # "flush" /\ j.target = None /\ DOMAIN j = DOMAIN Idle
      BY DEF Idle
    <2>4. EntryInv(w, j)
      BY <2>2, <2>3 DEF EntryInv
    <2> HIDE DEF j
    <2> QED
      BY <2>1, <2>4, JobStep
  <1>2. CASE StartTdbSync(w)
    <2> DEFINE todo == {TdbValues(t) : t \in TdbIds}
    <2> DEFINE j == [Idle EXCEPT !.kind = "tdb", !.step = "next", !.todo = todo]
    <2>1. Takes(w, j) /\ UNCHANGED <<row, draft>>
      BY <1>2 DEF StartTdbSync
    <2>2. \A v \in todo : Named(v)
      BY EntryNames
    <2>3. j.todo = todo /\ j.step # "flush" /\ j.target = None /\ DOMAIN j = DOMAIN Idle
      BY DEF Idle
    <2>4. EntryInv(w, j)
      BY <2>2, <2>3 DEF EntryInv
    <2> HIDE DEF j
    <2> QED
      BY <2>1, <2>4, JobStep
  <1> QED
    BY <1>1, <1>2

LEMMA HoldingExists ==
  ASSUME NEW w, NEW c, NEW x
  PROVE  Holding(w, c, x) \subseteq Events /\ \A e \in Holding(w, c, x) : Exists(Seen(w, e))
  BY DEF Holding

LEMMA FoundExists ==
  ASSUME NEW w, NEW v
  PROVE  FoundByEquipe(w, v) \subseteq Events /\ \A e \in FoundByEquipe(w, v) : Exists(Seen(w, e))
  BY HoldingExists DEF FoundByEquipe

LEMMA LoadKeeps ==
  ASSUME CatalogueInv, NEW w \in Workers, LoadEntry(w)
  PROVE  CatalogueInv'
  <1>1. PICK v \in job[w].todo :
           Finds(w, [job[w] EXCEPT !.entry = v, !.todo = @ \ {v}],
                 IF job[w].kind = "equipe" THEN FoundByEquipe(w, v) ELSE Holding(w, "tdb", v.tdb))
    BY DEF LoadEntry
  <1> DEFINE j == [job[w] EXCEPT !.entry = v, !.todo = @ \ {v}]
  <1> DEFINE found == IF job[w].kind = "equipe" THEN FoundByEquipe(w, v) ELSE Holding(w, "tdb", v.tdb)
  <1>2. EntryInv(w, job[w]) /\ job[w].step = "next"
    BY DEF CatalogueInv, EntriesOK, LoadEntry
  <1>3. DOMAIN j = DOMAIN Idle /\ j.entry = v /\ j.todo \subseteq job[w].todo /\ j.target = None
    BY <1>2 DEF EntryInv, Idle
  <1>4. Named(v) /\ \A x \in j.todo : Named(x)
    BY <1>2, <1>3 DEF EntryInv
  <1>5. found \subseteq Events /\ \A e \in found : Exists(Seen(w, e))
    BY HoldingExists, FoundExists
  <1>6. Finds(w, j, found) /\ UNCHANGED <<row, draft>>
    BY <1>1 DEF LoadEntry
  <1> HIDE DEF j, found
  <1> QED
    BY <1>3, <1>4, <1>5, <1>6, FindsEntry DEF Named

\* The row an administrator's request finds exists for the request.
LEMMA IdleSees ==
  ASSUME CatalogueInv, NEW w \in Workers, NEW e \in Events, Exists(row[e])
  PROVE  Exists(Seen(w, e))
  BY DEF CatalogueInv, RowsInv, DraftsExist, Seen

LEMMA RequestKeeps ==
  ASSUME CatalogueInv, NEW w \in Workers,
         (\E m \in Meetings : Import(w, m)) \/ (\E e \in Events : Unmatch(w, e) \/ \E m \in Meetings : ManualMatch(w, e, m))
  PROVE  CatalogueInv'
  <1>1. ASSUME NEW m \in Meetings, Import(w, m)
        PROVE  CatalogueInv'
    <2>1. PICK l \in {"bare", "full"} :
             Finds(w, [Idle EXCEPT !.kind = "import", !.entry = EquipeValues(m, l, FALSE)],
                   FoundByEquipe(w, EquipeValues(m, l, FALSE)))
      BY <1>1 DEF Import
    <2> DEFINE v == EquipeValues(m, l, FALSE)
    <2>2. Named(v)
      BY EntryNames
    <2> HIDE DEF v
    <2> DEFINE j == [Idle EXCEPT !.kind = "import", !.entry = v]
    <2>3. DOMAIN j = DOMAIN Idle /\ j.entry = v /\ j.todo = {} /\ j.target = None
      BY DEF Idle
    <2>4. Finds(w, j, FoundByEquipe(w, v)) /\ UNCHANGED <<row, draft>>
      BY <1>1, <2>1 DEF v, Import
    <2> HIDE DEF j
    <2> QED
      BY <2>2, <2>3, <2>4, FoundExists, FindsEntry DEF Named
  <1>2. ASSUME NEW e \in Events, Unmatch(w, e) \/ \E m \in Meetings : ManualMatch(w, e, m)
        PROVE  CatalogueInv'
    <2>1. PICK v, kind : /\ "slug" \notin DOMAIN v
                         /\ Finds(w, [Idle EXCEPT !.kind = kind, !.entry = v], {e})
                         /\ Exists(row[e]) /\ UNCHANGED <<row, draft>>
      BY <1>2, EntryNames DEF Unmatch, ManualMatch
    <2> DEFINE j == [Idle EXCEPT !.kind = kind, !.entry = v]
    <2>2. DOMAIN j = DOMAIN Idle /\ j.entry = v /\ j.todo = {} /\ j.target = None
      BY DEF Idle
    <2>3. Exists(Seen(w, e))
      BY <2>1, IdleSees
    <2>4. Finds(w, j, {e})
      BY <2>1
    <2> HIDE DEF j
    <2> QED
      BY <2>1, <2>2, <2>3, <2>4, FindsEntry
  <1> QED
    BY <1>1, <1>2

\* A statement that writes a row with the table's columns and a slug.
LEMMA FlushStep ==
  ASSUME CatalogueInv, NEW w \in Workers, NEW e \in Events, NEW r,
         DOMAIN r = Columns, r.slug # None, Writes(w, e, r), Takes(w, Proceed(job[w])), UNCHANGED row
  PROVE  CatalogueInv'
  <1>1. RowsInv'
    BY WriteUnique DEF CatalogueInv
  <1>2. /\ DOMAIN draft' = Workers
        /\ \A v \in Workers : DOMAIN draft'[v] = Events /\ \A f \in Events : DOMAIN draft'[v][f] = Columns
        /\ \A v \in Workers, f \in Events : Exists(Seen(v, f)) => Exists(Seen(v, f))'
    BY WriteRow DEF CatalogueInv
  <1>3. PICK j : j = Proceed(job[w])
    OBVIOUS
  <1>4. EntryInv(w, j)
    BY <1>3, ProceedEntry DEF CatalogueInv, EntriesOK
  <1>5. EntryInv(w, j)'
    BY <1>2, <1>4, EntryKept
  <1>6. EntriesOK' /\ DOMAIN job' = Workers
    BY <1>2, <1>3, <1>5, TakesEntries DEF CatalogueInv
  <1>7. Shapes'
    BY <1>2, <1>6 DEF CatalogueInv, Shapes
  <1> QED
    BY <1>1, <1>6, <1>7 DEF CatalogueInv

LEMMA FlushKeeps ==
  ASSUME CatalogueInv, NEW w \in Workers, FlushUpdate(w) \/ FlushInsert(w)
  PROVE  CatalogueInv'
  <1>1. EntryInv(w, job[w]) /\ Shapes
    BY DEF CatalogueInv, EntriesOK
  <1>2. CASE FlushUpdate(w)
    <2> DEFINE v == job[w].entry
    <2> DEFINE e == job[w].target
    <2>1. /\ job[w].step = "flush" /\ e # None /\ Takes(w, Proceed(job[w])) /\ UNCHANGED row
          /\ \E extra \in SUBSET ({"payload"} \cap DOMAIN v) :
                \/ UNCHANGED draft
                \/ Writes(w, e, Write(Seen(w, e), v, Dirty(job[w], v) \cup extra))
      BY <1>2 DEF FlushUpdate
    <2>2. e \in Events /\ Exists(Seen(w, e)) /\ ("slug" \in DOMAIN v => v.slug # None)
      BY <1>1, <2>1 DEF EntryInv
    <2>3. CASE UNCHANGED draft
      <3>1. PICK j : j = Proceed(job[w])
        OBVIOUS
      <3>2. EntryInv(w, j)
        BY <1>1, <3>1, ProceedEntry
      <3> QED
        BY <2>1, <2>3, <3>1, <3>2, JobStep
    <2>4. ASSUME NEW extra \in SUBSET ({"payload"} \cap DOMAIN v),
                 Writes(w, e, Write(Seen(w, e), v, Dirty(job[w], v) \cup extra))
          PROVE  CatalogueInv'
      <3>1. PICK r : r = Write(Seen(w, e), v, Dirty(job[w], v) \cup extra)
        OBVIOUS
      <3>2. PICK f \in Events : f = e
        BY <2>2
      <3>3. "slug" \in Dirty(job[w], v) \cup extra => "slug" \in DOMAIN v
        BY DEF Dirty
      <3>4. DOMAIN r = Columns /\ r.slug # None
        BY <2>2, <3>1, <3>3, WriteShape DEF Exists
      <3> QED
        BY <2>1, <2>4, <3>1, <3>2, <3>4, FlushStep
    <2> QED
      BY <2>1, <2>3, <2>4
  <1>3. CASE FlushInsert(w)
    <2> DEFINE v == job[w].entry
    <2>1. PICK e : e = CHOOSE f \in Free : TRUE
      OBVIOUS
    <2>2. PICK r : r = Write(NoEvent, v, DOMAIN v)
      OBVIOUS
    <2>3. /\ job[w].step = "flush" /\ job[w].target = None /\ Free # {}
          /\ Writes(w, e, r) /\ Takes(w, Proceed(job[w])) /\ UNCHANGED row
      BY <1>3, <2>1, <2>2 DEF FlushInsert
    <2>4. e \in Events
      BY <2>1, <2>3 DEF Free
    <2>5. Named(v)
      BY <1>1, <2>3 DEF EntryInv
    <2>6. DOMAIN r = Columns /\ r.slug # None
      BY <2>2, <2>5, WriteShape DEF Named
    <2> QED
      BY <2>3, <2>4, <2>6, FlushStep
  <1> QED
    BY <1>2, <1>3

LEMMA RollbackKeeps ==
  ASSUME CatalogueInv, NEW w \in Workers, RolledBack(w), UNCHANGED row
  PROVE  CatalogueInv'
  <1>1. RowsInv' /\ \A v \in Workers \ {w}, e \in Events : Seen(v, e)' = Seen(v, e)
    BY RollbackKeepsRows DEF CatalogueInv
  <1>2. \A v \in Workers \ {w}, e \in Events : Exists(Seen(v, e)) => Exists(Seen(v, e))'
    BY <1>1 DEF Exists
  <1>3. PICK j : j = Idle
    OBVIOUS
  <1>4. EntryInv(w, j)'
    BY <1>3 DEF EntryInv, Idle
  <1>5. EntriesOK' /\ DOMAIN job' = Workers
    BY <1>2, <1>3, <1>4, TakesEntries DEF CatalogueInv, RolledBack
  <1>6. Shapes'
    BY <1>5, Cleared DEF CatalogueInv, Shapes
  <1> QED
    BY <1>1, <1>5, <1>6 DEF CatalogueInv

LEMMA RefusedKeeps ==
  ASSUME CatalogueInv, NEW w \in Workers, Refused(w), UNCHANGED row
  PROVE  CatalogueInv'
  <1>1. CASE Takes(w, Proceed(job[w])) /\ UNCHANGED draft
    <2>1. PICK j : j = Proceed(job[w])
      OBVIOUS
    <2>2. EntryInv(w, j)
      BY <2>1, ProceedEntry DEF CatalogueInv, EntriesOK
    <2> QED
      BY <1>1, <2>1, <2>2, JobStep
  <1>2. CASE RolledBack(w)
    BY <1>2, RollbackKeeps
  <1> QED
    BY <1>1, <1>2 DEF Refused

LEMMA CommitKeeps ==
  ASSUME CatalogueInv, NEW w \in Workers, Commit(w)
  PROVE  CatalogueInv'
  <1>1. /\ RowsInv'
        /\ DOMAIN row' = Events /\ \A e \in Events : DOMAIN row'[e] = Columns
        /\ \A v \in Workers, e \in Events : Exists(Seen(v, e)) => Exists(Seen(v, e))'
    BY CommitKeepsRows DEF CatalogueInv
  <1>2. PICK j : j = Idle
    OBVIOUS
  <1>3. EntryInv(w, j)'
    BY <1>2 DEF EntryInv, Idle
  <1>4. RolledBack(w)
    BY DEF Commit
  <1>5. EntriesOK' /\ DOMAIN job' = Workers
    BY <1>1, <1>2, <1>3, <1>4, TakesEntries DEF CatalogueInv, RolledBack
  <1>6. Shapes'
    BY <1>1, <1>4, <1>5, Cleared DEF CatalogueInv, Shapes
  <1> QED
    BY <1>1, <1>5, <1>6 DEF CatalogueInv

LEMMA DeactivateKeeps ==
  ASSUME CatalogueInv, NEW w \in Workers, Deactivate(w)
  PROVE  CatalogueInv'
  <1>1. /\ RowsInv'
        /\ DOMAIN draft' = Workers
        /\ \A v \in Workers : DOMAIN draft'[v] = Events /\ \A f \in Events : DOMAIN draft'[v][f] = Columns
        /\ \A v \in Workers, e \in Events : Exists(Seen(v, e)) => Exists(Seen(v, e))'
    BY DeactivateKeepsRows DEF CatalogueInv
  <1>2. PICK j : j = [job[w] EXCEPT !.step = "commit"]
    OBVIOUS
  <1>3. EntryInv(w, job[w]) /\ job[w].step = "stale"
    BY DEF CatalogueInv, EntriesOK, Deactivate
  <1>4. DOMAIN j = DOMAIN Idle /\ j.step = "commit" /\ j.target = None /\ j.todo = job[w].todo
    BY <1>2, <1>3 DEF EntryInv, Idle
  <1>5. EntryInv(w, j)
    BY <1>3, <1>4 DEF EntryInv
  <1>6. EntryInv(w, j)'
    BY <1>1, <1>5, EntryKept
  <1>7. Takes(w, j) /\ row' = row
    BY <1>2 DEF Deactivate
  <1>8. EntriesOK' /\ DOMAIN job' = Workers
    BY <1>1, <1>6, <1>7, TakesEntries DEF CatalogueInv
  <1>9. Shapes'
    BY <1>1, <1>7, <1>8 DEF CatalogueInv, Shapes
  <1> QED
    BY <1>1, <1>8, <1>9 DEF CatalogueInv

\* A step that leaves rows, drafts and jobs alone.
LEMMA OutsideKeeps ==
  ASSUME CatalogueInv, UNCHANGED <<row, draft, job>>
  PROVE  CatalogueInv'
  <1>1. RowsInv'
    BY RowsFrame DEF CatalogueInv
  <1>2. \A v, e : Exists(Seen(v, e)) => Exists(Seen(v, e))'
    BY DEF Exists, Seen, Changed
  <1>3. ASSUME NEW v \in Workers, NEW k, k = job[v]
        PROVE  EntryInv(v, k)'
    <2>1. EntryInv(v, k)
      BY <1>3 DEF CatalogueInv, EntriesOK
    <2> QED
      BY <1>2, <2>1, EntryKept
  <1>4. EntriesOK'
    BY <1>3 DEF EntriesOK
  <1> QED
    BY <1>1, <1>4 DEF CatalogueInv, Shapes

\* A deleted photo is only remembered by the syncs that go on.
LEMMA DeletePhotoKeeps ==
  ASSUME CatalogueInv, NEW e \in Events, DeletePhoto(e)
  PROVE  CatalogueInv'
  <1>1. UNCHANGED <<row, draft>> /\ DOMAIN job' = Workers
    BY DEF DeletePhoto
  <1>2. RowsInv'
    BY <1>1, RowsFrame DEF CatalogueInv
  <1>3. \A v, f : Exists(Seen(v, f)) => Exists(Seen(v, f))'
    BY <1>1 DEF Exists, Seen, Changed
  <1>4. ASSUME NEW v \in Workers, NEW k, k = job'[v]
        PROVE  EntryInv(v, k)'
    <2>1. PICK j : j = job[v]
      OBVIOUS
    <2>2. EntryInv(v, j) /\ k = [j EXCEPT !.before = @ \ {e}]
      BY <1>4, <2>1 DEF CatalogueInv, EntriesOK, DeletePhoto
    <2>3. {"step", "todo", "entry", "target"} \subseteq DOMAIN j
      BY <2>2 DEF EntryInv, Idle
    <2>4. /\ DOMAIN k = DOMAIN j
          /\ k.step = j.step /\ k.todo = j.todo /\ k.entry = j.entry /\ k.target = j.target
      BY <2>2, <2>3
    <2>5. EntryInv(v, k)
      BY <2>2, <2>4 DEF EntryInv
    <2> QED
      BY <1>3, <2>5, EntryKept
  <1>5. EntriesOK'
    BY <1>4 DEF EntriesOK
  <1> QED
    BY <1>1, <1>2, <1>5 DEF CatalogueInv, Shapes

LEMMA CatalogueInitially ==
  ASSUME Init
  PROVE  CatalogueInv
  <1>1. /\ row = [e \in Events |-> NoEvent]
        /\ draft = [w \in Workers |-> [e \in Events |-> NoEvent]]
        /\ job = [w \in Workers |-> Idle]
    BY DEF Init
  <1>2. \A w \in Workers : Changed(w) = {}
    BY <1>1 DEF Changed
  <1>3. \A w \in Workers, e \in Events : Seen(w, e) = NoEvent
    BY <1>1, <1>2 DEF Seen
  <1>4. RowsInv
    BY <1>1, <1>2, <1>3, KeyColumns DEF RowsInv, DraftsExist, UniqueIdentities, ViewsUnique, DraftsApart
  <1>5. \A w \in Workers : EntryInv(w, job[w])
    BY <1>1, IdleEntry
  <1>6. Shapes
    BY <1>1, NoEventShape DEF Shapes
  <1> QED
    BY <1>4, <1>5, <1>6 DEF CatalogueInv, EntriesOK

LEMMA CatalogueStep ==
  ASSUME CatalogueInv, [Next]_vars
  PROVE  CatalogueInv'
  <1>1. ASSUME NEW w \in Workers,
               StartEquipeSync(w) \/ StartTdbSync(w) \/ LoadEntry(w) \/ FlushUpdate(w) \/ FlushInsert(w) \/ Deactivate(w)
        PROVE  CatalogueInv'
    BY <1>1, StartKeeps, LoadKeeps, FlushKeeps, DeactivateKeeps
  <1>2. ASSUME NEW w \in Workers, Violation(w) \/ Deadlock(w)
        PROVE  CatalogueInv'
    BY <1>2, RefusedKeeps DEF Violation, Deadlock
  <1>3. ASSUME NEW w \in Workers, Commit(w) \/ Die(w)
        PROVE  CatalogueInv'
    BY <1>3, CommitKeeps, RollbackKeeps DEF Die
  <1>4. ASSUME NEW w \in Workers,
               (\E m \in Meetings : Import(w, m)) \/ (\E e \in Events : Unmatch(w, e) \/ \E m \in Meetings : ManualMatch(w, e, m))
        PROVE  CatalogueInv'
    BY <1>4, RequestKeeps
  <1>5. CASE (\E m \in Meetings : FeedChanges(m)) \/ (\E e \in Events : Upload(e)) \/ UNCHANGED vars
    BY <1>5, OutsideKeeps DEF FeedChanges, Upload, vars
  <1>6. ASSUME NEW e \in Events, DeletePhoto(e)
        PROVE  CatalogueInv'
    BY <1>6, DeletePhotoKeeps
  <1> QED
    BY <1>1, <1>2, <1>3, <1>4, <1>5, <1>6 DEF Next

(***************************************************************************)
(* The theorem.                                                            *)
(***************************************************************************)

\* However many syncs and requests write beside each other, with savepoints,
\* deadlocks and deaths, no TDB id, Equipe id or slug is ever on two events: the
\* checks each statement makes of what it sees are enough, because the locks keep
\* the rows and the identities that two open transactions write apart.
THEOREM IdentitiesAreUnique == Spec => []UniqueIdentities
  <1>1. Init => CatalogueInv
    BY CatalogueInitially
  <1>2. CatalogueInv /\ [Next]_vars => CatalogueInv'
    BY CatalogueStep
  <1>3. CatalogueInv => UniqueIdentities
    BY DEF CatalogueInv, RowsInv
  <1> QED
    BY <1>1, <1>2, <1>3, PTL DEF Spec
=============================================================================

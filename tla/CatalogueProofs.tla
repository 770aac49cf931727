-------------------------- MODULE CatalogueProofs --------------------------
(***************************************************************************)
(* Theorems about the catalogue, for any products, files, patches and any  *)
(* number of requests:                                                     *)
(*                                                                         *)
(*   CatalogueIsSound     Spec => []CatInv                                 *)
(*   CatalogueType        Spec => []TypeOK                                 *)
(*   LogIsComplete        Spec => []LogHoldsTheRows                        *)
(*   BatchesFit           Spec => []BatchFitsTheIndex                      *)
(*   EditsRespect         Spec => EditsRespectNewer                        *)
(*   NothingIsDropped     Spec => NothingDropped                           *)
(*   UnitsAreKept         Spec => StockKeepsItsUnit                        *)
(*   NoTwinsAreMade       Spec => NoTwins                                  *)
(*   ImportsKeepTheirWord Spec => ImportKeepsItsWord                       *)
(*                                                                         *)
(* The argument: no transaction of the catalogue locks what it read, so    *)
(* the invariant says of every request what its decision still has to do   *)
(* with the tables when it writes.  The tables are well formed and every   *)
(* version of a row is in the log (TablesOK); versions only rise (Moves),  *)
(* so a row whose version is the one a request saw is the row it saw       *)
(* (Before); and every decision is a function of what was seen (JobOK).    *)
(* The action properties follow from the decision a writing request holds. *)
(***************************************************************************)
EXTENDS Catalogue, FiniteSetTheorems, TLAPS

-----------------------------------------------------------------------------
(* The invariant.                                                          *)

States == {"absent", "live", "archived"}

RowFields == {"state", "sku", "short", "unit", "master", "category", "version", "clock",
              "updated", "wrote", "quiet"}

RowShape(row) ==
    /\ DOMAIN row = RowFields
    /\ row.state \in States /\ row.sku \in Codes \cup {NoCode} /\ row.short \in Codes \cup {NoCode}
    /\ row.unit \in Units \cup {NoUnit} /\ row.master \in Masters \cup {NoMaster}
    /\ row.category \in Categories \cup {NoCategory}
    /\ row.version \in Nat /\ row.clock \in 0..MaxTime /\ row.updated \in 0..MaxTime
    /\ row.wrote \in [Fields -> 0..MaxTime]

LabelType == [state : States, name : Names \cup {NoName}, mirrors : BOOLEAN]

EntryType ==
    [product : Products, fields : (SUBSET AllFields) \ {{}}, seen : 0..MaxTime]

\* A row no device has dated was last decided on when it was last written.
RowOK(row) ==
    /\ RowShape(row)
    /\ row.state = "absent" <=> row.version = 0
    /\ row.state # "absent" => row.unit \in Units
    /\ row.updated <= now
    /\ row.clock = 0 => \A f \in Fields : row.wrote[f] <= row.updated

LabelOK(label) == label \in LabelType /\ (label.state # "absent" => label.name \in Names)

TablesOK ==
    /\ now \in 1..MaxTime
    /\ product = [p \in Products |-> product[p]] /\ \A p \in Products : RowOK(product[p])
    /\ category = [c \in Categories |-> category[c]] /\ \A c \in Categories : LabelOK(category[c])
    /\ stock \in [Products -> Units \cup {NoUnit}]
    /\ \A p \in Products : stock[p] # NoUnit => product[p].state # "absent"
    /\ inbox \in Seq(EntryType)
    /\ LogHoldsTheRows

\* The versions a request has seen, of every row or of one.
Behind(seen) == seen \in [Products -> Nat] /\ \A p \in Products : seen[p] <= product[p].version
Before(row, p) ==
    /\ row.version \in Nat /\ row.version <= product[p].version
    /\ row.version = product[p].version => row = product[p]

\* A patch of the row p, and what was decided on it.
PatchOK(q) == q.product \in Present /\ Before(q.read, q.product)

UpdateOK(q) ==
    /\ PatchOK(q) /\ q.patch \in Patches /\ q.unit \in Units \cup {NoUnit}
    /\ q.unit \notin {NoUnit, q.read.unit} => q.counted = NoUnit

Dated(row) == [version |-> row.version, changedAt |-> EffectiveUpdatedAt(row)]

PushOK(q) ==
    /\ PatchOK(q) /\ q.patch \in Patches
    /\ q.edit.at \in 1..MaxTime /\ q.edit.fields = q.patch.fields
    /\ q.accepted = Accepted(q.edit, Dated(q.read)) /\ q.rejected = Rejected(q.edit, Dated(q.read))

\* No category of the shelf but `except` bears the name.
Unshelved(shelf, name, except) ==
    name \in Names /\ \A s \in shelf : s[1] # except => s[2] # name

AdoptOK(q) ==
    /\ q.new \subseteq Masters /\ q.mirrors \subseteq Categories /\ Behind(q.seen)
    /\ \A p \in Products :
          q.seen[p] # 0 /\ product[p].state = "live" => product[p].master \notin q.new

GoodLines(file, default) == OkLines(file, default) \ DuplicateLines(file, default)

PreviewOK(q) ==
    /\ Behind(q.seen) /\ q.file \in Seq(Cells) /\ q.default \in Units \cup {NoUnit}
    /\ \A l \in GoodLines(q.file, q.default) : q.shown[l].verdict # "ERROR"
    /\ q.seen = Versions =>
          \A l \in DOMAIN q.file : q.shown[l].of = FindClash(q.file[l], product, Live).product

\* No two lines to be made share a code, and none takes one of a live product.
Fits(create, file) ==
    \A l \in DOMAIN create :
        /\ \A m \in DOMAIN create \ {l} : ~SharesCode(create[l], create[m])
        /\ \/ \A p \in Live : ~SharesCode(create[l], product[p])
           \/ BothTaken(file[l], product, Live)

ImportOK(q) ==
    /\ Behind(q.seen)
    /\ \A s \in q.shelf : s[1] \in Categories /\ s[2] \in Names
    /\ \A l \in DOMAIN q.plan.create :
          LET row == q.plan.create[l] IN
          /\ row.sku \in Codes \cup {NoCode} /\ row.short \in Codes \cup {NoCode}
          /\ UnitOf(row, q.default) \in Units /\ row.category \in Names \cup {NoName}
    /\ IsFiniteSet(DOMAIN q.plan.update)
    /\ \A l \in DOMAIN q.plan.update : q.plan.update[l] \in Present
    /\ q.seen = Versions => Fits(q.plan.create, q.file)

JobOK(q) ==
    /\ q.kind = "create" => q.draft \in Drafts /\ q.at \in {0, 1}
    /\ q.kind = "update" => UpdateOK(q)
    /\ q.kind = "archive" => q.product \in Present
    /\ q.kind = "push" => PushOK(q)
    /\ q.kind = "acknowledge" => q.entry \in DOMAIN inbox
    /\ q.kind = "category" => Unshelved(q.shelf, q.name, NoCategory)
    /\ q.kind = "rename" =>
          q.category \in Categories \ FreshCategories /\ Unshelved(q.shelf, q.name, q.category)
    /\ q.kind = "shelve" => q.category \in Categories \ FreshCategories
    /\ q.kind = "adopt" => AdoptOK(q)
    /\ q.kind = "preview" => PreviewOK(q)
    /\ q.kind = "import" => ImportOK(q)

RequestsOK ==
    /\ started \in 0..MaxRequests
    /\ request = [r \in Requests |-> request[r]]
    /\ \A r \in Requests : JobOK(request[r])

CatInv == TablesOK /\ RequestsOK

-----------------------------------------------------------------------------
(* What a step may do to the rows.                                         *)

\* A row that changes gets a later version, and never comes back to the counter.
RowMoves(p) ==
    \/ product'[p] = product[p]
    \/ /\ product[p].version < product'[p].version
       /\ product[p].state # "absent" =>
             /\ product'[p].state # "absent" /\ product'[p].master = product[p].master
             /\ product'[p].state = "live" => product[p].state = "live"

Moves ==
    /\ \A p \in Products : RowMoves(p)
    /\ \A c \in Categories : category[c].state # "absent" => category'[c].state # "absent"
    /\ DOMAIN inbox \subseteq DOMAIN inbox'

\* Whoever finds the versions it has seen finds the rows it has seen.
LEMMA VersionsTell ==
  ASSUME TablesOK, TablesOK', Moves
  PROVE  /\ \A p \in Products : /\ product[p].version \in Nat /\ product'[p].version \in Nat
                                /\ product[p].version <= product'[p].version
         /\ \A seen : Behind(seen) => Behind(seen)'
         /\ \A seen : Behind(seen) /\ seen = Versions' => seen = Versions /\ product' = product
<1>1. \A p \in Products : product[p].version \in Nat /\ product'[p].version \in Nat
  BY DEF TablesOK, RowOK, RowShape
<1>2. \A p \in Products : product[p].version <= product'[p].version
  BY <1>1 DEF Moves, RowMoves
<1>3. ASSUME NEW seen, Behind(seen) PROVE Behind(seen)'
  <2>1. seen \in [Products -> Nat] /\ \A p \in Products : seen[p] <= product[p].version
    BY <1>3 DEF Behind
  <2>2. \A p \in Products : seen[p] \in Nat /\ seen[p] <= product'[p].version
    BY <1>1, <1>2, <2>1
  <2> QED BY <2>1, <2>2 DEF Behind
<1>4. ASSUME NEW seen, Behind(seen), seen = Versions'
      PROVE  seen = Versions /\ product' = product
  <2>1. seen \in [Products -> Nat] /\ \A p \in Products : seen[p] <= product[p].version
    BY <1>4 DEF Behind
  <2>2. \A p \in Products : seen[p] = product'[p].version
    BY <1>4 DEF Versions
  <2>3. \A p \in Products : seen[p] = product[p].version /\ product'[p] = product[p]
    <3> SUFFICES ASSUME NEW p \in Products
                 PROVE  seen[p] = product[p].version /\ product'[p] = product[p]
      OBVIOUS
    <3>1. product[p].version = product'[p].version /\ seen[p] = product[p].version
      BY <1>1, <1>2, <2>1, <2>2
    <3>2. ~(product[p].version < product'[p].version)
      BY <1>1, <3>1
    <3> QED BY <3>1, <3>2 DEF Moves, RowMoves
  <2>4. product' = product
    BY <2>3 DEF TablesOK
  <2>5. seen = Versions
    BY <2>1, <2>3 DEF Versions
  <2> QED BY <2>4, <2>5
<1> QED BY <1>1, <1>2, <1>3, <1>4

\* What a request has read and decided is as right as it was.
LEMMA JobStays ==
  ASSUME TablesOK, TablesOK', Moves, NEW q, JobOK(q)
  PROVE  JobOK(q)'
<1>1. Present \subseteq Present'
  BY DEF Present, Moves, RowMoves
<1>2. Categories \ FreshCategories \subseteq (Categories \ FreshCategories)'
  BY DEF FreshCategories, Moves
<1>3. \A p \in Products : product[p].version \in Nat /\ product'[p].version \in Nat
                          /\ product[p].version <= product'[p].version
  BY VersionsTell
<1>4. ASSUME PatchOK(q) PROVE PatchOK(q)'
  <2>1. q.product \in Present /\ q.product \in Present' /\ q.product \in Products
    BY <1>1, <1>4 DEF PatchOK, Present
  <2>2. Before(q.read, q.product)
    BY <1>4 DEF PatchOK
  <2>3. Before(q.read, q.product)'
    <3>1. PICK p \in Products : p = q.product
      BY <2>1
    <3>0. PICK row : row = q.read
      OBVIOUS
    <3>2. row.version \in Nat /\ row.version <= product[p].version
      BY <2>2, <3>1, <3>0 DEF Before
    <3>3. row.version <= product'[p].version
      BY <1>3, <3>1, <3>2
    <3>4. ASSUME row.version = product'[p].version PROVE row = product'[p]
      <4>1. product[p].version = product'[p].version /\ row.version = product[p].version
        BY <1>3, <3>2, <3>4
      <4>2. ~(product[p].version < product'[p].version)
        BY <1>3, <4>1
      <4>3. product'[p] = product[p]
        BY <3>1, <4>2 DEF Moves, RowMoves
      <4> QED BY <2>2, <3>1, <3>0, <4>1, <4>3 DEF Before
    <3> QED BY <3>1, <3>0, <3>2, <3>3, <3>4 DEF Before
  <2> QED BY <2>1, <2>3 DEF PatchOK
<1>5. q.kind = "update" => UpdateOK(q)'
  BY <1>4 DEF JobOK, UpdateOK
<1>6. q.kind = "push" => PushOK(q)'
  BY <1>4 DEF JobOK, PushOK, Dated, EffectiveUpdatedAt
<1>7. q.kind = "acknowledge" => q.entry \in DOMAIN inbox'
  BY DEF JobOK, Moves
<1>8. ASSUME q.kind = "adopt" PROVE AdoptOK(q)'
  <2>1. AdoptOK(q)
    BY <1>8 DEF JobOK
  <2>2. Behind(q.seen)' /\ \A p \in Products : q.seen[p] \in Nat /\ q.seen[p] <= product[p].version
    BY <2>1, VersionsTell DEF AdoptOK, Behind
  <2>3. ASSUME NEW p \in Products, q.seen[p] # 0, product'[p].state = "live"
        PROVE  product'[p].master \notin q.new
    <3>1. product[p].version # 0
      BY <1>3, <2>2, <2>3
    <3>2. product[p].state # "absent"
      BY <3>1 DEF TablesOK, RowOK
    <3>3. product[p].state = "live" /\ product'[p].master = product[p].master
      BY <2>3, <3>2 DEF Moves, RowMoves
    <3> QED BY <2>1, <2>3, <3>3 DEF AdoptOK
  <2> QED BY <2>1, <2>2, <2>3 DEF AdoptOK
<1>9. ASSUME q.kind = "preview" PROVE PreviewOK(q)'
  <2>1. PreviewOK(q)
    BY <1>9 DEF JobOK
  <2>2. Behind(q.seen)' /\ Behind(q.seen)
    BY <2>1, VersionsTell DEF PreviewOK
  <2>3. q.seen = Versions' => q.seen = Versions /\ product' = product
    BY <2>2, VersionsTell
  <2>4. ASSUME q.seen = Versions'
        PROVE  \A l \in DOMAIN q.file : q.shown[l].of = FindClash(q.file[l], product', Live').product
    <3>1. q.seen = Versions /\ product' = product
      BY <2>3, <2>4
    <3>2. Live' = Live
      BY <3>1 DEF Live
    <3> QED BY <2>1, <3>1, <3>2 DEF PreviewOK
  <2> QED BY <2>1, <2>2, <2>4 DEF PreviewOK
<1>10. ASSUME q.kind = "import" PROVE ImportOK(q)'
  <2>1. ImportOK(q)
    BY <1>10 DEF JobOK
  <2>2. Behind(q.seen)' /\ Behind(q.seen)
    BY <2>1, VersionsTell DEF ImportOK
  <2>3. q.seen = Versions' => q.seen = Versions /\ product' = product
    BY <2>2, VersionsTell
  <2>4. ASSUME q.seen = Versions' PROVE Fits(q.plan.create, q.file)'
    <3>1. q.seen = Versions /\ product' = product
      BY <2>3, <2>4
    <3>2. Live' = Live
      BY <3>1 DEF Live
    <3>3. Fits(q.plan.create, q.file)
      BY <2>1, <3>1 DEF ImportOK
    <3> QED BY <3>1, <3>2, <3>3 DEF Fits, BothTaken
  <2>5. \A l \in DOMAIN q.plan.update : q.plan.update[l] \in Present'
    BY <1>1, <2>1 DEF ImportOK
  <2> QED BY <2>1, <2>2, <2>4, <2>5 DEF ImportOK
<1> QED BY <1>1, <1>2, <1>5, <1>6, <1>7, <1>8, <1>9, <1>10 DEF JobOK, Unshelved

LEMMA SameRows ==
  ASSUME TablesOK, UNCHANGED <<now, product, category, stock, log, inbox>>
  PROVE  TablesOK' /\ Moves
<1>1. Moves
  BY DEF Moves, RowMoves
<1>2. LogHoldsTheRows'
  BY DEF TablesOK, LogHoldsTheRows, Present, FreshCategories
<1> QED BY <1>1, <1>2 DEF TablesOK, RowOK, LabelOK

LEMMA IdleIsFine == JobOK(Idle)
BY DEF JobOK, Idle

\* A request begins on what is right of the rows as they are.
LEMMA BeginKeeps ==
  ASSUME CatInv, NEW r \in Requests, NEW job, JobOK(job), Begin(r, job)
  PROVE  CatInv'
<1>1. TablesOK' /\ Moves
  BY SameRows DEF CatInv, Begin
<1>2. \A q : JobOK(q) => JobOK(q)'
  BY <1>1, JobStays DEF CatInv
<1>3. \A s \in Requests : JobOK(request[s])'
  BY <1>2 DEF CatInv, RequestsOK, Begin
<1>4. started' \in 0..MaxRequests /\ request' = [s \in Requests |-> request'[s]]
  BY CatalogueAssumption DEF CatInv, RequestsOK, Begin
<1> QED BY <1>1, <1>3, <1>4 DEF CatInv, RequestsOK

\* The others go on with what they have read.
LEMMA EndKeeps ==
  ASSUME CatInv, NEW r \in Requests, End(r), TablesOK', Moves
  PROVE  CatInv'
<1>1. \A q : JobOK(q) => JobOK(q)'
  BY JobStays DEF CatInv
<1>2. JobOK(Idle)'
  BY <1>1, IdleIsFine
<1>3. \A s \in Requests : JobOK(request[s])'
  BY <1>1, <1>2 DEF CatInv, RequestsOK, End
<1>4. started' \in 0..MaxRequests /\ request' = [s \in Requests |-> request'[s]]
  BY DEF CatInv, RequestsOK, End
<1> QED BY <1>3, <1>4 DEF CatInv, RequestsOK

\* So do they all while none ends.
LEMMA RowsKeep ==
  ASSUME CatInv, UNCHANGED <<started, request>>, TablesOK', Moves
  PROVE  CatInv'
<1>1. \A q : JobOK(q) => JobOK(q)'
  BY JobStays DEF CatInv
<1> QED BY <1>1 DEF CatInv, RequestsOK

-----------------------------------------------------------------------------
(* What requests begin with.                                               *)

LEMMA VersionsSeen ==
  ASSUME TablesOK
  PROVE  /\ Behind(Versions)
         /\ \A p \in Products : Before(product[p], p)
BY DEF TablesOK, RowOK, RowShape, Behind, Before, Versions

LEMMA ShelfType ==
  ASSUME TablesOK
  PROVE  \A s \in Shelf : s[1] \in Categories /\ s[2] \in Names
BY DEF TablesOK, LabelOK, Shelf

LEMMA CreationBegins ==
  ASSUME CatInv, NEW r \in Requests, NEW at \in {0, 1}, Creation(r, at)
  PROVE  CatInv'
<1>1. PICK d \in Drafts : Begin(r, [kind |-> "create", draft |-> d, at |-> at])
  BY DEF Creation
<1>2. JobOK([kind |-> "create", draft |-> d, at |-> at])
  BY DEF JobOK
<1> QED BY <1>1, <1>2, BeginKeeps

LEMMA UpdateBegins ==
  ASSUME CatInv, NEW r \in Requests, BeginUpdate(r)
  PROVE  CatInv'
<1>1. PICK p \in Present, patch \in Patches, unit \in Units \cup {NoUnit} :
        /\ unit \notin {NoUnit, product[p].unit} => stock[p] = NoUnit
        /\ Begin(r, [kind |-> "update", product |-> p, patch |-> patch, unit |-> unit,
                     read |-> product[p], counted |-> stock[p]])
  BY DEF BeginUpdate
<1> DEFINE job == [kind |-> "update", product |-> p, patch |-> patch, unit |-> unit,
                   read |-> product[p], counted |-> stock[p]]
<1>2. /\ job.kind = "update" /\ job.product = p /\ job.patch = patch /\ job.unit = unit
      /\ job.read = product[p] /\ job.counted = stock[p]
  OBVIOUS
<1>3. Before(product[p], p)
  BY VersionsSeen DEF CatInv, Present
<1> HIDE DEF job
<1>4. UpdateOK(job)
  BY <1>1, <1>2, <1>3 DEF UpdateOK, PatchOK
<1>5. JobOK(job)
  BY <1>2, <1>4 DEF JobOK
<1>6. Begin(r, job)
  BY <1>1 DEF job
<1> QED BY <1>5, <1>6, BeginKeeps

LEMMA ArchiveBegins ==
  ASSUME CatInv, NEW r \in Requests, BeginArchive(r)
  PROVE  CatInv'
<1>1. PICK p \in Live : Begin(r, [kind |-> "archive", product |-> p])
  BY DEF BeginArchive
<1>2. JobOK([kind |-> "archive", product |-> p])
  BY <1>1 DEF JobOK, Live, Present
<1> QED BY <1>1, <1>2, BeginKeeps

LEMMA PushBegins ==
  ASSUME CatInv, NEW r \in Requests, BeginPush(r)
  PROVE  CatInv'
<1>0. PICK p \in Present, patch \in Patches, at \in 1..MaxTime : \E base :
        LET edit == [fields |-> patch.fields, at |-> at, base |-> base]
            row  == Dated(product[p])
        IN  Begin(r, [kind |-> "push", product |-> p, edit |-> edit, patch |-> patch,
                      accepted |-> Accepted(edit, row), rejected |-> Rejected(edit, row),
                      read |-> product[p]])
  BY DEF BeginPush, Dated
<1>1. PICK base :
        LET edit == [fields |-> patch.fields, at |-> at, base |-> base]
            row  == Dated(product[p])
        IN  Begin(r, [kind |-> "push", product |-> p, edit |-> edit, patch |-> patch,
                      accepted |-> Accepted(edit, row), rejected |-> Rejected(edit, row),
                      read |-> product[p]])
  BY <1>0
<1> DEFINE edit == [fields |-> patch.fields, at |-> at, base |-> base]
           row  == Dated(product[p])
           job == [kind |-> "push", product |-> p, edit |-> edit, patch |-> patch,
                   accepted |-> Accepted(edit, row), rejected |-> Rejected(edit, row),
                   read |-> product[p]]
<1>2. /\ job.kind = "push" /\ job.product = p /\ job.edit = edit /\ job.patch = patch
      /\ job.accepted = Accepted(edit, row) /\ job.rejected = Rejected(edit, row)
      /\ job.read = product[p]
  OBVIOUS
<1>3. edit.at = at /\ edit.fields = patch.fields
  OBVIOUS
<1>5. Before(product[p], p)
  BY VersionsSeen DEF CatInv, Present
<1>6. Begin(r, job)
  BY <1>1
<1> HIDE DEF job, edit
<1>7. PushOK(job)
  BY <1>2, <1>3, <1>5 DEF PushOK, PatchOK
<1>8. JobOK(job)
  BY <1>2, <1>7 DEF JobOK
<1> QED BY <1>6, <1>8, BeginKeeps

LEMMA AcknowledgeBegins ==
  ASSUME CatInv, NEW r \in Requests, BeginAcknowledge(r)
  PROVE  CatInv'
<1>1. PICK i \in DOMAIN inbox : Begin(r, [kind |-> "acknowledge", entry |-> i, seen |-> inbox[i].seen])
  BY DEF BeginAcknowledge
<1>2. JobOK([kind |-> "acknowledge", entry |-> i, seen |-> inbox[i].seen])
  BY DEF JobOK
<1> QED BY <1>1, <1>2, BeginKeeps

LEMMA CategoryBegins ==
  ASSUME CatInv, NEW r \in Requests, BeginCategory(r) \/ BeginRename(r) \/ BeginShelve(r)
  PROVE  CatInv'
<1>1. \A s \in Shelf : s[1] \in Categories /\ s[1] # NoCategory
  BY ShelfType, CatalogueAssumption DEF CatInv
<1>2. CASE BeginCategory(r)
  <2>1. PICK name \in Names :
          /\ NameIsFree(name, NoCategory)
          /\ Begin(r, [kind |-> "category", name |-> name, shelf |-> Shelf])
    BY <1>2 DEF BeginCategory
  <2>2. JobOK([kind |-> "category", name |-> name, shelf |-> Shelf])
    BY <1>1, <2>1 DEF JobOK, Unshelved, NameIsFree
  <2> QED BY <2>1, <2>2, BeginKeeps
<1>3. CASE BeginRename(r)
  <2>1. PICK c \in Categories \ FreshCategories, name \in Names :
          /\ NameIsFree(name, c)
          /\ Begin(r, [kind |-> "rename", category |-> c, name |-> name, shelf |-> Shelf])
    BY <1>3 DEF BeginRename
  <2>2. JobOK([kind |-> "rename", category |-> c, name |-> name, shelf |-> Shelf])
    BY <2>1 DEF JobOK, Unshelved, NameIsFree
  <2> QED BY <2>1, <2>2, BeginKeeps
<1>4. CASE BeginShelve(r)
  <2>1. PICK c \in Categories :
          /\ category[c].state = "live"
          /\ Begin(r, [kind |-> "shelve", category |-> c])
    BY <1>4 DEF BeginShelve
  <2>2. JobOK([kind |-> "shelve", category |-> c])
    BY <2>1 DEF JobOK, FreshCategories
  <2> QED BY <2>1, <2>2, BeginKeeps
<1> QED BY <1>2, <1>3, <1>4

LEMMA AdoptBegins ==
  ASSUME CatInv, NEW r \in Requests, BeginAdopt(r)
  PROVE  CatInv'
<1>1. PICK wanted \in (SUBSET Masters) \ {{}}, opening \in {0, 1000} :
        /\ ~BadQuantity(opening, MasterUnit)
        /\ Begin(r, [kind |-> "adopt", opening |-> opening, mirrors |-> Mirrors, seen |-> Versions,
                     new |-> wanted \ {product[p].master : p \in Live}])
  BY DEF BeginAdopt
<1> DEFINE job == [kind |-> "adopt", opening |-> opening, mirrors |-> Mirrors, seen |-> Versions,
                   new |-> wanted \ {product[p].master : p \in Live}]
<1>2. /\ job.kind = "adopt" /\ job.mirrors = Mirrors /\ job.seen = Versions
      /\ job.new = wanted \ {product[p].master : p \in Live}
  OBVIOUS
<1>3. \A p \in Products : product[p].state = "live" => product[p].master \notin job.new
  BY <1>2 DEF Live
<1>4. Begin(r, job)
  BY <1>1
<1> HIDE DEF job
<1>5. AdoptOK(job)
  BY <1>1, <1>2, <1>3, VersionsSeen DEF AdoptOK, Mirrors, CatInv
<1>6. JobOK(job)
  BY <1>2, <1>5 DEF JobOK
<1> QED BY <1>4, <1>6, BeginKeeps

LEMMA PreviewBegins ==
  ASSUME CatInv, NEW r \in Requests, BeginPreview(r)
  PROVE  CatInv'
<1>1. PICK i \in DOMAIN Files, default \in Units \cup {NoUnit} :
        Begin(r, [kind |-> "preview", seen |-> Versions, file |-> Files[i], default |-> default,
                  shown |-> [l \in DOMAIN Files[i] |->
                                [verdict |-> Preview(Files[i], default, product, Live, l),
                                 of |-> FindClash(Files[i][l], product, Live).product]]])
  BY DEF BeginPreview
<1> DEFINE file == Files[i]
           shown == [l \in DOMAIN file |->
                       [verdict |-> Preview(file, default, product, Live, l),
                        of |-> FindClash(file[l], product, Live).product]]
           job == [kind |-> "preview", seen |-> Versions, file |-> file, default |-> default,
                   shown |-> shown]
<1>2. /\ job.kind = "preview" /\ job.seen = Versions /\ job.file = file
      /\ job.default = default /\ job.shown = shown
  OBVIOUS
<1>3. file \in Seq(Cells)
  BY InputAssumption
<1>4. \A l \in DOMAIN file : /\ shown[l].verdict = Preview(file, default, product, Live, l)
                             /\ shown[l].of = FindClash(file[l], product, Live).product
  OBVIOUS
<1>5. Begin(r, job)
  BY <1>1
<1> HIDE DEF job, shown, file
<1>6. \A l \in GoodLines(file, default) : shown[l].verdict # "ERROR"
  BY <1>4 DEF GoodLines, OkLines, Preview
<1>7. PreviewOK(job)
  BY <1>1, <1>2, <1>3, <1>4, <1>6, VersionsSeen DEF PreviewOK, CatInv
<1>8. JobOK(job)
  BY <1>2, <1>7 DEF JobOK
<1> QED BY <1>5, <1>8, BeginKeeps

-----------------------------------------------------------------------------
(* The plan of an import.                                                  *)

\* A row that gives up a code shares no other than it did.
LEMMA WithoutIsLess ==
  ASSUME NEW a \in Cells, NEW field
  PROVE  /\ WithoutCode(a, field) \in Cells
         /\ WithoutCode(a, field).unit = a.unit /\ WithoutCode(a, field).category = a.category
         /\ WithoutCode(a, field).sku \in {a.sku, NoCode}
         /\ WithoutCode(a, field).short \in {a.short, NoCode}
         /\ field = "sku" => WithoutCode(a, field).sku = NoCode
         /\ field = "shortCode" => WithoutCode(a, field).short = NoCode
BY DEF WithoutCode, Cells

\* Which product a row collides with, and by which code.
LEMMA ClashFacts ==
  ASSUME NEW row
  PROVE  LET clash == FindClash(row, product, Live) IN
         /\ clash = None =>
              \A p \in Live : ~SharesCode(row, product[p])
         /\ clash # None => clash.product \in Live
         /\ clash # None => clash.field \in {"sku", "shortCode"}
         /\ clash.field = "sku" => \E p \in Live : row.sku # NoCode /\ product[p].sku = row.sku
         /\ clash.field = "shortCode" =>
              ~\E p \in Live : row.sku # NoCode /\ product[p].sku = row.sku
<1> DEFINE bySku   == {p \in Live : row.sku # NoCode /\ product[p].sku = row.sku}
           byShort == {p \in Live : row.short # NoCode /\ product[p].short = row.short}
           clash == FindClash(row, product, Live)
<1>1. clash = IF bySku # {} THEN [product |-> CHOOSE p \in bySku : TRUE, field |-> "sku"]
              ELSE IF byShort # {} THEN [product |-> CHOOSE p \in byShort : TRUE, field |-> "shortCode"]
              ELSE None
  BY DEF FindClash
<1>2. None.field = "none"
  BY DEF None
<1>3. CASE bySku # {}
  <2>1. clash.field = "sku" /\ clash.product = CHOOSE p \in bySku : TRUE
    BY <1>1, <1>3
  <2>2. clash # None /\ clash.product \in bySku
    BY <1>2, <1>3, <2>1
  <2> QED BY <2>1, <2>2
<1>4. CASE bySku = {} /\ byShort # {}
  <2>1. clash.field = "shortCode" /\ clash.product = CHOOSE p \in byShort : TRUE
    BY <1>1, <1>4
  <2>2. clash # None /\ clash.product \in byShort
    BY <1>2, <1>4, <2>1
  <2> QED BY <1>4, <2>1, <2>2
<1>5. CASE bySku = {} /\ byShort = {}
  <2>1. clash = None
    BY <1>1, <1>5
  <2>2. \A p \in Live : ~SharesCode(row, product[p])
    BY <1>5 DEF SharesCode
  <2> QED BY <1>2, <2>1, <2>2
<1> QED BY <1>3, <1>4, <1>5

LEMMA PlanFacts ==
  ASSUME NEW file \in Seq(Cells), NEW default \in Units \cup {NoUnit}, NEW decisions, NEW accept
  PROVE  LET plan == Plan(file, default, decisions, accept, product, Live) IN
         /\ DOMAIN plan.create \subseteq GoodLines(file, default)
         /\ DOMAIN plan.update \subseteq GoodLines(file, default)
         /\ \A l \in DOMAIN plan.create :
               /\ plan.create[l] \in Cells
               /\ UnitOf(plan.create[l], default) \in Units
         /\ \A l \in DOMAIN plan.update :
               /\ decisions[l] = "UPDATE" /\ plan.update[l] \in Live
               /\ plan.update[l] = FindClash(file[l], product, Live).product
         /\ Fits(plan.create, file)
<1> DEFINE taken(i) == FindClash(file[i], product, Live)
           good     == {i \in GoodLines(file, default) : accept \/ Warnings(file[i]) = {}}
           creates  == {i \in good : taken(i) = None \/ decisions[i] = "CREATE_ANYWAY"}
           updates  == {i \in good : taken(i) # None /\ decisions[i] = "UPDATE"}
           create   == [i \in creates |-> IF taken(i) = None THEN file[i]
                                          ELSE WithoutCode(file[i], taken(i).field)]
           update   == [i \in updates |-> taken(i).product]
           plan     == Plan(file, default, decisions, accept, product, Live)
<1>1. plan.create = create /\ plan.update = update
  BY DEF Plan, GoodLines
<1>2. /\ DOMAIN create = creates /\ DOMAIN update = updates
      /\ creates \subseteq GoodLines(file, default) /\ updates \subseteq GoodLines(file, default)
      /\ GoodLines(file, default) \subseteq DOMAIN file
  BY DEF GoodLines, OkLines
<1>3. \A l \in DOMAIN file : file[l] \in Cells
  OBVIOUS
<1>4. \A l \in updates : decisions[l] = "UPDATE" /\ update[l] = taken(l).product /\ taken(l) # None
  OBVIOUS
<1>5. \A l \in updates : update[l] \in Live
  BY <1>4, ClashFacts
<1>6. \A l \in creates : create[l] = IF taken(l) = None THEN file[l]
                                     ELSE WithoutCode(file[l], taken(l).field)
  OBVIOUS
<1> HIDE DEF create, update, creates, updates, good, plan
<1>7. \A l \in creates : /\ create[l] \in Cells /\ create[l].unit = file[l].unit
                         /\ create[l].sku \in {file[l].sku, NoCode}
                         /\ create[l].short \in {file[l].short, NoCode}
  BY <1>2, <1>3, <1>6, WithoutIsLess
<1>8. \A l \in creates : UnitOf(create[l], default) \in Units
  <2> SUFFICES ASSUME NEW l \in creates PROVE UnitOf(create[l], default) \in Units
    OBVIOUS
  <2>1. RowOk(file[l], default) /\ file[l] \in Cells
    BY <1>2, <1>3 DEF GoodLines, OkLines
  <2>2. UnitOf(file[l], default) \notin {NoUnit, "unknown"}
    BY <2>1 DEF RowOk, Errors
  <2>3. UnitOf(file[l], default) \in Units \cup {NoUnit, "unknown"}
    BY <2>1 DEF UnitOf, Cells
  <2> QED BY <1>7, <2>2, <2>3 DEF UnitOf
<1>9. ASSUME NEW l \in creates, NEW m \in creates \ {l}
      PROVE  ~SharesCode(create[l], create[m])
  <2>1. ~SharesCode(file[l], file[m])
    BY <1>2 DEF GoodLines, DuplicateLines
  <2> QED BY <1>7, <2>1 DEF SharesCode
<1>10. ASSUME NEW l \in creates
       PROVE  (\A p \in Live : ~SharesCode(create[l], product[p])) \/ BothTaken(file[l], product, Live)
  <2>1. file[l] \in Cells
    BY <1>2, <1>3
  <2>2. CASE taken(l) = None
    BY <1>6, <2>2, ClashFacts
  <2>3. CASE taken(l) # None
    <3>1. taken(l).field \in {"sku", "shortCode"}
          /\ create[l] = WithoutCode(file[l], taken(l).field)
      BY <1>6, <2>3, ClashFacts
    <3>2. CASE taken(l).field = "sku"
      <4>1. create[l].sku = NoCode /\ create[l].short \in {file[l].short, NoCode}
        BY <2>1, <3>1, <3>2, WithoutIsLess
      <4>2. \E p \in Live : file[l].sku # NoCode /\ product[p].sku = file[l].sku
        BY <3>2, ClashFacts
      <4> QED BY <4>1, <4>2 DEF SharesCode, BothTaken
    <3>3. CASE taken(l).field = "shortCode"
      <4>1. create[l].short = NoCode /\ create[l].sku \in {file[l].sku, NoCode}
        BY <2>1, <3>1, <3>3, WithoutIsLess
      <4>2. ~\E p \in Live : file[l].sku # NoCode /\ product[p].sku = file[l].sku
        BY <3>3, ClashFacts
      <4> QED BY <4>1, <4>2 DEF SharesCode
    <3> QED BY <3>1, <3>2, <3>3
  <2> QED BY <2>2, <2>3
<1>11. Fits(create, file)
  BY <1>2, <1>9, <1>10 DEF Fits
<1> QED BY <1>1, <1>2, <1>4, <1>5, <1>7, <1>8, <1>11 DEF plan

\* What BeginImport makes of a preview.
LEMMA ImportBegins ==
  ASSUME CatInv, NEW r \in Requests, BeginImport(r)
  PROVE  /\ CatInv' /\ UNCHANGED product
         /\ \A s \in Requests \ {r} : request'[s] = request[s]
         /\ request[r].kind = "preview" /\ PreviewOK(request[r]) /\ request[r].file \in Seq(Cells)
         /\ LET plan == request'[r].plan
                file == request[r].file
                good == GoodLines(file, request[r].default)
            IN  /\ DOMAIN plan.create \subseteq good /\ DOMAIN plan.update \subseteq good
                /\ good \subseteq DOMAIN file
                /\ \A l \in DOMAIN plan.update :
                      /\ request[r].shown[l].verdict = "SKIP"
                      /\ plan.update[l] = FindClash(file[l], product, Live).product
<1> DEFINE q == request[r]
           good == GoodLines(q.file, q.default)
           Planned(decisions, accept) == Plan(q.file, q.default, decisions, accept, product, Live)
           Made(plan) == [kind |-> "import", file |-> q.file, shown |-> q.shown,
                          default |-> q.default, seen |-> Versions, shelf |-> Shelf, plan |-> plan]
<1>1. q.kind = "preview" /\ UNCHANGED <<now, product, category, stock, log, inbox, started>>
  BY DEF BeginImport
<1>2. PICK decisions, accept :
        /\ \A l \in DOMAIN q.file : q.shown[l].verdict # "SKIP" => decisions[l] = "SKIP"
        /\ request' = [request EXCEPT ![r] = Made(Planned(decisions, accept))]
  BY DEF BeginImport
<1>3. PreviewOK(q) /\ q.file \in Seq(Cells) /\ q.default \in Units \cup {NoUnit}
  BY <1>1 DEF CatInv, RequestsOK, JobOK, PreviewOK
<1>4. PICK plan : plan = Planned(decisions, accept)
  OBVIOUS
<1>5. /\ DOMAIN plan.create \subseteq good /\ DOMAIN plan.update \subseteq good
      /\ \A l \in DOMAIN plan.create :
            plan.create[l] \in Cells /\ UnitOf(plan.create[l], q.default) \in Units
      /\ \A l \in DOMAIN plan.update :
            /\ decisions[l] = "UPDATE" /\ plan.update[l] \in Live
            /\ plan.update[l] = FindClash(q.file[l], product, Live).product
      /\ Fits(plan.create, q.file)
  <2> HIDE DEF good
  <2> QED BY <1>3, <1>4, PlanFacts DEF good
<1>6. good \subseteq DOMAIN q.file /\ IsFiniteSet(DOMAIN plan.update)
  <2>1. good \subseteq DOMAIN q.file
    BY DEF GoodLines, OkLines
  <2>2. Len(q.file) \in Nat /\ DOMAIN q.file = 1..Len(q.file)
    BY <1>3
  <2>3. IsFiniteSet(DOMAIN q.file)
    BY <2>2, FS_Interval
  <2>4. DOMAIN plan.update \subseteq DOMAIN q.file
    BY <1>5, <2>1
  <2> QED BY <2>1, <2>3, <2>4, FS_Subset
<1>7. PICK job : job = Made(plan)
  OBVIOUS
<1>8. /\ job.kind = "import" /\ job.file = q.file /\ job.default = q.default
      /\ job.seen = Versions /\ job.shelf = Shelf /\ job.plan = plan
  BY <1>7
<1>9. request' = [request EXCEPT ![r] = job]
  BY <1>2, <1>4, <1>7
<1>10. /\ request = [s \in Requests |-> request[s]]
       /\ \A s \in Requests : JobOK(request[s])
       /\ started \in 0..MaxRequests /\ TablesOK
  BY DEF CatInv, RequestsOK
<1> HIDE DEF q, good, Planned, Made
<1>11. request'[r] = job /\ \A s \in Requests \ {r} : request'[s] = request[s]
  BY <1>9, <1>10
<1>12. ImportOK(job)
  <2>1. \A s \in Shelf : s[1] \in Categories /\ s[2] \in Names
    BY <1>10, ShelfType
  <2>2. \A l \in DOMAIN plan.create :
          /\ plan.create[l].sku \in Codes \cup {NoCode} /\ plan.create[l].short \in Codes \cup {NoCode}
          /\ plan.create[l].category \in Names \cup {NoName}
    BY <1>5 DEF Cells
  <2>3. \A l \in DOMAIN plan.update : plan.update[l] \in Present
    BY <1>5 DEF Live, Present
  <2> QED BY <1>5, <1>6, <1>8, <1>10, <2>1, <2>2, <2>3, VersionsSeen DEF ImportOK
<1>13. JobOK(job)
  BY <1>8, <1>12 DEF JobOK
<1>14. CatInv'
  <2>1. TablesOK' /\ Moves
    BY <1>1, <1>10, SameRows
  <2>2. \A j : JobOK(j) => JobOK(j)'
    BY <1>10, <2>1, JobStays
  <2>3. \A s \in Requests : JobOK(request[s])'
    BY <1>10, <1>11, <1>13, <2>2
  <2>4. request' = [s \in Requests |-> request'[s]]
    BY <1>9, <1>10
  <2> QED BY <1>1, <1>10, <2>1, <2>3, <2>4 DEF CatInv, RequestsOK
<1>15. \A l \in DOMAIN plan.update : q.shown[l].verdict = "SKIP"
  BY <1>2, <1>5, <1>6
<1> QED BY <1>1, <1>3, <1>5, <1>6, <1>8, <1>11, <1>14, <1>15 DEF q, good

-----------------------------------------------------------------------------
(* Writing one row.                                                        *)

\* The next version of a row, in a unit.
NextVersion(row, old, unit) ==
    /\ RowOK(row) /\ row.state = old.state /\ row.master = old.master
    /\ row.version = old.version + 1 /\ row.unit = unit

\* When its fields were decided.
Decided(row, old, fields, nulls, at) ==
    \A f \in Fields : row.wrote[f] = IF f \notin UpdateWrites(fields, nulls) THEN old.wrote[f]
                                     ELSE IF at = 0 THEN now ELSE at

LEMMA UpdatedRow ==
  ASSUME now \in 1..MaxTime, NEW old, RowOK(old), old.state # "absent", NEW fields,
         NEW patch \in Patches, NEW unit \in Units \cup {NoUnit}, NEW at \in 0..MaxTime
  PROVE  /\ NextVersion(Updated(old, fields, patch, unit, at), old, IF unit = NoUnit THEN old.unit ELSE unit)
         /\ Decided(Updated(old, fields, patch, unit, at), old, fields, patch.nulls, at)
<1> DEFINE row     == Updated(old, fields, patch, unit, at)
           written == UpdateWrites(fields, patch.nulls)
<1>1. /\ RowShape(old) /\ RowOK(old) /\ old.state # "absent" /\ now \in 1..MaxTime /\ MaxTime \in Nat
  BY CatalogueAssumption DEF RowOK
<1>0. /\ patch.sku \in Codes \cup {NoCode} /\ patch.short \in Codes \cup {NoCode}
      /\ patch.category \in Categories \cup {NoCategory}
  BY InputAssumption
<1> HIDE DEF written
<1>2. /\ row.state = old.state /\ row.master = old.master /\ row.version = old.version + 1
      /\ row.unit = (IF unit = NoUnit THEN old.unit ELSE unit)
      /\ row.clock = (IF at = 0 THEN old.clock ELSE at) /\ row.updated = now
      /\ row.wrote = [f \in Fields |-> IF f \notin written THEN old.wrote[f]
                                       ELSE IF at = 0 THEN now ELSE at]
      /\ row.sku = (IF "sku" \in written THEN patch.sku ELSE old.sku)
      /\ row.short = (IF "shortCode" \in written THEN patch.short ELSE old.short)
      /\ row.category = (IF "category" \in written THEN patch.category ELSE old.category)
      /\ row.quiet = FALSE
  BY <1>1 DEF Updated, RowShape, RowFields, written
<1>3. RowShape(row)
  <2>1. now \in 0..MaxTime /\ old.version + 1 \in Nat
    BY <1>1 DEF RowShape
  <2>2. \A f \in Fields : old.wrote[f] \in 0..MaxTime
    BY <1>1 DEF RowShape
  <2>3. \A f \in Fields : row.wrote[f] \in 0..MaxTime
    BY <1>2, <2>1, <2>2
  <2>4. row.wrote \in [Fields -> 0..MaxTime]
    BY <1>2, <2>3
  <2>5. DOMAIN row = RowFields
    BY <1>1 DEF Updated, RowShape
  <2> HIDE DEF row
  <2> QED BY <1>0, <1>1, <1>2, <2>1, <2>4, <2>5 DEF RowShape
<1>4. row.version # 0 /\ row.unit \in Units /\ row.updated <= now
  <2>1. old.version \in Nat /\ old.unit \in Units
    BY <1>1 DEF RowShape, RowOK
  <2> QED BY <1>1, <1>2, <2>1
<1>5. ASSUME row.clock = 0, NEW f \in Fields PROVE row.wrote[f] <= row.updated
  <2>1. at = 0 /\ old.clock = 0
    BY <1>2, <1>5
  <2>2. old.wrote[f] <= old.updated /\ old.updated <= now
    BY <1>1, <2>1 DEF RowOK
  <2>3. old.wrote[f] \in Int /\ old.updated \in Int /\ now \in Int
    BY <1>1 DEF RowShape
  <2> QED BY <1>2, <2>1, <2>2, <2>3
<1>6. RowOK(row)
  BY <1>1, <1>2, <1>3, <1>4, <1>5 DEF RowOK
<1>7. \A f \in Fields : row.wrote[f] = IF f \notin written THEN old.wrote[f]
                                         ELSE IF at = 0 THEN now ELSE at
  BY <1>2
<1> QED
  <2> HIDE DEF row
  <2>1. /\ NextVersion(row, old, IF unit = NoUnit THEN old.unit ELSE unit)
        /\ Decided(row, old, fields, patch.nulls, at)
    BY <1>2, <1>6, <1>7 DEF NextVersion, Decided, written
  <2> QED BY <2>1 DEF row

\* A present row gets a later version, and the entry that goes with it.
LEMMA RowIsWritten ==
  ASSUME TablesOK, NEW p \in Present, NEW row, WriteRow(p, row), RowOK(row),
         row.version = product[p].version + 1, row.state # "absent",
         row.master = product[p].master, row.state = "live" => product[p].state = "live",
         UNCHANGED <<now, category, stock>>,
         inbox' \in Seq(EntryType), DOMAIN inbox \subseteq DOMAIN inbox'
  PROVE  /\ TablesOK' /\ Moves
         /\ product'[p] = row /\ \A q \in Products \ {p} : product'[q] = product[q]
<1>1. p \in Products /\ product[p].state # "absent" /\ product[p].version \in Nat
  BY DEF Present, TablesOK, RowOK, RowShape
<1>2. /\ product = [q \in Products |-> product[q]]
      /\ product' = [product EXCEPT ![p] = row]
      /\ log' = log \cup {<<"product", p, row.version>>}
  BY DEF TablesOK, WriteRow
<1>3. /\ product'[p] = row /\ \A q \in Products \ {p} : product'[q] = product[q]
      /\ product' = [q \in Products |-> product'[q]]
  BY <1>1, <1>2
<1>4. Moves
  <2>1. RowMoves(p)
    BY <1>1, <1>3 DEF RowMoves
  <2>2. \A q \in Products : RowMoves(q)
    BY <1>3, <2>1 DEF RowMoves
  <2> QED BY <2>2 DEF Moves
<1>5. \A q \in Products : RowOK(product[q])'
  BY <1>3 DEF TablesOK, RowOK
<1>6. LogHoldsTheRows'
  <2>1. Present' \subseteq Present /\ FreshCategories' = FreshCategories
    BY <1>1, <1>3 DEF Present, FreshCategories
  <2>2. \A q \in Present' : product'[q].quiet \/ <<"product", q, product'[q].version>> \in log'
    BY <1>2, <1>3, <2>1 DEF TablesOK, LogHoldsTheRows, Present
  <2>3. \A c \in Categories \ FreshCategories : category[c].mirrors \/ <<"category", c, 1>> \in log'
    BY <1>2 DEF TablesOK, LogHoldsTheRows
  <2> QED BY <2>1, <2>2, <2>3 DEF LogHoldsTheRows
<1>7. \A q \in Products : stock'[q] # NoUnit => product'[q].state # "absent"
  BY <1>1, <1>3 DEF TablesOK
<1>8. \A c \in Categories : LabelOK(category'[c])
  BY DEF TablesOK
<1> QED BY <1>3, <1>4, <1>5, <1>6, <1>7, <1>8 DEF TablesOK

-----------------------------------------------------------------------------
(* Making rows.                                                            *)

LEMMA NewRowFacts ==
  ASSUME TablesOK, NEW draft, draft.sku \in Codes \cup {NoCode}, draft.short \in Codes \cup {NoCode},
         draft.unit \in Units, NEW master \in Masters \cup {NoMaster},
         NEW cat \in Categories \cup {NoCategory}, NEW at \in {0, 1}
  PROVE  LET row == NewRow(draft, master, cat, at) IN
         /\ RowOK(row) /\ row.state = "live" /\ row.version = 1 /\ row.master = master
         /\ row.unit = draft.unit
<1> DEFINE row == NewRow(draft, master, cat, at)
<1>1. /\ row.state = "live" /\ row.version = 1 /\ row.master = master /\ row.unit = draft.unit
      /\ row.sku = draft.sku /\ row.short = draft.short /\ row.category = cat /\ row.clock = at
      /\ row.updated = now /\ row.wrote = [f \in Fields |-> IF at = 0 THEN now ELSE at]
      /\ DOMAIN row = RowFields
  BY DEF NewRow, RowFields
<1>2. now \in 0..MaxTime /\ at \in 0..MaxTime /\ now <= now
  BY CatalogueAssumption DEF TablesOK
<1>3. row.wrote \in [Fields -> 0..MaxTime]
  BY <1>1, <1>2
<1> HIDE DEF row
<1>4. RowShape(row)
  BY <1>1, <1>2, <1>3 DEF RowShape, States
<1>5. RowOK(row)
  BY <1>1, <1>2, <1>4 DEF RowOK
<1> QED BY <1>1, <1>5 DEF row

\* Every other way of writing: rows made, rows an import overwrites, categories.
LEMMA TablesAreWritten ==
  ASSUME TablesOK, NEW made, made \subseteq FreshProducts,
         UNCHANGED <<now, inbox>>, log \subseteq log',
         product' = [p \in Products |-> product'[p]],
         \A p \in made : /\ RowOK(product'[p]) /\ product'[p].version = 1
                         /\ product'[p].state = "live" /\ <<"product", p, 1>> \in log',
         \A p \in Products \ made :
            \/ product'[p] = product[p]
            \/ /\ p \in Present /\ RowOK(product'[p]) /\ product'[p].quiet
               /\ product[p].version < product'[p].version
               /\ product'[p].state = product[p].state /\ product'[p].master = product[p].master,
         category' = [c \in Categories |-> category'[c]],
         \A c \in Categories :
            \/ category'[c] = category[c]
            \/ /\ LabelOK(category'[c]) /\ category'[c].state # "absent"
               /\ category'[c].mirrors \/ <<"category", c, 1>> \in log',
         stock' \in [Products -> Units \cup {NoUnit}],
         \A p \in Products : stock'[p] # NoUnit => stock[p] # NoUnit \/ p \in made
  PROVE  TablesOK' /\ Moves
<1>1. \A p \in Products : product[p].version \in Nat /\ (product[p].state = "absent" <=> product[p].version = 0)
  BY DEF TablesOK, RowOK, RowShape
<1>2. \A p \in made : p \in Products /\ product[p].state = "absent" /\ product[p].version = 0
  BY <1>1 DEF FreshProducts, Present
<1>3. Moves
  <2>1. ASSUME NEW p \in made PROVE RowMoves(p)
    <3>1. product[p].state = "absent" /\ product[p].version = 0 /\ product'[p].version = 1
      BY <1>2
    <3>2. product[p].version < product'[p].version
      BY <3>1
    <3> QED BY <3>1, <3>2 DEF RowMoves
  <2>2. \A p \in Products \ made : RowMoves(p)
    BY DEF RowMoves
  <2>3. \A c \in Categories : category[c].state # "absent" => category'[c].state # "absent"
    OBVIOUS
  <2>4. \A p \in Products : RowMoves(p)
    BY <2>1, <2>2
  <2>5. DOMAIN inbox \subseteq DOMAIN inbox'
    OBVIOUS
  <2> QED BY <2>3, <2>4, <2>5 DEF Moves
<1>4. \A p \in Products : RowOK(product[p])'
  <2>1. \A p \in Products : RowOK(product[p])
    BY DEF TablesOK
  <2>2. \A p \in Products : RowOK(product'[p])
    BY <2>1
  <2> QED BY <2>2 DEF RowOK
<1>5. \A c \in Categories : LabelOK(category[c])'
  BY DEF TablesOK, LabelOK
<1>6. \A p \in Products : stock'[p] # NoUnit => product'[p].state # "absent"
  <2> SUFFICES ASSUME NEW p \in Products, stock'[p] # NoUnit PROVE product'[p].state # "absent"
    OBVIOUS
  <2>1. CASE p \in made
    BY <2>1
  <2>2. CASE p \notin made
    <3>1. stock[p] # NoUnit
      BY <2>2
    <3>2. product[p].state # "absent"
      BY <3>1 DEF TablesOK
    <3> QED BY <2>2, <3>2
  <2> QED BY <2>1, <2>2
<1>7. LogHoldsTheRows'
  <2>1. ASSUME NEW p \in Products, product'[p].state # "absent"
        PROVE  product'[p].quiet \/ <<"product", p, product'[p].version>> \in log'
    <3>1. CASE p \in made
      BY <3>1
    <3>2. CASE p \notin made /\ product'[p] # product[p]
      BY <3>2
    <3>3. CASE p \notin made /\ product'[p] = product[p]
      <4>1. p \in Present
        BY <2>1, <3>3 DEF Present
      <4>2. product[p].quiet \/ <<"product", p, product[p].version>> \in log
        BY <4>1 DEF TablesOK, LogHoldsTheRows
      <4> QED BY <3>3, <4>2
    <3> QED BY <3>1, <3>2, <3>3
  <2>2. ASSUME NEW c \in Categories, category'[c].state # "absent"
        PROVE  category'[c].mirrors \/ <<"category", c, 1>> \in log'
    <3>1. CASE category'[c] = category[c]
      <4>1. c \in Categories \ FreshCategories
        BY <2>2, <3>1 DEF FreshCategories
      <4>2. category[c].mirrors \/ <<"category", c, 1>> \in log
        BY <4>1 DEF TablesOK, LogHoldsTheRows
      <4> QED BY <3>1, <4>2
    <3> QED BY <3>1
  <2> QED BY <2>1, <2>2 DEF LogHoldsTheRows, Present, FreshCategories
<1> QED BY <1>3, <1>4, <1>5, <1>6, <1>7 DEF TablesOK

-----------------------------------------------------------------------------
(* What requests end with.                                                 *)

LEMMA UpdateCommits ==
  ASSUME CatInv, NEW r \in Requests, CommitUpdate(r)
  PROVE  LET q == request[r] IN
         /\ CatInv' /\ Moves /\ q.kind = "update" /\ q.product \in Present /\ UpdateOK(q)
         /\ \A p \in Products \ {q.product} : product'[p] = product[p]
         /\ product'[q.product].state = product[q.product].state
         /\ product'[q.product].unit = IF q.unit = NoUnit THEN product[q.product].unit ELSE q.unit
<1> DEFINE q == request[r]
           row == Updated(product[q.product], q.patch.fields, q.patch, q.unit, 0)
<1>1. /\ q.kind = "update" /\ WriteRow(q.product, row) /\ End(r) /\ UNCHANGED <<category, stock, inbox>>
  BY DEF CommitUpdate
<1>2. TablesOK /\ UpdateOK(q)
  BY <1>1 DEF CatInv, RequestsOK, JobOK
<1>3. q.product \in Present /\ q.patch \in Patches /\ q.unit \in Units \cup {NoUnit}
  BY <1>2 DEF UpdateOK, PatchOK
<1>5. 0 \in 0..MaxTime
  BY CatalogueAssumption
<1> HIDE DEF q
<1>6. NextVersion(row, product[q.product], IF q.unit = NoUnit THEN product[q.product].unit ELSE q.unit)
  <2> DEFINE old == product[q.product]
  <2>1. now \in 1..MaxTime /\ RowOK(old) /\ old.state # "absent"
    BY <1>2, <1>3 DEF TablesOK, Present
  <2> HIDE DEF old
  <2>2. NextVersion(Updated(old, q.patch.fields, q.patch, q.unit, 0), old,
                    IF q.unit = NoUnit THEN old.unit ELSE q.unit)
    <3> DEFINE fields == q.patch.fields
               patch  == q.patch
               unit   == q.unit
    <3>1. patch \in Patches /\ unit \in Units \cup {NoUnit}
      BY <1>3
    <3> HIDE DEF fields, patch, unit
    <3>2. \A at \in 0..MaxTime : NextVersion(Updated(old, fields, patch, unit, at), old,
                                             IF unit = NoUnit THEN old.unit ELSE unit)
      BY <2>1, <3>1, UpdatedRow
    <3>3. NextVersion(Updated(old, fields, patch, unit, 0), old, IF unit = NoUnit THEN old.unit ELSE unit)
      BY <1>5, <3>2
    <3> QED BY <3>3 DEF fields, patch, unit
  <2> QED BY <2>2 DEF old
<1> HIDE DEF row
<1>7. /\ row.state # "absent" /\ RowOK(row) /\ row.state = product[q.product].state
      /\ row.master = product[q.product].master /\ row.version = product[q.product].version + 1
      /\ row.unit = IF q.unit = NoUnit THEN product[q.product].unit ELSE q.unit
  BY <1>3, <1>6 DEF Present, NextVersion
<1>8. inbox' \in Seq(EntryType) /\ UNCHANGED now
  BY <1>1, <1>2 DEF TablesOK, End
<1>9. /\ TablesOK' /\ Moves
      /\ product'[q.product] = row /\ \A p \in Products \ {q.product} : product'[p] = product[p]
  BY <1>1, <1>2, <1>3, <1>7, <1>8, RowIsWritten
<1>10. CatInv'
  BY <1>1, <1>9, EndKeeps
<1> QED BY <1>1, <1>2, <1>3, <1>7, <1>9, <1>10 DEF q

LEMMA ArchiveCommits ==
  ASSUME CatInv, NEW r \in Requests, CommitArchive(r)
  PROVE  /\ CatInv' /\ Moves /\ request[r].kind = "archive"
         /\ \A p \in Products : product'[p].unit = product[p].unit
         /\ \A p \in Products : product'[p].state = "live" => product'[p] = product[p]
<1> DEFINE p == request[r].product
           old == product[p]
           row == [old EXCEPT !.state = "archived", !.updated = now, !.version = @ + 1,
                              !.quiet = FALSE]
<1>1. /\ request[r].kind = "archive" /\ WriteRow(p, row) /\ End(r)
      /\ UNCHANGED <<category, stock, inbox>>
  BY DEF CommitArchive
<1>2. TablesOK /\ p \in Present
  BY <1>1 DEF CatInv, RequestsOK, JobOK
<1>3. RowOK(old) /\ RowShape(old) /\ old.state # "absent" /\ now \in 1..MaxTime /\ MaxTime \in Nat
  BY <1>2, CatalogueAssumption DEF TablesOK, RowOK, Present
<1> HIDE DEF p, old
<1>4. /\ row.state = "archived" /\ row.updated = now /\ row.version = old.version + 1
      /\ row.quiet = FALSE /\ row.sku = old.sku /\ row.short = old.short /\ row.unit = old.unit
      /\ row.master = old.master /\ row.category = old.category /\ row.clock = old.clock
      /\ row.wrote = old.wrote /\ DOMAIN row = RowFields
  BY <1>3 DEF RowShape, RowFields
<1> HIDE DEF row
<1>5. now \in 0..MaxTime /\ old.version \in Nat /\ old.version + 1 \in Nat /\ old.version + 1 # 0
  BY <1>3 DEF RowShape
<1>6. RowShape(row)
  BY <1>3, <1>4, <1>5 DEF RowShape, States
<1>7. ASSUME old.clock = 0, NEW f \in Fields PROVE old.wrote[f] <= now
  <2>1. old.wrote[f] <= old.updated /\ old.updated <= now
    BY <1>3, <1>7 DEF RowOK
  <2>2. old.wrote[f] \in Int /\ old.updated \in Int /\ now \in Int
    BY <1>3 DEF RowShape
  <2> QED BY <2>1, <2>2
<1>8. RowOK(row)
  <2>1. row.updated <= now
    BY <1>3, <1>4
  <2>2. old.unit \in Units
    BY <1>3 DEF RowOK
  <2> QED BY <1>4, <1>5, <1>6, <1>7, <2>1, <2>2 DEF RowOK
<1>9. inbox' \in Seq(EntryType) /\ UNCHANGED now
  BY <1>1, <1>2 DEF TablesOK, End
<1>10. WriteRow(p, row) /\ row.version = product[p].version + 1 /\ row.master = product[p].master
       /\ row.unit = product[p].unit
  BY <1>1, <1>4 DEF row, old
<1>11. /\ TablesOK' /\ Moves
       /\ product'[p] = row /\ \A x \in Products \ {p} : product'[x] = product[x]
  BY <1>1, <1>2, <1>4, <1>8, <1>9, <1>10, RowIsWritten
<1>12. CatInv'
  BY <1>1, <1>11, EndKeeps
<1> QED BY <1>1, <1>4, <1>10, <1>11, <1>12

\* An answered edit leaves one entry in the inbox when some of it was refused.
LEMMA InboxGrows ==
  ASSUME TablesOK, NEW r \in Requests, PushOK(request[r]), inbox' = InboxAfter(r)
  PROVE  /\ inbox' \in Seq(EntryType) /\ DOMAIN inbox \subseteq DOMAIN inbox'
         /\ request[r].rejected # {} =>
               \E i \in DOMAIN inbox' \ DOMAIN inbox : inbox'[i].fields = request[r].rejected
<1> DEFINE q == request[r]
<1>1. inbox \in Seq(EntryType) /\ MaxTime \in Nat
  BY CatalogueAssumption DEF TablesOK
<1>2. CASE q.rejected = {}
  BY <1>1, <1>2 DEF InboxAfter
<1>3. CASE q.rejected # {}
  <2> DEFINE entry == [product |-> q.product, fields |-> q.rejected, seen |-> 0]
  <2>1. q.product \in Products /\ q.rejected \subseteq AllFields
    <3>1. q.edit.fields \subseteq AllFields
      BY InputAssumption DEF PushOK
    <3> QED BY <3>1 DEF PushOK, PatchOK, Present, Rejected
  <2>2. entry \in EntryType /\ entry.fields = q.rejected
    BY <1>1, <1>3, <2>1 DEF EntryType
  <2>3. inbox' = Append(inbox, entry)
    BY <1>3 DEF InboxAfter
  <2> HIDE DEF entry
  <2>4. /\ inbox' \in Seq(EntryType) /\ DOMAIN inbox = 1..Len(inbox) /\ Len(inbox) \in Nat
        /\ DOMAIN inbox' = 1..(Len(inbox) + 1) /\ inbox'[Len(inbox) + 1] = entry
    BY <1>1, <2>2, <2>3
  <2>5. Len(inbox) + 1 \in DOMAIN inbox' \ DOMAIN inbox
    BY <2>4
  <2>6. DOMAIN inbox \subseteq DOMAIN inbox'
    BY <2>4
  <2> QED BY <2>2, <2>4, <2>5, <2>6
<1> QED BY <1>2, <1>3

LEMMA InboxIsWritten ==
  ASSUME TablesOK, UNCHANGED <<now, product, category, stock, log>>,
         inbox' \in Seq(EntryType), DOMAIN inbox \subseteq DOMAIN inbox'
  PROVE  TablesOK' /\ Moves
<1>1. Moves
  BY DEF Moves, RowMoves
<1>2. LogHoldsTheRows'
  BY DEF TablesOK, LogHoldsTheRows, Present, FreshCategories
<1> QED BY <1>1, <1>2 DEF TablesOK, RowOK, LabelOK

LEMMA PushCommits ==
  ASSUME CatInv, NEW r \in Requests, CommitPush(r)
  PROVE  LET q   == request[r]
             row == product[q.product]
         IN  /\ CatInv' /\ Moves /\ q.kind = "push" /\ q.product \in Present /\ PushOK(q)
             /\ inbox' = InboxAfter(r)
             /\ \A p \in Products : product'[p].unit = product[p].unit
             /\ \A p \in Products : /\ product'[p].state = product[p].state
                                    /\ product'[p].master = product[p].master
             /\ \A f \in Fields : product'[q.product].wrote[f] =
                    IF f \in UpdateWrites(q.accepted, q.patch.nulls) THEN q.edit.at ELSE row.wrote[f]
<1> DEFINE q   == request[r]
           row == Updated(product[q.product], q.accepted, q.patch, NoUnit, q.edit.at)
<1>1. /\ q.kind = "push" /\ WriteRow(q.product, row) /\ End(r) /\ UNCHANGED <<category, stock>>
      /\ inbox' = InboxAfter(r)
  BY DEF CommitPush
<1>2. TablesOK /\ PushOK(q)
  BY <1>1 DEF CatInv, RequestsOK, JobOK
<1>3. /\ q.product \in Present /\ q.product \in Products
      /\ q.patch \in Patches /\ q.edit.at \in 1..MaxTime
  BY <1>2 DEF PushOK, PatchOK, Present
<1>4. q.edit.at \in 0..MaxTime /\ q.edit.at # 0
  BY <1>3, CatalogueAssumption
<1>5. inbox' \in Seq(EntryType) /\ DOMAIN inbox \subseteq DOMAIN inbox'
  BY <1>1, <1>2, InboxGrows
<1>6. /\ NextVersion(row, product[q.product], product[q.product].unit)
      /\ \A f \in Fields : row.wrote[f] = IF f \in UpdateWrites(q.accepted, q.patch.nulls) THEN q.edit.at
                                          ELSE product[q.product].wrote[f]
  <2> DEFINE old    == product[q.product]
             fields == q.accepted
             patch  == q.patch
             at     == q.edit.at
  <2>1. /\ now \in 1..MaxTime /\ RowOK(old) /\ old.state # "absent"
        /\ patch \in Patches /\ at \in 0..MaxTime
    BY <1>2, <1>3, <1>4 DEF TablesOK, Present
  <2>2. at # 0
    BY <1>4
  <2> HIDE DEF old, fields, patch, at
  <2>3. \A unit \in Units \cup {NoUnit} :
          /\ NextVersion(Updated(old, fields, patch, unit, at), old,
                         IF unit = NoUnit THEN old.unit ELSE unit)
          /\ Decided(Updated(old, fields, patch, unit, at), old, fields, patch.nulls, at)
    BY <2>1, UpdatedRow
  <2>4. /\ NextVersion(Updated(old, fields, patch, NoUnit, at), old, old.unit)
        /\ Decided(Updated(old, fields, patch, NoUnit, at), old, fields, patch.nulls, at)
    BY <2>3
  <2>5. \A f \in Fields : Updated(old, fields, patch, NoUnit, at).wrote[f] =
              IF f \in UpdateWrites(fields, patch.nulls) THEN at ELSE old.wrote[f]
    BY <2>2, <2>4 DEF Decided
  <2> QED BY <2>4, <2>5 DEF old, fields, patch, at
<1> HIDE DEF q, row
<1>7. /\ row.state # "absent" /\ RowOK(row) /\ row.state = product[q.product].state
      /\ row.master = product[q.product].master /\ row.version = product[q.product].version + 1
      /\ row.unit = product[q.product].unit
  BY <1>3, <1>6 DEF Present, NextVersion
<1>8. UNCHANGED <<now, category, stock>>
  BY <1>1 DEF End
<1>9. /\ TablesOK' /\ Moves
      /\ product'[q.product] = row /\ \A p \in Products \ {q.product} : product'[p] = product[p]
  BY <1>1, <1>2, <1>3, <1>5, <1>7, <1>8, RowIsWritten
<1>10. CatInv'
  BY <1>1, <1>9, EndKeeps
<1>11. \A p \in Products : /\ product'[p].unit = product[p].unit
                           /\ product'[p].state = product[p].state
                           /\ product'[p].master = product[p].master
  BY <1>7, <1>9
<1> QED BY <1>1, <1>2, <1>3, <1>6, <1>9, <1>10, <1>11 DEF q

LEMMA RefusalCommits ==
  ASSUME CatInv, NEW r \in Requests, CommitRefusal(r)
  PROVE  /\ CatInv' /\ Moves /\ request[r].kind = "push" /\ PushOK(request[r])
         /\ request[r].accepted = {} /\ inbox' = InboxAfter(r) /\ UNCHANGED <<product, category>>
<1>1. /\ request[r].kind = "push" /\ request[r].accepted = {} /\ inbox' = InboxAfter(r)
      /\ End(r) /\ UNCHANGED <<now, product, category, stock, log>>
  BY DEF CommitRefusal, End
<1>2. TablesOK /\ PushOK(request[r])
  BY <1>1 DEF CatInv, RequestsOK, JobOK
<1>3. inbox' \in Seq(EntryType) /\ DOMAIN inbox \subseteq DOMAIN inbox'
  BY <1>1, <1>2, InboxGrows
<1>4. TablesOK' /\ Moves
  BY <1>1, <1>2, <1>3, InboxIsWritten
<1>5. CatInv'
  BY <1>1, <1>4, EndKeeps
<1> QED BY <1>1, <1>2, <1>4, <1>5

LEMMA CreateCommits ==
  ASSUME CatInv, NEW r \in Requests, CommitCreate(r)
  PROVE  /\ CatInv' /\ Moves /\ request[r].kind = "create" /\ UNCHANGED category
         /\ \A p \in Products : \/ product'[p] = product[p]
                                \/ product[p].state = "absent" /\ product'[p].master = NoMaster
<1> DEFINE d   == request[r].draft
           p   == AFresh(FreshProducts)
           row == NewRow(d, NoMaster, NoCategory, request[r].at)
<1>1. /\ request[r].kind = "create" /\ FreshProducts # {} /\ product' = [product EXCEPT ![p] = row]
      /\ stock' = [stock EXCEPT ![p] = IF d.opening > 0 THEN d.unit ELSE NoUnit]
      /\ log' = log \cup {<<"product", p, 1>>} /\ End(r) /\ UNCHANGED <<now, category, inbox>>
  BY DEF CommitCreate, End
<1>2. TablesOK /\ d \in Drafts /\ request[r].at \in {0, 1}
  BY <1>1 DEF CatInv, RequestsOK, JobOK
<1>3. p \in FreshProducts
  BY <1>1 DEF AFresh
<1>4. p \in Products /\ product[p].state = "absent"
  BY <1>3 DEF FreshProducts, Present
<1>5. d.sku \in Codes \cup {NoCode} /\ d.short \in Codes \cup {NoCode} /\ d.unit \in Units
  BY <1>2, InputAssumption
<1>6. RowOK(row) /\ row.state = "live" /\ row.version = 1 /\ row.master = NoMaster
  BY <1>2, <1>5, NewRowFacts
<1> HIDE DEF d, p, row
<1>7. /\ product' = [x \in Products |-> product'[x]] /\ product'[p] = row
      /\ \A x \in Products \ {p} : product'[x] = product[x]
  BY <1>1, <1>2, <1>4 DEF TablesOK
<1>8. /\ stock' \in [Products -> Units \cup {NoUnit}]
      /\ \A x \in Products \ {p} : stock'[x] = stock[x]
  BY <1>1, <1>2, <1>5 DEF TablesOK
<1>9. TablesOK' /\ Moves
  <2> DEFINE made == {p}
  <2>1. made \subseteq FreshProducts /\ p \in made
    BY <1>3
  <2>2. \A x \in made : /\ RowOK(product'[x]) /\ product'[x].version = 1
                        /\ product'[x].state = "live" /\ <<"product", x, 1>> \in log'
    BY <1>1, <1>6, <1>7
  <2>3. \A x \in Products \ made : product'[x] = product[x] /\ stock'[x] = stock[x]
    BY <1>7, <1>8
  <2>4. category' = [c \in Categories |-> category'[c]] /\ \A c \in Categories : category'[c] = category[c]
    BY <1>1, <1>2 DEF TablesOK
  <2>5. log \subseteq log' /\ UNCHANGED <<now, inbox>>
    BY <1>1
  <2>6. \A x \in Products : stock'[x] # NoUnit => stock[x] # NoUnit \/ x \in made
    BY <2>3
  <2> HIDE DEF made
  <2> QED BY <1>2, <1>7, <1>8, <2>1, <2>2, <2>3, <2>4, <2>5, <2>6, TablesAreWritten
<1>10. CatInv'
  BY <1>1, <1>9, EndKeeps
<1>11. \A x \in Products : \/ product'[x] = product[x]
                           \/ product[x].state = "absent" /\ product'[x].master = NoMaster
  BY <1>4, <1>6, <1>7
<1> QED BY <1>1, <1>9, <1>10, <1>11

LEMMA AcknowledgeCommits ==
  ASSUME CatInv, NEW r \in Requests, CommitAcknowledge(r)
  PROVE  /\ CatInv' /\ Moves /\ request[r].kind = "acknowledge" /\ UNCHANGED <<product, category>>
<1> DEFINE q == request[r]
<1>1. /\ q.kind = "acknowledge" /\ End(r) /\ UNCHANGED <<now, product, category, stock, log>>
      /\ inbox' = [inbox EXCEPT ![q.entry].seen = IF q.seen # 0 THEN @ ELSE now]
  BY DEF CommitAcknowledge, End
<1>2. TablesOK /\ q.entry \in DOMAIN inbox
  BY <1>1 DEF CatInv, RequestsOK, JobOK
<1>3. inbox \in Seq(EntryType) /\ now \in 0..MaxTime
  BY <1>2, CatalogueAssumption DEF TablesOK
<1> HIDE DEF q
<1>4. PICK i \in DOMAIN inbox : i = q.entry
  BY <1>2
<1>5. inbox[i] \in EntryType
  BY <1>3
<1>6. \A t \in 0..MaxTime : [inbox[i] EXCEPT !.seen = t] \in EntryType
  BY <1>5 DEF EntryType
<1>7. inbox' \in Seq(EntryType) /\ DOMAIN inbox \subseteq DOMAIN inbox'
  <2>1. PICK t \in 0..MaxTime : t = IF q.seen # 0 THEN inbox[i].seen ELSE now
    BY <1>3, <1>5 DEF EntryType
  <2>2. inbox' = [inbox EXCEPT ![i] = [inbox[i] EXCEPT !.seen = t]]
    BY <1>1, <1>3, <1>4, <2>1
  <2>3. PICK e \in EntryType : e = [inbox[i] EXCEPT !.seen = t]
    BY <1>6, <2>1
  <2>4. inbox' = [inbox EXCEPT ![i] = e]
    BY <2>2, <2>3
  <2> QED BY <1>3, <1>4, <2>3, <2>4
<1>8. TablesOK' /\ Moves
  BY <1>1, <1>2, <1>7, InboxIsWritten
<1>9. CatInv'
  BY <1>1, <1>8, EndKeeps
<1> QED BY <1>1, <1>8, <1>9 DEF q

LEMMA AllAreAcknowledged ==
  ASSUME CatInv, AcknowledgeAll
  PROVE  CatInv'
<1>1. /\ UNCHANGED <<now, product, category, stock, log, started, request>>
      /\ inbox' = [i \in DOMAIN inbox |->
                      [inbox[i] EXCEPT !.seen = IF @ = 0 THEN now ELSE @]]
  BY DEF AcknowledgeAll
<1>2. TablesOK /\ inbox \in Seq(EntryType) /\ now \in 0..MaxTime
  BY CatalogueAssumption DEF CatInv, TablesOK
<1>3. \A e \in EntryType : [e EXCEPT !.seen = IF @ = 0 THEN now ELSE @] \in EntryType
  BY <1>2 DEF EntryType
<1>4. \A i \in DOMAIN inbox : inbox'[i] \in EntryType
  BY <1>1, <1>2, <1>3
<1>5. DOMAIN inbox' = DOMAIN inbox /\ inbox' \in Seq(EntryType)
  BY <1>1, <1>2, <1>4
<1>6. TablesOK' /\ Moves
  BY <1>1, <1>2, <1>5, InboxIsWritten
<1> QED BY <1>1, <1>6, RowsKeep

\* Labels written one at a time.
LEMMA LabelIsWritten ==
  ASSUME TablesOK, NEW c \in Categories, NEW label, LabelOK(label), label.state # "absent",
         category' = [category EXCEPT ![c] = label], log' = log \cup {<<"category", c, 1>>},
         UNCHANGED <<now, product, stock, inbox>>
  PROVE  /\ TablesOK' /\ Moves
         /\ category'[c] = label /\ \A d \in Categories \ {c} : category'[d] = category[d]
<1>1. /\ category' = [d \in Categories |-> category'[d]] /\ category'[c] = label
      /\ \A d \in Categories \ {c} : category'[d] = category[d]
  BY DEF TablesOK
<1>2. <<"category", c, 1>> \in log' /\ log \subseteq log'
  OBVIOUS
<1>3. PICK made : made = {}
  OBVIOUS
<1>4. made \subseteq FreshProducts /\ \A p \in Products : p \notin made
  BY <1>3
<1>5. /\ product' = [p \in Products |-> product'[p]] /\ stock' \in [Products -> Units \cup {NoUnit}]
      /\ \A p \in Products : product'[p] = product[p] /\ stock'[p] = stock[p]
  BY DEF TablesOK
<1>6. TablesOK' /\ Moves
  BY <1>1, <1>2, <1>3, <1>4, <1>5, TablesAreWritten
<1> QED BY <1>1, <1>6

\* The categories a request writes bear no name of its shelf.
LEMMA CategoryCommits ==
  ASSUME CatInv, NEW r \in Requests,
         CommitCategory(r) \/ CommitRename(r) \/ CommitShelve(r)
  PROVE  /\ CatInv' /\ Moves /\ request[r].kind \in {"category", "rename", "shelve"}
         /\ UNCHANGED product
         /\ \A c \in Categories :
               \/ category'[c] = category[c]
               \/ category'[c].state = "archived"
               \/ \A s \in request[r].shelf : s[1] \in Categories \ {c} => s[2] # category'[c].name
         /\ \A c, d \in Categories :
               category'[c] # category[c] /\ category'[d] # category[d] => c = d
<1>1. CASE CommitCategory(r)
  <2> DEFINE c == AFresh(FreshCategories)
             label == [NoLabel EXCEPT !.state = "live", !.name = request[r].name]
  <2>1. /\ request[r].kind = "category" /\ FreshCategories # {} /\ End(r)
        /\ category' = [category EXCEPT ![c] = label] /\ log' = log \cup {<<"category", c, 1>>}
        /\ UNCHANGED <<now, product, stock, inbox>>
    BY <1>1 DEF CommitCategory, End
  <2>2. TablesOK /\ Unshelved(request[r].shelf, request[r].name, NoCategory)
    BY <2>1 DEF CatInv, RequestsOK, JobOK
  <2>3. c \in Categories /\ c # NoCategory
    BY <2>1, CatalogueAssumption DEF AFresh, FreshCategories
  <2>4. label.state = "live" /\ label.name = request[r].name /\ LabelOK(label)
    BY <2>2 DEF LabelOK, LabelType, NoLabel, Unshelved, States
  <2> HIDE DEF c, label
  <2>5. /\ TablesOK' /\ Moves
        /\ category'[c] = label /\ \A d \in Categories \ {c} : category'[d] = category[d]
    BY <2>1, <2>2, <2>3, <2>4, LabelIsWritten
  <2>6. CatInv'
    BY <2>1, <2>5, EndKeeps
  <2>7. \A s \in request[r].shelf : s[1] \in Categories \ {c} => s[2] # category'[c].name
    BY <2>2, <2>4, <2>5, CatalogueAssumption DEF Unshelved
  <2> QED BY <2>1, <2>5, <2>6, <2>7
<1>2. CASE CommitRename(r)
  <2> DEFINE c == request[r].category
             label == [category[c] EXCEPT !.name = request[r].name]
  <2>1. /\ request[r].kind = "rename" /\ End(r)
        /\ category' = [category EXCEPT ![c] = label] /\ log' = log \cup {<<"category", c, 1>>}
        /\ UNCHANGED <<now, product, stock, inbox>>
    BY <1>2 DEF CommitRename, End
  <2>2. /\ TablesOK /\ c \in Categories /\ category[c].state # "absent"
        /\ Unshelved(request[r].shelf, request[r].name, c)
    BY <2>1 DEF CatInv, RequestsOK, JobOK, FreshCategories
  <2>3. category[c] \in LabelType
    BY <2>2 DEF TablesOK, LabelOK
  <2>4. label.state # "absent" /\ label.name = request[r].name /\ LabelOK(label)
    BY <2>2, <2>3 DEF LabelOK, LabelType, Unshelved
  <2> HIDE DEF c, label
  <2>5. /\ TablesOK' /\ Moves
        /\ category'[c] = label /\ \A d \in Categories \ {c} : category'[d] = category[d]
    BY <2>1, <2>2, <2>4, LabelIsWritten
  <2>6. CatInv'
    BY <2>1, <2>5, EndKeeps
  <2>7. \A s \in request[r].shelf : s[1] \in Categories \ {c} => s[2] # category'[c].name
    BY <2>2, <2>4, <2>5 DEF Unshelved
  <2> QED BY <2>1, <2>5, <2>6, <2>7
<1>3. CASE CommitShelve(r)
  <2> DEFINE c == request[r].category
             label == [category[c] EXCEPT !.state = "archived"]
  <2>1. /\ request[r].kind = "shelve" /\ End(r)
        /\ category' = [category EXCEPT ![c] = label] /\ log' = log \cup {<<"category", c, 1>>}
        /\ UNCHANGED <<now, product, stock, inbox>>
    BY <1>3 DEF CommitShelve, End
  <2>2. TablesOK /\ c \in Categories /\ category[c].state # "absent"
    BY <2>1 DEF CatInv, RequestsOK, JobOK, FreshCategories
  <2>3. category[c] \in LabelType /\ category[c].name \in Names
    BY <2>2 DEF TablesOK, LabelOK
  <2>4. label.state = "archived" /\ LabelOK(label)
    BY <2>3 DEF LabelOK, LabelType, States
  <2> HIDE DEF c, label
  <2>5. /\ TablesOK' /\ Moves
        /\ category'[c] = label /\ \A d \in Categories \ {c} : category'[d] = category[d]
    BY <2>1, <2>2, <2>4, LabelIsWritten
  <2>6. CatInv'
    BY <2>1, <2>5, EndKeeps
  <2> QED BY <2>1, <2>4, <2>5, <2>6
<1> QED BY <1>1, <1>2, <1>3

-----------------------------------------------------------------------------
(* Requests that make several rows at once.                                *)

\* Opening stock is for rows made in the same transaction.
LEMMA OpenedStock ==
  ASSUME TablesOK, NEW units, DOMAIN units \subseteq Products,
         \A p \in DOMAIN units : units[p] \in Units \cup {NoUnit}
  PROVE  /\ Opened(units) \in [Products -> Units \cup {NoUnit}]
         /\ \A p \in Products \ DOMAIN units : Opened(units)[p] = stock[p]
<1>1. stock \in [Products -> Units \cup {NoUnit}]
  BY DEF TablesOK
<1> QED BY <1>1 DEF Opened

\* Ids are drawn from those not used, and none twice.
LEMMA DrawnIds ==
  ASSUME NEW of, NEW pool, Injection(of, pool) # {}, NEW ids,
         ids = CHOOSE f \in Injection(of, pool) : TRUE
  PROVE  /\ DOMAIN ids = of /\ \A x \in of : ids[x] \in pool
         /\ \A x, y \in of : ids[x] = ids[y] => x = y
<1>1. ids \in Injection(of, pool)
  OBVIOUS
<1> QED BY <1>1 DEF Injection, IsInjective

LEMMA AdoptCommits ==
  ASSUME CatInv, NEW r \in Requests, CommitAdopt(r)
  PROVE  LET q == request[r] IN
         /\ CatInv' /\ Moves /\ q.kind = "adopt" /\ AdoptOK(q)
         /\ category' # category => q.mirrors = {}
         /\ \A p \in Products :
               \/ product'[p] = product[p]
               \/ product[p].state = "absent" /\ product'[p].master \in q.new
         /\ \A p, x \in Products :
               /\ product'[p] # product[p] /\ product'[x] # product[x]
               /\ product'[p].master = product'[x].master
               => p = x
<1> DEFINE q     == request[r]
           ids   == CHOOSE f \in FreshIds(q.new) : TRUE
           made  == {ids[m] : m \in q.new}
           c     == IF q.mirrors # {} THEN AFresh(q.mirrors) ELSE AFresh(FreshCategories)
           draft == [sku |-> NoCode, short |-> NoCode, unit |-> MasterUnit]
           of(p) == CHOOSE m \in q.new : ids[m] = p
           units == [p \in IF q.opening > 0 THEN made ELSE {} |-> MasterUnit]
           label == [state |-> "live", name |-> MasterName, mirrors |-> TRUE]
<1>1. /\ q.kind = "adopt" /\ FreshIds(q.new) # {} /\ (q.mirrors # {} \/ FreshCategories # {})
      /\ category' = IF q.mirrors # {} THEN category ELSE [category EXCEPT ![c] = label]
      /\ product' = [p \in Products |-> IF p \notin made THEN product[p] ELSE NewRow(draft, of(p), c, 0)]
      /\ stock' = Opened(units) /\ log' = log \cup {<<"product", p, 1>> : p \in made}
      /\ End(r) /\ UNCHANGED <<now, inbox>>
  BY DEF CommitAdopt, End
<1>2. q.kind = "adopt" /\ TablesOK /\ AdoptOK(q)
  <2>1. request[r].kind = "adopt" /\ FreshIds(request[r].new) # {}
    BY DEF CommitAdopt
  <2> QED BY <2>1 DEF CatInv, RequestsOK, JobOK
<1>3. q.new \subseteq Masters /\ q.mirrors \subseteq Categories
  BY <1>2 DEF AdoptOK
<1>4. /\ DOMAIN ids = q.new /\ \A m \in q.new : ids[m] \in FreshProducts
      /\ \A m, n \in q.new : ids[m] = ids[n] => m = n
  <2>1. Injection(q.new, FreshProducts) # {} /\ ids = CHOOSE f \in Injection(q.new, FreshProducts) : TRUE
    <3>1. FreshIds(request[r].new) # {}
      BY DEF CommitAdopt
    <3> QED BY <3>1 DEF FreshIds
  <2> HIDE DEF ids, q
  <2> QED BY <2>1, DrawnIds
<1>5. c \in Categories
  BY <1>1, <1>3 DEF AFresh, FreshCategories
<1>6. draft.sku = NoCode /\ draft.short = NoCode /\ draft.unit = MasterUnit
  OBVIOUS
<1>7. label.state = "live" /\ label.mirrors /\ LabelOK(label)
  BY CatalogueAssumption DEF LabelOK, LabelType, States
<1>8. DOMAIN units \subseteq made /\ \A p \in DOMAIN units : units[p] = MasterUnit
  OBVIOUS
<1> HIDE DEF q, ids, c, draft, units, label
<1>9. /\ made \subseteq FreshProducts /\ made \subseteq Products
      /\ \A p \in made : product[p].state = "absent"
  BY <1>4 DEF FreshProducts, Present
<1>10. \A p \in made : of(p) \in q.new /\ ids[of(p)] = p
  BY <1>4
<1> HIDE DEF of, made
<1>11. \A p \in Products : product'[p] = IF p \notin made THEN product[p] ELSE NewRow(draft, of(p), c, 0)
  BY <1>1
<1>12. ASSUME NEW p \in made
       PROVE  /\ RowOK(product'[p]) /\ product'[p].version = 1 /\ product'[p].state = "live"
              /\ product'[p].master = of(p)
  <2>1. product'[p] = NewRow(draft, of(p), c, 0)
    BY <1>9, <1>11
  <2>2. /\ of(p) \in Masters \cup {NoMaster} /\ c \in Categories \cup {NoCategory}
        /\ draft.sku \in Codes \cup {NoCode} /\ draft.short \in Codes \cup {NoCode}
        /\ draft.unit \in Units
    BY <1>3, <1>5, <1>6, <1>10, CatalogueAssumption
  <2>3. \A at \in {0, 1} :
          /\ RowOK(NewRow(draft, of(p), c, at)) /\ NewRow(draft, of(p), c, at).state = "live"
          /\ NewRow(draft, of(p), c, at).version = 1 /\ NewRow(draft, of(p), c, at).master = of(p)
    BY <1>2, <2>2, NewRowFacts
  <2> QED BY <2>1, <2>3
<1>13. /\ stock' \in [Products -> Units \cup {NoUnit}]
       /\ \A p \in Products \ made : stock'[p] = stock[p]
  BY <1>1, <1>2, <1>8, <1>9, OpenedStock, CatalogueAssumption
<1>14. /\ category' = [d \in Categories |-> category'[d]]
       /\ \A d \in Categories : category'[d] = category[d] \/ category'[d] = label
       /\ category' # category => q.mirrors = {}
  <2>1. category = [d \in Categories |-> category[d]]
    BY <1>2 DEF TablesOK
  <2>2. CASE q.mirrors # {}
    BY <1>1, <2>1, <2>2
  <2>3. CASE q.mirrors = {}
    BY <1>1, <1>5, <2>1, <2>3
  <2> QED BY <2>2, <2>3
<1>15. TablesOK' /\ Moves
  <2>1. \A p \in made : /\ RowOK(product'[p]) /\ product'[p].version = 1
                        /\ product'[p].state = "live" /\ <<"product", p, 1>> \in log'
    BY <1>1, <1>12
  <2>2. \A p \in Products \ made : product'[p] = product[p]
    BY <1>11
  <2>3. \A d \in Categories :
           \/ category'[d] = category[d]
           \/ /\ LabelOK(category'[d]) /\ category'[d].state # "absent"
              /\ category'[d].mirrors \/ <<"category", d, 1>> \in log'
    BY <1>7, <1>14
  <2>4. product' = [p \in Products |-> product'[p]] /\ log \subseteq log' /\ UNCHANGED <<now, inbox>>
    BY <1>1
  <2>5. \A p \in Products : stock'[p] # NoUnit => stock[p] # NoUnit \/ p \in made
    BY <1>13
  <2> QED BY <1>2, <1>9, <1>13, <1>14, <2>1, <2>2, <2>3, <2>4, <2>5, TablesAreWritten
<1>16. CatInv'
  BY <1>1, <1>15, EndKeeps
<1>17. \A p \in Products : \/ product'[p] = product[p]
                           \/ product[p].state = "absent" /\ product'[p].master \in q.new
  BY <1>9, <1>10, <1>11, <1>12
<1>18. \A p, x \in Products :
               /\ product'[p] # product[p] /\ product'[x] # product[x]
               /\ product'[p].master = product'[x].master
               => p = x
  <2> SUFFICES ASSUME NEW p \in Products, NEW x \in Products, product'[p] # product[p],
                      product'[x] # product[x], product'[p].master = product'[x].master
               PROVE  p = x
    OBVIOUS
  <2>1. p \in made /\ x \in made
    BY <1>11
  <2>2. of(p) = of(x)
    BY <1>12, <2>1
  <2> QED BY <1>10, <2>1, <2>2
<1> QED BY <1>2, <1>14, <1>15, <1>16, <1>17, <1>18, Zenon DEF q

\* The row as an import leaves it.
Overtaken(row, old, lines) ==
    /\ RowOK(row) /\ row.quiet /\ row.state = old.state /\ row.master = old.master
    /\ row.unit = old.unit /\ row.version = old.version + lines

LEMMA OverwrittenRow ==
  ASSUME now \in 1..MaxTime, NEW old, RowOK(old), old.state # "absent", NEW lines \in Nat \ {0}
  PROVE  Overtaken(Overwritten(old, lines), old, lines)
<1> DEFINE row == Overwritten(old, lines)
<1>1. RowShape(old) /\ MaxTime \in Nat /\ now \in 0..MaxTime
  BY CatalogueAssumption DEF RowOK
<1>2. /\ row.state = old.state /\ row.master = old.master /\ row.version = old.version + lines
      /\ row.unit = old.unit /\ row.clock = old.clock /\ row.updated = now
      /\ row.wrote = [f \in Fields |-> IF f \in {"sku", "shortCode", "category"} THEN old.wrote[f]
                                       ELSE now]
      /\ row.sku = old.sku /\ row.short = old.short
      /\ row.category = old.category /\ row.quiet = TRUE /\ DOMAIN row = RowFields
  BY <1>1 DEF Overwritten, RowShape, RowFields
<1> HIDE DEF row
<1>3. old.version \in Nat /\ \A f \in Fields : old.wrote[f] \in 0..MaxTime
  BY <1>1 DEF RowShape
<1>4. old.version + lines \in Nat /\ old.version + lines # 0
  BY <1>3
<1>5. row.wrote \in [Fields -> 0..MaxTime]
  BY <1>1, <1>2, <1>3
<1>6. RowShape(row)
  BY <1>1, <1>2, <1>4, <1>5 DEF RowShape
<1>7. ASSUME old.clock = 0, NEW f \in Fields PROVE row.wrote[f] <= now
  <2>1. old.wrote[f] <= old.updated /\ old.updated <= now
    BY <1>7 DEF RowOK
  <2>2. old.wrote[f] \in Int /\ old.updated \in Int /\ now \in Int
    BY <1>1, <1>3 DEF RowShape
  <2> QED BY <1>2, <2>1, <2>2
<1>8. RowOK(row)
  <2>1. now <= now /\ old.unit \in Units
    BY <1>1 DEF RowOK
  <2> QED BY <1>2, <1>4, <1>6, <1>7, <2>1 DEF RowOK
<1>9. Overtaken(row, old, lines)
  BY <1>2, <1>8 DEF Overtaken
<1> QED BY <1>9 DEF row

LEMMA ImportCommits ==
  ASSUME CatInv, NEW r \in Requests, CommitImport(r)
  PROVE  LET q == request[r] IN
         /\ CatInv' /\ Moves /\ q.kind = "import"
         /\ \A p \in Products :
               \/ product[p].state = "absent" /\ product'[p].master = NoMaster
               \/ product'[p].state = product[p].state /\ product'[p].unit = product[p].unit
         /\ \A c \in Categories :
               category'[c] # category[c] => \A s \in q.shelf : s[2] # category'[c].name
         /\ \A c, d \in Categories :
               /\ category'[c] # category[c] /\ category'[d] # category[d]
               /\ category'[c].name = category'[d].name
               => c = d
<1> DEFINE q       == request[r]
           create  == q.plan.create
           lines   == DOMAIN create
           ids     == CHOOSE f \in FreshIds(lines) : TRUE
           made    == {ids[l] : l \in lines}
           update  == q.plan.update
           over(p) == {l \in DOMAIN update : update[l] = p}
           wanted  == {create[l].category : l \in lines} \ {NoName}
           missing == wanted \ {s[2] : s \in q.shelf}
           labels  == CHOOSE f \in Injection(missing, FreshCategories) : TRUE
           place(name) == IF name = NoName THEN NoCategory
                          ELSE IF name \in missing THEN labels[name]
                          ELSE (CHOOSE s \in q.shelf : s[2] = name)[1]
           unit(l) == UnitOf(create[l], q.default)
           draft(l) == [sku |-> create[l].sku, short |-> create[l].short, unit |-> unit(l)]
           line(p) == CHOOSE l \in lines : ids[l] = p
           named(c) == CHOOSE n \in missing : labels[n] = c
           Label(c) == [state |-> "live", mirrors |-> FALSE, name |-> named(c)]
           new(p) == NewRow(draft(line(p)), NoMaster, place(create[line(p)].category), 0)
           opened == {x \in made : create[line(x)].opening > 0}
           units == [p \in opened |-> unit(line(p))]
<1>1. q.kind = "import" /\ FreshIds(lines) # {} /\ Injection(missing, FreshCategories) # {}
  BY DEF CommitImport
<1>2. /\ category' = [c \in Categories |->
                         IF \E n \in missing : labels[n] = c THEN Label(c) ELSE category[c]]
      /\ product' = [p \in Products |->
                        IF p \in made THEN new(p)
                        ELSE IF over(p) # {} THEN Overwritten(product[p], Cardinality(over(p)))
                        ELSE product[p]]
  BY DEF CommitImport
<1>3. /\ stock' = Opened(units)
      /\ log' = log \cup {<<"product", p, 1>> : p \in {x \in Products : x \in made \/ over(x) # {}}}
                    \cup {<<"category", labels[n], 1>> : n \in missing}
      /\ End(r) /\ UNCHANGED <<now, inbox>>
  BY DEF CommitImport, End
<1>4. TablesOK /\ ImportOK(q)
  BY <1>1 DEF CatInv, RequestsOK, JobOK
<1>5. /\ \A s \in q.shelf : s[1] \in Categories /\ s[2] \in Names
      /\ \A l \in lines :
            /\ create[l].sku \in Codes \cup {NoCode} /\ create[l].short \in Codes \cup {NoCode}
            /\ unit(l) \in Units /\ create[l].category \in Names \cup {NoName}
      /\ IsFiniteSet(DOMAIN update) /\ \A l \in DOMAIN update : update[l] \in Present
  BY <1>4 DEF ImportOK
<1>6. /\ DOMAIN ids = lines /\ \A l \in lines : ids[l] \in FreshProducts
      /\ \A l, m \in lines : ids[l] = ids[m] => l = m
  <2>1. Injection(lines, FreshProducts) # {} /\ ids = CHOOSE f \in Injection(lines, FreshProducts) : TRUE
    BY <1>1 DEF FreshIds
  <2> HIDE DEF ids, lines
  <2> QED BY <2>1, DrawnIds
<1>7. /\ DOMAIN labels = missing /\ \A n \in missing : labels[n] \in FreshCategories
      /\ \A n, m \in missing : labels[n] = labels[m] => n = m
  <2>1. labels = CHOOSE f \in Injection(missing, FreshCategories) : TRUE
    OBVIOUS
  <2> HIDE DEF labels, missing
  <2> QED BY <1>1, <2>1, DrawnIds
<1>8. \A n \in missing : n \in Names /\ \A s \in q.shelf : s[2] # n
  BY <1>5
<1>9. \A c \in Categories : (\E n \in missing : labels[n] = c) => named(c) \in missing /\ labels[named(c)] = c
  OBVIOUS
<1>10. \A p \in made : line(p) \in lines /\ ids[line(p)] = p
  OBVIOUS
<1>11. /\ made \subseteq FreshProducts /\ made \subseteq Products
       /\ \A p \in made : product[p].state = "absent"
  BY <1>6 DEF FreshProducts, Present
<1>12. \A p \in Products : over(p) # {} =>
          /\ p \in Present /\ product[p].state # "absent" /\ p \notin made
          /\ Cardinality(over(p)) \in Nat \ {0}
  <2> SUFFICES ASSUME NEW p \in Products, over(p) # {}
               PROVE  /\ p \in Present /\ product[p].state # "absent" /\ p \notin made
                      /\ Cardinality(over(p)) \in Nat \ {0}
    OBVIOUS
  <2>1. p \in Present
    BY <1>5
  <2>2. product[p].state # "absent" /\ p \notin made
    BY <1>11, <2>1 DEF Present
  <2>3. IsFiniteSet(over(p))
    BY <1>5, FS_Subset
  <2> HIDE DEF over
  <2>4. Cardinality(over(p)) \in Nat /\ Cardinality(over(p)) # 0
    BY <2>3, FS_CardinalityType, FS_EmptySet
  <2> QED BY <2>1, <2>2, <2>4
<1>13. \A l \in lines : place(create[l].category) \in Categories \cup {NoCategory}
  <2> SUFFICES ASSUME NEW l \in lines, create[l].category # NoName
               PROVE  place(create[l].category) \in Categories
    OBVIOUS
  <2> DEFINE name == create[l].category
  <2>1. CASE name \in missing
    <3>1. place(name) = labels[name]
      BY <2>1
    <3> QED BY <1>7, <2>1, <3>1 DEF FreshCategories
  <2>2. CASE name \notin missing
    <3>1. name \in wanted
      OBVIOUS
    <3>2. \E s \in q.shelf : s[2] = name
      BY <2>2, <3>1
    <3>3. place(name) = (CHOOSE s \in q.shelf : s[2] = name)[1]
      BY <2>2
    <3> QED BY <1>5, <3>2, <3>3
  <2> QED BY <2>1, <2>2
<1>14. \A l \in lines : /\ draft(l).sku \in Codes \cup {NoCode} /\ draft(l).short \in Codes \cup {NoCode}
                        /\ draft(l).unit \in Units
  BY <1>5
<1>15. /\ opened \subseteq made /\ DOMAIN units = opened
       /\ \A p \in opened : units[p] = unit(line(p))
  OBVIOUS
<1>16. \A c \in Categories : Label(c).state = "live" /\ Label(c).name = named(c)
                             /\ Label(c) = [state |-> "live", mirrors |-> FALSE, name |-> named(c)]
  OBVIOUS
<1>17. \A p \in Products : new(p) = NewRow(draft(line(p)), NoMaster, place(create[line(p)].category), 0)
  OBVIOUS
<1> HIDE DEF q, create, lines, ids, made, update, over, wanted, missing, labels, place, unit, draft, line,
             named, Label, new, opened, units
<1>18. ASSUME NEW p \in made
       PROVE  /\ RowOK(product'[p]) /\ product'[p].version = 1 /\ product'[p].state = "live"
              /\ product'[p].master = NoMaster
  <2> DEFINE d == draft(line(p))
             c == place(create[line(p)].category)
  <2>1. product'[p] = NewRow(d, NoMaster, c, 0)
    BY <1>2, <1>11, <1>17
  <2>2. /\ d.sku \in Codes \cup {NoCode} /\ d.short \in Codes \cup {NoCode} /\ d.unit \in Units
        /\ c \in Categories \cup {NoCategory}
    BY <1>10, <1>13, <1>14
  <2> HIDE DEF d, c
  <2>3. \A at \in {0, 1} :
          /\ RowOK(NewRow(d, NoMaster, c, at)) /\ NewRow(d, NoMaster, c, at).state = "live"
          /\ NewRow(d, NoMaster, c, at).version = 1 /\ NewRow(d, NoMaster, c, at).master = NoMaster
    BY <1>4, <2>2, NewRowFacts
  <2> QED BY <2>1, <2>3
<1>19. ASSUME NEW p \in Products \ made
       PROVE  \/ product'[p] = product[p]
              \/ /\ p \in Present /\ RowOK(product'[p]) /\ product'[p].quiet
                 /\ product[p].version < product'[p].version
                 /\ product'[p].state = product[p].state /\ product'[p].master = product[p].master
                 /\ product'[p].unit = product[p].unit
  <2>1. CASE over(p) = {}
    BY <1>2, <2>1
  <2>2. CASE over(p) # {}
    <3> DEFINE old == product[p]
               n   == Cardinality(over(p))
    <3>1. product'[p] = Overwritten(old, n)
      BY <1>2, <2>2
    <3>2. /\ p \in Present /\ n \in Nat \ {0} /\ now \in 1..MaxTime /\ RowOK(old)
          /\ old.state # "absent"
      BY <1>4, <1>12, <2>2 DEF TablesOK
    <3> HIDE DEF old, n
    <3>3. Overtaken(product'[p], old, n)
      BY <3>1, <3>2, OverwrittenRow
    <3>4. old.version \in Nat
      BY <3>2 DEF RowOK, RowShape
    <3>5. old.version < old.version + n
      BY <3>2, <3>4
    <3>6. /\ RowOK(product'[p]) /\ product'[p].quiet /\ product'[p].version = old.version + n
          /\ product'[p].state = old.state /\ product'[p].master = old.master
          /\ product'[p].unit = old.unit
      BY <3>3 DEF Overtaken
    <3> QED BY <3>2, <3>5, <3>6 DEF old
  <2> QED BY <2>1, <2>2
<1>20. /\ stock' \in [Products -> Units \cup {NoUnit}]
       /\ \A p \in Products \ made : stock'[p] = stock[p]
  <2>1. DOMAIN units \subseteq Products /\ \A p \in DOMAIN units : units[p] \in Units \cup {NoUnit}
    BY <1>5, <1>10, <1>11, <1>15
  <2> QED BY <1>3, <1>4, <1>15, <2>1, OpenedStock
<1>21. \A c \in Categories :
          \/ category'[c] = category[c]
          \/ /\ category'[c] = Label(c) /\ named(c) \in missing /\ labels[named(c)] = c
  BY <1>2, <1>9
<1>22. TablesOK' /\ Moves
  <2>1. \A p \in made : /\ RowOK(product'[p]) /\ product'[p].version = 1
                        /\ product'[p].state = "live" /\ <<"product", p, 1>> \in log'
    BY <1>3, <1>11, <1>18
  <2>2. ASSUME NEW c \in Categories, category'[c] # category[c]
        PROVE  /\ LabelOK(category'[c]) /\ category'[c].state # "absent"
               /\ <<"category", c, 1>> \in log'
    <3>1. category'[c] = Label(c) /\ named(c) \in missing /\ labels[named(c)] = c
      BY <1>21, <2>2
    <3>2. LabelOK(Label(c)) /\ Label(c).state # "absent"
      <4>1. named(c) \in Names
        BY <1>8, <3>1
      <4>2. Label(c) \in LabelType
        <5>1. "live" \in States /\ FALSE \in BOOLEAN /\ named(c) \in Names \cup {NoName}
          BY <4>1 DEF States
        <5>2. [state |-> "live", mirrors |-> FALSE, name |-> named(c)] \in LabelType
          BY <5>1 DEF LabelType
        <5>3. Label(c) = [state |-> "live", mirrors |-> FALSE, name |-> named(c)]
          BY <1>16
        <5> QED BY <5>2, <5>3
      <4>3. Label(c).state = "live" /\ Label(c).name = named(c)
        BY <1>16
      <4>4. Label(c).state # "absent"
        BY <4>3
      <4>5. Label(c).name \in Names
        BY <4>1, <4>3
      <4> QED BY <4>2, <4>4, <4>5 DEF LabelOK
    <3>3. <<"category", c, 1>> \in log'
      BY <1>3, <3>1
    <3> QED BY <3>1, <3>2, <3>3
  <2>3. /\ product' = [p \in Products |-> product'[p]] /\ category' = [c \in Categories |-> category'[c]]
        /\ log \subseteq log' /\ UNCHANGED <<now, inbox>>
    BY <1>2, <1>3
  <2>4. \A p \in Products : stock'[p] # NoUnit => stock[p] # NoUnit \/ p \in made
    BY <1>20
  <2> QED BY <1>4, <1>11, <1>19, <1>20, <2>1, <2>2, <2>3, <2>4, TablesAreWritten
<1>23. CatInv'
  BY <1>3, <1>22, EndKeeps
<1>24. \A p \in Products :
          \/ product[p].state = "absent" /\ product'[p].master = NoMaster
          \/ product'[p].state = product[p].state /\ product'[p].unit = product[p].unit
  BY <1>11, <1>18, <1>19
<1>25. \A c \in Categories : category'[c] # category[c] =>
          /\ category'[c].name = named(c) /\ named(c) \in missing /\ labels[named(c)] = c
  BY <1>16, <1>21
<1>26. \A c \in Categories :
          category'[c] # category[c] => \A s \in q.shelf : s[2] # category'[c].name
  BY <1>8, <1>25
<1>27. \A c, d \in Categories :
          /\ category'[c] # category[c] /\ category'[d] # category[d]
          /\ category'[c].name = category'[d].name
          => c = d
  BY <1>25
<1> QED BY <1>1, <1>22, <1>23, <1>24, <1>26, <1>27, Zenon DEF q

-----------------------------------------------------------------------------
(* The invariant is one.                                                   *)

LEMMA InitialRows == Init => CatInv
<1> SUFFICES ASSUME Init PROVE CatInv
  OBVIOUS
<1>0. PICK code \in Codes \cup {NoCode}, clock \in {0, 1} :
        /\ product = [p \in Products |->
                         IF p # AFresh(Products) THEN NoRow
                         ELSE [NoRow EXCEPT !.state = "live", !.sku = code, !.short = code,
                                            !.unit = MasterUnit, !.version = 2 + clock, !.clock = clock,
                                            !.updated = 2, !.wrote = [f \in Fields |-> 2]]]
        /\ log = {<<"product", AFresh(Products), v>> : v \in 1..(2 + clock)}
                    \cup {<<"category", AFresh(Categories), 1>>}
        /\ inbox = IF clock = 0 THEN <<>>
                    ELSE <<[product |-> AFresh(Products), fields |-> {"sellingPrice"}, seen |-> 0]>>
        /\ \E name \in Names \ {MasterName} :
              category = [c \in Categories |->
                             IF c # AFresh(Categories) THEN NoLabel
                             ELSE [NoLabel EXCEPT !.state = "live", !.name = name]]
  BY Zenon DEF Init
<1>1. PICK name \in Names \ {MasterName} :
        category = [c \in Categories |->
                       IF c # AFresh(Categories) THEN NoLabel
                       ELSE [NoLabel EXCEPT !.state = "live", !.name = name]]
  BY <1>0
<1>2. /\ now = 2 /\ stock = [p \in Products |-> NoUnit] /\ started = 0
      /\ request = [r \in Requests |-> Idle]
  BY DEF Init
<1> DEFINE first == AFresh(Products)
           shelf == AFresh(Categories)
           row   == [NoRow EXCEPT !.state = "live", !.sku = code, !.short = code,
                                  !.unit = MasterUnit, !.version = 2 + clock, !.clock = clock,
                                  !.updated = 2, !.wrote = [f \in Fields |-> 2]]
           label == [NoLabel EXCEPT !.state = "live", !.name = name]
           entry == [product |-> first, fields |-> {"sellingPrice"}, seen |-> 0]
<1>3. first \in Products /\ shelf \in Categories
  BY CatalogueAssumption DEF AFresh
<1>4. MaxTime \in Nat /\ 0 \in 0..MaxTime /\ 1 \in 0..MaxTime /\ 2 \in 0..MaxTime /\ 2 \in 1..MaxTime
  BY CatalogueAssumption
<1>5. /\ row.state = "live" /\ row.sku = code /\ row.short = code /\ row.unit = MasterUnit
      /\ row.master = NoMaster /\ row.category = NoCategory /\ row.version = 2 + clock
      /\ row.clock = clock /\ row.updated = 2 /\ row.wrote = [f \in Fields |-> 2]
      /\ row.quiet = FALSE /\ DOMAIN row = RowFields
  BY DEF NoRow, RowFields
<1>6. /\ NoRow.state = "absent" /\ NoRow.sku = NoCode /\ NoRow.short = NoCode /\ NoRow.unit = NoUnit
      /\ NoRow.master = NoMaster /\ NoRow.category = NoCategory /\ NoRow.version = 0
      /\ NoRow.clock = 0 /\ NoRow.updated = 0 /\ NoRow.wrote = [f \in Fields |-> 0]
      /\ DOMAIN NoRow = RowFields
  BY DEF NoRow, RowFields
<1>7. label.state = "live" /\ LabelOK(label) /\ LabelOK(NoLabel) /\ NoLabel.state = "absent"
  BY DEF LabelOK, LabelType, NoLabel, States
<1>8. entry \in EntryType
  BY <1>3, <1>4 DEF EntryType, AllFields, ProductPatch
<1> HIDE DEF row, label, entry, first, shelf
<1>9. RowOK(row)
  <2>1. row.wrote \in [Fields -> 0..MaxTime] /\ \A f \in Fields : row.wrote[f] = 2
    BY <1>4, <1>5
  <2>2. 2 + clock \in Nat /\ 2 + clock # 0 /\ clock \in 0..MaxTime /\ 2 <= 2
    BY <1>4
  <2>3. RowShape(row)
    BY <1>4, <1>5, <2>1, <2>2, CatalogueAssumption DEF RowShape, States
  <2> QED BY <1>2, <1>5, <2>1, <2>2, <2>3, CatalogueAssumption DEF RowOK
<1>10. RowOK(NoRow)
  <2>1. NoRow.wrote \in [Fields -> 0..MaxTime] /\ \A f \in Fields : NoRow.wrote[f] = 0
    BY <1>4, <1>6
  <2>2. 0 <= 2 /\ 0 <= 0 /\ 0 \in Nat
    OBVIOUS
  <2>3. RowShape(NoRow)
    BY <1>4, <1>6, <2>1, <2>2 DEF RowShape, States
  <2> QED BY <1>2, <1>6, <2>1, <2>2, <2>3 DEF RowOK
<1>11. /\ product = [p \in Products |-> product[p]]
       /\ \A p \in Products : product[p] = IF p # first THEN NoRow ELSE row
  BY <1>0 DEF first, row
<1>12. /\ category = [c \in Categories |-> category[c]]
       /\ \A c \in Categories : category[c] = IF c # shelf THEN NoLabel ELSE label
  BY <1>1 DEF shelf, label
<1>13. inbox \in Seq(EntryType)
  <2>1. inbox = <<>> \/ inbox = <<entry>>
    BY <1>0 DEF entry, first
  <2>2. <<>> \in Seq(EntryType)
    OBVIOUS
  <2>3. <<entry>> \in Seq(EntryType)
    BY <1>8
  <2> QED BY <2>1, <2>2, <2>3
<1>14. LogHoldsTheRows
  <2>1. \A p \in Present : p = first
    BY <1>6, <1>11 DEF Present
  <2>2. <<"product", first, product[first].version>> \in log
    <3>1. product[first].version = 2 + clock /\ 2 + clock \in 1..(2 + clock)
      BY <1>3, <1>5, <1>11
    <3> QED BY <1>0, <3>1 DEF first
  <2>3. \A c \in Categories \ FreshCategories : c = shelf
    BY <1>7, <1>12 DEF FreshCategories
  <2>4. <<"category", shelf, 1>> \in log
    BY <1>0 DEF shelf
  <2> QED BY <2>1, <2>2, <2>3, <2>4 DEF LogHoldsTheRows
<1>15. TablesOK
  <2>1. stock \in [Products -> Units \cup {NoUnit}] /\ \A p \in Products : stock[p] = NoUnit
    BY <1>2
  <2> QED BY <1>2, <1>4, <1>7, <1>9, <1>10, <1>11, <1>12, <1>13, <1>14, <2>1 DEF TablesOK
<1>16. RequestsOK
  BY <1>2, IdleIsFine, CatalogueAssumption DEF RequestsOK
<1> QED BY <1>15, <1>16 DEF CatInv

LEMMA TimeGoesOn ==
  ASSUME CatInv, Tick
  PROVE  CatInv'
<1>1. /\ now < MaxTime /\ now' = now + 1
      /\ UNCHANGED <<product, category, stock, log, inbox, started, request>>
  BY DEF Tick
<1>2. TablesOK /\ MaxTime \in Nat
  BY CatalogueAssumption DEF CatInv
<1>3. now' \in 1..MaxTime /\ now <= now' /\ now \in Int /\ now' \in Int
  BY <1>1, <1>2 DEF TablesOK
<1>4. Moves
  BY <1>1 DEF Moves, RowMoves
<1>5. \A p \in Products : RowOK(product[p])'
  <2> SUFFICES ASSUME NEW p \in Products PROVE RowOK(product[p])'
    OBVIOUS
  <2>1. RowOK(product[p]) /\ product[p].updated \in Int /\ product[p].updated <= now
    BY <1>2 DEF TablesOK, RowOK, RowShape
  <2>2. product[p].updated <= now'
    BY <1>3, <2>1
  <2> QED BY <1>1, <2>1, <2>2 DEF RowOK
<1>6. LogHoldsTheRows' /\ \A c \in Categories : LabelOK(category[c])'
  BY <1>1, <1>2 DEF TablesOK, LogHoldsTheRows, Present, FreshCategories, LabelOK
<1>7. TablesOK'
  BY <1>1, <1>2, <1>3, <1>5, <1>6 DEF TablesOK
<1> QED BY <1>1, <1>4, <1>7, RowsKeep

LEMMA GoodsMove ==
  ASSUME CatInv, NEW p \in Products, Move(p)
  PROVE  CatInv'
<1>1. /\ product[p].state # "absent"
      /\ stock' = [stock EXCEPT ![p] = IF @ = NoUnit THEN product[p].unit ELSE NoUnit]
      /\ UNCHANGED <<now, product, category, log, inbox, started, request>>
  BY DEF Move
<1>2. TablesOK /\ product[p].unit \in Units
  BY <1>1 DEF CatInv, TablesOK, RowOK
<1>3. /\ stock' \in [Products -> Units \cup {NoUnit}]
      /\ \A x \in Products \ {p} : stock'[x] = stock[x]
  BY <1>1, <1>2 DEF TablesOK
<1>4. Moves
  BY <1>1 DEF Moves, RowMoves
<1>5. LogHoldsTheRows'
  BY <1>1, <1>2 DEF TablesOK, LogHoldsTheRows, Present, FreshCategories
<1>6. /\ \A x \in Products : RowOK(product[x])'
      /\ \A c \in Categories : LabelOK(category[c])'
  BY <1>1, <1>2 DEF TablesOK, RowOK, LabelOK
<1>7. TablesOK'
  BY <1>1, <1>2, <1>3, <1>5, <1>6 DEF TablesOK
<1> QED BY <1>1, <1>4, <1>7, RowsKeep

LEMMA Stops ==
  ASSUME CatInv, NEW r \in Requests, Stop(r)
  PROVE  CatInv' /\ UNCHANGED <<product, category, inbox>>
<1>1. End(r) /\ UNCHANGED <<now, product, category, stock, log, inbox>>
  BY DEF Stop, End
<1>2. TablesOK' /\ Moves
  BY <1>1, SameRows DEF CatInv
<1> QED BY <1>1, <1>2, EndKeeps

\* Requests that begin.
Begins(r) ==
    \/ BeginCreate(r) \/ BeginQueuedCreate(r) \/ BeginUpdate(r) \/ BeginArchive(r) \/ BeginPush(r)
    \/ BeginCategory(r) \/ BeginRename(r) \/ BeginShelve(r) \/ BeginAdopt(r) \/ BeginPreview(r)
    \/ BeginAcknowledge(r)

LEMMA RequestBegins ==
  ASSUME CatInv, NEW r \in Requests, Begins(r)
  PROVE  /\ CatInv' /\ UNCHANGED <<product, category, inbox>> /\ request[r] = Idle
         /\ \A s \in Requests \ {r} : request'[s] = request[s]
<1>1. \E job : Begin(r, job)
  <2>1. CASE BeginCreate(r) \/ BeginQueuedCreate(r)
    BY <2>1 DEF BeginCreate, BeginQueuedCreate, Creation
  <2>2. CASE BeginUpdate(r)
    BY <2>2 DEF BeginUpdate
  <2>3. CASE BeginArchive(r)
    BY <2>3 DEF BeginArchive
  <2>4. CASE BeginPush(r)
    BY <2>4 DEF BeginPush
  <2>5. CASE BeginCategory(r) \/ BeginRename(r) \/ BeginShelve(r)
    BY <2>5 DEF BeginCategory, BeginRename, BeginShelve
  <2>6. CASE BeginAdopt(r)
    BY <2>6 DEF BeginAdopt
  <2>7. CASE BeginPreview(r)
    BY <2>7 DEF BeginPreview
  <2>8. CASE BeginAcknowledge(r)
    BY <2>8 DEF BeginAcknowledge
  <2> QED BY <2>1, <2>2, <2>3, <2>4, <2>5, <2>6, <2>7, <2>8 DEF Begins
<1>2. CatInv'
  <2>1. BeginCreate(r) \/ BeginQueuedCreate(r) => Creation(r, 0) \/ Creation(r, 1)
    BY DEF BeginCreate, BeginQueuedCreate
  <2>2. ASSUME BeginCreate(r) \/ BeginQueuedCreate(r) PROVE CatInv'
    BY <2>1, <2>2, CreationBegins
  <2> QED BY <2>2, UpdateBegins, ArchiveBegins, PushBegins, CategoryBegins, AdoptBegins, PreviewBegins,
             AcknowledgeBegins DEF Begins
<1>3. /\ UNCHANGED <<product, category, inbox>> /\ request[r] = Idle
      /\ \A s \in Requests \ {r} : request'[s] = request[s]
  BY <1>1 DEF Begin, CatInv, RequestsOK
<1> QED BY <1>2, <1>3

\* Requests that commit.
Commits(r) ==
    \/ CommitCreate(r) \/ CommitUpdate(r) \/ CommitArchive(r) \/ CommitPush(r) \/ CommitRefusal(r)
    \/ CommitCategory(r) \/ CommitRename(r) \/ CommitShelve(r) \/ CommitAdopt(r) \/ CommitImport(r)
    \/ CommitAcknowledge(r)

Acts(r) == Stop(r) \/ Begins(r) \/ BeginImport(r) \/ Commits(r)

LEMMA RequestCommits ==
  ASSUME CatInv, NEW r \in Requests, Commits(r)
  PROVE  /\ CatInv' /\ request'[r] = Idle
         /\ \A s \in Requests \ {r} : request'[s] = request[s]
<1>1. End(r)
  BY DEF Commits, CommitCreate, CommitUpdate, CommitArchive, CommitPush, CommitRefusal, CommitCategory,
         CommitRename, CommitShelve, CommitAdopt, CommitImport, CommitAcknowledge
<1>2. CatInv'
  BY CreateCommits, UpdateCommits, ArchiveCommits, PushCommits, RefusalCommits, CategoryCommits,
     AdoptCommits, ImportCommits, AcknowledgeCommits DEF Commits
<1> QED BY <1>1, <1>2 DEF End, CatInv, RequestsOK

\* In a step one request acts or none does.
LEMMA StepCases ==
  ASSUME CatInv, [Next]_vars
  PROVE  /\ CatInv'
         /\ \/ UNCHANGED <<product, category, request>>
            \/ \E r \in Requests : /\ Acts(r)
                                   /\ \A s \in Requests \ {r} : request'[s] = request[s]
<1>1. CASE UNCHANGED vars
  <2>1. TablesOK' /\ Moves /\ UNCHANGED <<started, request>>
    BY <1>1, SameRows DEF vars, CatInv
  <2> QED BY <1>1, <2>1, RowsKeep DEF vars
<1>2. CASE Tick
  BY <1>2, TimeGoesOn DEF Tick
<1>3. CASE AcknowledgeAll
  BY <1>3, AllAreAcknowledged DEF AcknowledgeAll
<1>4. ASSUME NEW p \in Products, Move(p)
      PROVE  CatInv' /\ UNCHANGED <<product, category, request>>
  BY <1>4, GoodsMove DEF Move
<1>5. ASSUME NEW r \in Requests,
             \/ Stop(r)
             \/ ProductStep(r) \/ PushStep(r)   \/ CategoryStep(r)
             \/ AdoptStep(r)   \/ ImportStep(r) \/ InboxStep(r)
      PROVE  CatInv' /\ Acts(r) /\ \A s \in Requests \ {r} : request'[s] = request[s]
  <2>1. Acts(r)
    BY <1>5 DEF Acts, Begins, Commits, ProductStep, PushStep, CategoryStep, AdoptStep, ImportStep,
                InboxStep
  <2>2. CASE Stop(r)
    BY <2>1, <2>2, Stops DEF Stop, End, CatInv, RequestsOK
  <2>3. CASE Begins(r)
    BY <2>1, <2>3, RequestBegins
  <2>4. CASE BeginImport(r)
    BY <2>1, <2>4, ImportBegins
  <2>5. CASE Commits(r)
    BY <2>1, <2>5, RequestCommits
  <2> QED BY <2>1, <2>2, <2>3, <2>4, <2>5 DEF Acts
<1> QED BY <1>1, <1>2, <1>3, <1>4, <1>5 DEF Next

\* The invariant of the catalogue: the rows are what they should be, and every request has
\* decided on rows that really were that way, and says so for as long as the versions agree.
THEOREM CatalogueIsSound == Spec => []CatInv
<1>1. Init => CatInv
  BY InitialRows
<1>2. CatInv /\ [Next]_vars => CatInv'
  BY StepCases
<1> QED BY <1>1, <1>2, PTL DEF Spec

\* The shape of the state, for any number of products, files and requests (TypeOK).
THEOREM CatalogueType == Spec => []TypeOK
<1>1. CatInv => TypeOK
  <2> SUFFICES ASSUME CatInv PROVE TypeOK
    OBVIOUS
  <2>1. \A p \in Products : /\ RowShape(product[p]) /\ (product[p].unit \in Units \/ product[p].state = "absent")
                            /\ product[p].state = "absent" <=> product[p].version = 0
    BY DEF CatInv, TablesOK, RowOK
  <2>2. \A c \in Categories : category[c].name \in Names \/ category[c].state = "absent"
    BY DEF CatInv, TablesOK, LabelOK
  <2>3. \A i \in DOMAIN inbox : /\ inbox[i].fields \subseteq AllFields
                                /\ inbox[i].fields # {}
                                /\ inbox[i].seen \in 0..MaxTime
    <3>1. inbox \in Seq(EntryType)
      BY DEF CatInv, TablesOK
    <3>2. \A i \in DOMAIN inbox : inbox[i] \in EntryType
      BY <3>1
    <3> QED BY <3>2 DEF EntryType
  <2>4. now \in 1..MaxTime /\ stock \in [Products -> Units \cup {NoUnit}]
    BY DEF CatInv, TablesOK
  <2>5. started \in 0..MaxRequests /\ DOMAIN request = Requests
    BY DEF CatInv, RequestsOK
  <2> QED BY <2>1, <2>2, <2>3, <2>4, <2>5 DEF TypeOK, RowShape, States
<1> QED BY <1>1, CatalogueIsSound, PTL

\* The change log holds an entry for the version each product is at, and one for each category,
\* but for the rows an import overwrote and the categories an adoption made (LogHoldsTheRows).
THEOREM LogIsComplete == Spec => []LogHoldsTheRows
<1>1. CatInv => LogHoldsTheRows
  BY DEF CatInv, TablesOK
<1> QED BY <1>1, CatalogueIsSound, PTL

\* What an import is about to create shares no code with itself or with a live product, unless a
\* product was written since the plan was made or both codes of a line were taken
\* (BatchFitsTheIndex).
THEOREM BatchesFit == Spec => []BatchFitsTheIndex
<1>1. CatInv => BatchFitsTheIndex
  BY DEF CatInv, RequestsOK, JobOK, ImportOK, Fits, BatchFitsTheIndex
<1> QED BY <1>1, CatalogueIsSound, PTL

-----------------------------------------------------------------------------
(* What a step may never do.                                               *)

\* Only the request that acts can end, and what it read still tells.
LEMMA WhoEnds ==
  ASSUME CatInv, [Next]_vars, NEW r \in Requests, request'[r] # request[r]
  PROVE  Acts(r)
BY StepCases DEF CatInv, RequestsOK

LEMMA KindOfIdle == Idle.kind = "none"
BY DEF Idle

\* A device's edit replaces only decisions older than its own, and prices only when the device
\* had seen the version it replaces (EditsRespectNewer).
THEOREM EditsRespect == Spec => EditsRespectNewer
<1> DEFINE Kept(r) ==
      Ends(r, "push") =>
          LET q   == request[r]
              row == product[q.product]
          IN  q.read.version = row.version =>
                  \A f \in Fields :
                      product'[q.product].wrote[f] # row.wrote[f] =>
                          /\ f \in PriceFields => q.edit.base = row.version
                          /\ \/ q.edit.at > row.wrote[f]
                             \/ row.clock # 0 /\ row.clock < row.wrote[f]
<1>1. ASSUME CatInv, [Next]_vars, NEW r \in Requests PROVE Kept(r)
  <2> DEFINE q   == request[r]
             row == product[q.product]
  <2> SUFFICES ASSUME Ends(r, "push"), q.read.version = row.version, NEW f \in Fields,
                      product'[q.product].wrote[f] # row.wrote[f]
               PROVE  /\ f \in PriceFields => q.edit.base = row.version
                      /\ \/ q.edit.at > row.wrote[f]
                         \/ row.clock # 0 /\ row.clock < row.wrote[f]
    OBVIOUS
  <2>1. q.kind = "push" /\ request'[r] = Idle /\ product' # product
    BY DEF Ends
  <2>2. Acts(r)
    BY <1>1, <2>1, KindOfIdle, WhoEnds
  <2>3. CommitPush(r)
    <3>1. ~Stop(r) /\ ~Begins(r) /\ ~BeginImport(r)
      BY <1>1, <2>1, KindOfIdle, Stops, RequestBegins, ImportBegins
    <3>2. Commits(r)
      BY <2>2, <3>1 DEF Acts
    <3> QED BY <1>1, <2>1, <3>2, CreateCommits, UpdateCommits, ArchiveCommits, RefusalCommits,
               CategoryCommits, AdoptCommits, ImportCommits, AcknowledgeCommits DEF Commits
  <2>4. /\ q.product \in Present /\ PushOK(q)
        /\ \A g \in Fields : product'[q.product].wrote[g] =
              IF g \in UpdateWrites(q.accepted, q.patch.nulls) THEN q.edit.at ELSE row.wrote[g]
    BY <1>1, <2>3, PushCommits
  <2>5. f \in q.accepted
    BY <2>4 DEF UpdateWrites
  <2>6. q.read = row
    BY <2>4 DEF PushOK, PatchOK, Before
  <2>7. f \in Accepted(q.edit, Dated(row))
    BY <2>4, <2>5, <2>6 DEF PushOK
  <2>8. /\ q.edit.at > EffectiveUpdatedAt(row)
        /\ f \in PriceFields => q.edit.base = row.version
    <3>1. Refusal(f, q.edit, Dated(row)) = "none"
      BY <2>7 DEF Accepted
    <3>2. Dated(row).version = row.version /\ Dated(row).changedAt = EffectiveUpdatedAt(row)
      BY DEF Dated
    <3> QED BY <3>1, <3>2 DEF Refusal, ClientIsNewer
  <2>9. RowOK(row) /\ q.edit.at \in Int
    BY <1>1, <2>4 DEF CatInv, TablesOK, Present, PushOK
  <2>10. row.clock \in Int /\ row.updated \in Int /\ row.wrote[f] \in Int
    BY <2>9 DEF RowOK, RowShape
  <2>11. CASE row.clock = 0
    <3>1. q.edit.at > row.updated /\ row.wrote[f] <= row.updated
      BY <2>8, <2>9, <2>11 DEF EffectiveUpdatedAt, RowOK
    <3> QED BY <2>8, <2>9, <2>10, <3>1
  <2>12. CASE row.clock # 0
    <3>1. q.edit.at > row.clock
      BY <2>8, <2>12 DEF EffectiveUpdatedAt
    <3> QED BY <2>8, <2>9, <2>10, <2>12, <3>1
  <2> QED BY <2>11, <2>12
<1>2. CatInv /\ [Next]_vars => [\A r \in Requests : Kept(r)]_vars
  BY <1>1
<1> QED BY <1>2, CatalogueIsSound, PTL DEF Spec, EditsRespectNewer

\* Each field of an answered edit is on the row or in a new entry of the conflict inbox, but for
\* what an update leaves out of what was accepted: mrp, a null category or threshold, a name that
\* is no column (NothingDropped).  With every column among Fields nothing else is excepted.
THEOREM NothingIsDropped == Spec => NothingDropped
<1> DEFINE There(r, f) ==
      \/ /\ f \in Fields
         /\ product'[request[r].product].wrote[f] = request[r].edit.at
      \/ \E i \in DOMAIN inbox' \ DOMAIN inbox : f \in inbox'[i].fields
      \/ /\ request[r].edit.at > EffectiveUpdatedAt(request[r].read) /\ f \notin ServerFields
         /\ f \notin Fields \ {"mrp"} \/ f \in request[r].patch.nulls
    Told(r) == Ends(r, "push") /\ <<product, inbox>>' # <<product, inbox>> =>
                  \A f \in request[r].edit.fields : There(r, f)
<1>1. ASSUME CatInv, [Next]_vars, NEW r \in Requests PROVE Told(r)
  <2> DEFINE q == request[r]
  <2> SUFFICES ASSUME Ends(r, "push"), <<product, inbox>>' # <<product, inbox>>,
                      NEW f \in q.edit.fields
               PROVE  There(r, f)
    OBVIOUS
  <2>1. q.kind = "push" /\ request'[r] = Idle
    BY DEF Ends
  <2>2. Acts(r)
    BY <1>1, <2>1, KindOfIdle, WhoEnds
  <2>3. CommitPush(r) \/ CommitRefusal(r)
    <3>1. ~Stop(r) /\ ~Begins(r) /\ ~BeginImport(r)
      BY <1>1, <2>1, KindOfIdle, Stops, RequestBegins, ImportBegins
    <3>2. Commits(r)
      BY <2>2, <3>1 DEF Acts
    <3> QED BY <1>1, <2>1, <3>2, CreateCommits, UpdateCommits, ArchiveCommits,
               CategoryCommits, AdoptCommits, ImportCommits, AcknowledgeCommits DEF Commits
  <2>4. PushOK(q) /\ inbox' = InboxAfter(r)
    BY <1>1, <2>3, PushCommits, RefusalCommits
  <2>5. CASE f \in q.rejected
    <3>1. \E i \in DOMAIN inbox' \ DOMAIN inbox : inbox'[i].fields = q.rejected
      BY <1>1, <2>4, <2>5, InboxGrows DEF CatInv
    <3> QED BY <2>5, <3>1
  <2>6. CASE f \notin q.rejected
    <3>1. f \in q.accepted /\ Refusal(f, q.edit, Dated(q.read)) = "none"
      BY <2>4, <2>6 DEF PushOK, Accepted, Rejected
    <3>2. f \notin ServerFields /\ q.edit.at > EffectiveUpdatedAt(q.read)
      BY <3>1 DEF Refusal, ClientIsNewer, Dated
    <3>3. CASE f \in Fields \ {"mrp"} /\ f \notin q.patch.nulls
      <4>1. f \in UpdateWrites(q.accepted, q.patch.nulls)
        BY <3>1, <3>3, CatalogueAssumption DEF UpdateWrites
      <4>2. CommitPush(r)
        BY <1>1, <2>3, <3>1, RefusalCommits
      <4>3. product'[q.product].wrote[f] = q.edit.at
        BY <1>1, <3>3, <4>1, <4>2, PushCommits
      <4> QED BY <3>3, <4>3
    <3> QED BY <3>2, <3>3
  <2> QED BY <2>5, <2>6
<1>2. CatInv /\ [Next]_vars => [\A r \in Requests : Told(r)]_vars
  BY <1>1
<1> QED BY <1>2, CatalogueIsSound, PTL DEF Spec, NothingDropped

\* A product that has stock changes its unit only through an update that was overtaken
\* (StockKeepsItsUnit).
THEOREM UnitsAreKept == Spec => StockKeepsItsUnit
<1> DEFINE Kept(p) ==
      product'[p].unit # product[p].unit /\ stock[p] # NoUnit =>
          \E r \in Requests :
              /\ Ends(r, "update")
              /\ request[r].product = p
              /\ \/ request[r].counted # stock[p]
                 \/ request[r].read.version # product[p].version
<1>1. ASSUME CatInv, [Next]_vars, NEW p \in Products PROVE Kept(p)
  <2> SUFFICES ASSUME product'[p].unit # product[p].unit, stock[p] # NoUnit
               PROVE  \E r \in Requests :
                          /\ Ends(r, "update")
                          /\ request[r].product = p
                          /\ \/ request[r].counted # stock[p]
                             \/ request[r].read.version # product[p].version
    OBVIOUS
  <2>1. product[p].state # "absent"
    BY <1>1 DEF CatInv, TablesOK
  <2>2. PICK r \in Requests : Acts(r)
    BY <1>1, StepCases
  <2>3. CommitUpdate(r)
    <3>1. ~Stop(r) /\ ~Begins(r) /\ ~BeginImport(r)
      BY <1>1, Stops, RequestBegins, ImportBegins
    <3>2. Commits(r)
      BY <2>2, <3>1 DEF Acts
    <3> QED BY <1>1, <2>1, <3>2, CreateCommits, ArchiveCommits, PushCommits, RefusalCommits,
               CategoryCommits, AdoptCommits, ImportCommits, AcknowledgeCommits DEF Commits
  <2> DEFINE q == request[r]
  <2>4. /\ q.kind = "update" /\ UpdateOK(q)
        /\ \A x \in Products \ {q.product} : product'[x] = product[x]
        /\ product'[q.product].unit = IF q.unit = NoUnit THEN product[q.product].unit ELSE q.unit
    BY <1>1, <2>3, UpdateCommits
  <2>5. Ends(r, "update")
    BY <1>1, <2>3, <2>4, RequestCommits DEF Ends, Commits
  <2>6. q.product = p
    BY <2>4
  <2>7. q.unit \notin {NoUnit, product[p].unit}
    BY <2>4, <2>6
  <2>8. ASSUME q.counted = stock[p], q.read.version = product[p].version PROVE FALSE
    <3>1. q.read = product[p]
      BY <2>4, <2>6, <2>8 DEF UpdateOK, PatchOK, Before
    <3>2. q.counted = NoUnit
      BY <2>4, <2>7, <3>1 DEF UpdateOK
    <3> QED BY <2>8, <3>2
  <2> QED BY <2>5, <2>6, <2>8
<1>2. CatInv /\ [Next]_vars => [\A p \in Products : Kept(p)]_vars
  BY <1>1
<1> QED BY <1>2, CatalogueIsSound, PTL DEF Spec, StockKeepsItsUnit

\* A request never makes the second product of a master, or the second category of a name, when
\* it could see the first (NoTwins).
THEOREM NoTwinsAreMade == Spec => NoTwins
<1> DEFINE Single(r) ==
      request[r] # Idle /\ request'[r] = Idle =>
          /\ \A p, q \in Products :
                /\ p # q /\ product[p].state = "absent"
                /\ product'[p].state = "live" /\ product'[q].state = "live"
                /\ product'[p].master = product'[q].master /\ product'[p].master # NoMaster
                => request[r].seen[q] = 0
          /\ \A c, d \in Categories :
                /\ c # d /\ category'[c] # category[c]
                /\ category'[c].state = "live" /\ category'[d].state = "live"
                /\ category'[c].name = category'[d].name
                => IF request[r].kind = "adopt" THEN d \notin request[r].mirrors
                   ELSE <<d, category[d].name>> \notin request[r].shelf
<1>1. ASSUME CatInv, [Next]_vars, NEW r \in Requests PROVE Single(r)
  <2> DEFINE job == request[r]
  <2> SUFFICES ASSUME job # Idle, request'[r] = Idle
               PROVE  /\ \A p, q \in Products :
                            /\ p # q /\ product[p].state = "absent"
                            /\ product'[p].state = "live" /\ product'[q].state = "live"
                            /\ product'[p].master = product'[q].master
                            /\ product'[p].master # NoMaster
                            => job.seen[q] = 0
                      /\ \A c, d \in Categories :
                            /\ c # d /\ category'[c] # category[c]
                            /\ category'[c].state = "live" /\ category'[d].state = "live"
                            /\ category'[c].name = category'[d].name
                            => IF job.kind = "adopt" THEN d \notin job.mirrors
                               ELSE <<d, category[d].name>> \notin job.shelf
    OBVIOUS
  <2>1. Acts(r)
    BY <1>1, WhoEnds
  <2>2. ASSUME NEW p \in Products, NEW q \in Products, p # q, product[p].state = "absent",
               product'[p].state = "live", product'[q].state = "live",
               product'[p].master = product'[q].master, product'[p].master # NoMaster
        PROVE  job.seen[q] = 0
    <3>1. product' # product /\ product'[p] # product[p]
      BY <2>2
    <3>2. CommitAdopt(r)
      <4>1. ~Stop(r) /\ ~Begins(r) /\ ~BeginImport(r)
        BY <1>1, <3>1, Stops, RequestBegins, ImportBegins
      <4>2. Commits(r)
        BY <2>1, <4>1 DEF Acts
      <4>3. ~CommitCreate(r) /\ ~CommitArchive(r) /\ ~CommitPush(r) /\ ~CommitRefusal(r)
        BY <1>1, <2>2, <3>1, CreateCommits, ArchiveCommits, PushCommits, RefusalCommits
      <4>4. ~CommitCategory(r) /\ ~CommitRename(r) /\ ~CommitShelve(r) /\ ~CommitAcknowledge(r)
        BY <1>1, <3>1, CategoryCommits, AcknowledgeCommits
      <4>5. ~CommitUpdate(r)
        BY <1>1, <2>2, <3>1, UpdateCommits
      <4>6. ~CommitImport(r)
        BY <1>1, <2>2, ImportCommits
      <4> QED BY <4>2, <4>3, <4>4, <4>5, <4>6 DEF Commits
    <3>3. /\ AdoptOK(job)
          /\ \A x \in Products : \/ product'[x] = product[x]
                                 \/ product[x].state = "absent" /\ product'[x].master \in job.new
          /\ product'[p] # product[p] /\ product'[q] # product[q] => p = q
      BY <1>1, <2>2, <3>2, AdoptCommits
    <3>4. product'[q] = product[q] /\ product[q].state = "live" /\ product[q].master \in job.new
      BY <2>2, <3>1, <3>3
    <3> QED BY <3>3, <3>4 DEF AdoptOK
  <2>3. ASSUME NEW c \in Categories, NEW d \in Categories, c # d, category'[c] # category[c],
               category'[c].state = "live", category'[d].state = "live",
               category'[c].name = category'[d].name
        PROVE  IF job.kind = "adopt" THEN d \notin job.mirrors
               ELSE <<d, category[d].name>> \notin job.shelf
    <3>1. ~Stop(r) /\ ~Begins(r)
      BY <1>1, <2>3, Stops, RequestBegins
    <3>2. ~BeginImport(r)
      BY <2>3 DEF BeginImport
    <3>3. Commits(r)
      BY <2>1, <3>1, <3>2 DEF Acts
    <3>4. ~CommitCreate(r) /\ ~CommitRefusal(r) /\ ~CommitAcknowledge(r)
      BY <1>1, <2>3, CreateCommits, RefusalCommits, AcknowledgeCommits
    <3>5. ~CommitUpdate(r) /\ ~CommitArchive(r) /\ ~CommitPush(r)
      BY <2>3 DEF CommitUpdate, CommitArchive, CommitPush
    <3>6. CASE CommitCategory(r) \/ CommitRename(r) \/ CommitShelve(r)
      <4>1. /\ job.kind # "adopt" /\ category'[d] = category[d]
            /\ \A s \in job.shelf : s[1] \in Categories \ {c} => s[2] # category'[c].name
        BY <1>1, <2>3, <3>6, CategoryCommits
      <4> QED BY <2>3, <4>1
    <3>7. CASE CommitAdopt(r)
      BY <1>1, <2>3, <3>7, AdoptCommits
    <3>8. CASE CommitImport(r)
      <4>1. /\ job.kind # "adopt" /\ category'[d] = category[d]
            /\ \A s \in job.shelf : s[2] # category'[c].name
        BY <1>1, <2>3, <3>8, ImportCommits
      <4> QED BY <2>3, <4>1
    <3> QED BY <3>3, <3>4, <3>5, <3>6, <3>7, <3>8 DEF Commits
  <2> QED BY <2>2, <2>3
<1>2. CatInv /\ [Next]_vars => [\A r \in Requests : Single(r)]_vars
  BY <1>1
<1> QED BY <1>2, CatalogueIsSound, PTL DEF Spec, NoTwins

\* The commit of an import writes what its preview had shown (ImportKeepsItsWord).
THEOREM ImportsKeepTheirWord == Spec => ImportKeepsItsWord
<1> DEFINE Kept(r) ==
      request[r].kind = "preview" /\ request'[r].kind = "import" =>
          LET shown  == request[r].shown
              create == request'[r].plan.create
              update == request'[r].plan.update
          IN  /\ \A l \in DOMAIN create \cup DOMAIN update : shown[l].verdict # "ERROR"
              /\ \A l \in DOMAIN update : shown[l].verdict = "SKIP"
              /\ request[r].seen = Versions =>
                    \A l \in DOMAIN update : update[l] = shown[l].of
<1>1. ASSUME CatInv, [Next]_vars, NEW r \in Requests PROVE Kept(r)
  <2> SUFFICES ASSUME request[r].kind = "preview", request'[r].kind = "import" PROVE Kept(r)
    OBVIOUS
  <2>1. Acts(r)
    BY <1>1, WhoEnds
  <2>2. BeginImport(r)
    <3>1. ~Stop(r)
      BY <1>1, KindOfIdle DEF Stop, End, CatInv, RequestsOK
    <3>2. ~Begins(r)
      BY <1>1, KindOfIdle, RequestBegins
    <3>3. ~Commits(r)
      BY <1>1, KindOfIdle, RequestCommits
    <3> QED BY <2>1, <3>1, <3>2, <3>3 DEF Acts
  <2> DEFINE q    == request[r]
             plan == request'[r].plan
             good == GoodLines(q.file, q.default)
  <2>3. /\ PreviewOK(q)
        /\ DOMAIN plan.create \subseteq good /\ DOMAIN plan.update \subseteq good
        /\ good \subseteq DOMAIN q.file
        /\ \A l \in DOMAIN plan.update :
              /\ q.shown[l].verdict = "SKIP"
              /\ plan.update[l] = FindClash(q.file[l], product, Live).product
    BY <1>1, <2>2, ImportBegins
  <2>4. \A l \in good : q.shown[l].verdict # "ERROR"
    BY <2>3 DEF PreviewOK
  <2>5. q.seen = Versions =>
            \A l \in DOMAIN q.file : q.shown[l].of = FindClash(q.file[l], product, Live).product
    BY <2>3 DEF PreviewOK
  <2> QED BY <2>3, <2>4, <2>5
<1>2. CatInv /\ [Next]_vars => [\A r \in Requests : Kept(r)]_vars
  BY <1>1
<1> QED BY <1>2, CatalogueIsSound, PTL DEF Spec, ImportKeepsItsWord
=============================================================================

------------------------------ MODULE Catalogue ------------------------------
(***************************************************************************)
(* The catalogue of one shop: products and categories, and every way they  *)
(* are written - the counter's requests (products.service, categories.     *)
(* service), a device's queued edits (sync.service), the bulk import and   *)
(* the adoption of products from the master catalogue - with the conflict  *)
(* inbox and the change log entries the devices live on.                   *)
(*                                                                         *)
(* A request is one transaction under READ COMMITTED: it reads (Begin...), *)
(* and later writes and commits at once (Commit...); what others commit in *)
(* between it has not seen.  Stop is a rollback.                           *)
(*                                                                         *)
(* The value of a field is represented by the time its author says it was  *)
(* decided at, `wrote[f]`: the server's clock for an online edit, the      *)
(* device's own, which may be wrong, for a pushed one.                     *)
(***************************************************************************)
EXTENDS ConflictPolicy, ImportFile, Functions, TLC

CONSTANTS
    Requests,       \* requests that may run at the same time
    MaxRequests,    \* bound: requests in all
    Products,       \* product ids
    Categories,     \* category ids
    NoCategory,     \* a product in no category
    MaxTime,        \* bound: both clocks
    Codes,          \* skus and short codes
    Units,          \* units of sale
    Names,          \* category names
    NoName,         \* a row that names no category
    MasterName,     \* the name of the platform's category
    Masters,        \* products of the master catalogue
    MasterUnit,     \* their unit
    NoMaster,       \* a product made by the shop itself
    Fields,         \* the fields whose history is followed
    OtherFields,    \* other names a payload may hold: aliases, those of a newer app
    Patches,        \* patches people send: [fields, nulls, sku, short, category]
    Drafts,         \* new products people send: [sku, short, unit, opening]
    Files           \* files people upload

\* A line of an uploaded file, as its cells are read.
Cells == [named : BOOLEAN, sku : Codes \cup {NoCode}, short : Codes \cup {NoCode},
          unit : Units \cup {"blank", "unknown"}, selling : Int, purchase : Int, mrp : Int,
          opening : Int, low : Int, category : Names \cup {NoName}]

ASSUME CatalogueAssumption ==
    /\ MaxRequests \in Nat /\ MaxTime \in Nat \ {0, 1}
    /\ Products # {} /\ Categories # {}
    /\ NoCode \notin Codes /\ NoUnit \notin Units /\ NoMaster \notin Masters
    /\ NoProduct \notin Products /\ NoCategory \notin Categories /\ NoName \notin Names
    /\ MasterUnit \in Units /\ MasterName \in Names
    /\ Fields \subseteq ProductPatch
    /\ OtherFields \cap (ProductPatch \cup ServerFields) = {}

\* What a payload may name: the schema of a push leaves its contents open.
AllFields == ProductPatch \cup ServerFields \cup OtherFields

\* What people send.  A patch names any fields, or none; `nulls` are those it sends a null for,
\* where that is not a value like any other: an empty code is NoCode.
ASSUME InputAssumption ==
    /\ Patches \subseteq [fields : SUBSET AllFields, nulls : SUBSET {"category", "lowStockThreshold"},
                         sku : Codes \cup {NoCode}, short : Codes \cup {NoCode},
                         category : Categories \cup {NoCategory}]
    /\ Drafts \subseteq [sku : Codes \cup {NoCode}, short : Codes \cup {NoCode}, unit : Units,
                        opening : Int]
    /\ Files \in Seq(Seq(Cells))

VARIABLES
    now,        \* the server's clock
    product,    \* product rows
    category,   \* category rows
    stock,      \* the unit the stock of a product was counted in, NoUnit when zero
    log,        \* change log: <<entity, id, version>>
    inbox,      \* sync_conflict rows, oldest first
    started,    \* requests so far
    request     \* what each running request has read and will write

vars == <<now, product, category, stock, log, inbox, started, request>>

Idle == [kind |-> "none"]

Present == {p \in Products : product[p].state # "absent"}
Live    == {p \in Products : product[p].state = "live"}
Shelf   == {<<c, category[c].name>> : c \in {d \in Categories : category[d].state = "live"}}
Mirrors == {c \in Categories : category[c].state = "live" /\ category[c].mirrors}

\* What tells a request whether the products it read are still as they were.
Versions == [p \in Products |-> product[p].version]

\* Ids are random and never drawn twice.
FreshCategories == {c \in Categories : category[c].state = "absent"}
FreshProducts   == Products \ Present
AFresh(S)       == CHOOSE x \in S : TRUE

NoRow == [state |-> "absent", sku |-> NoCode, short |-> NoCode, unit |-> NoUnit,
          master |-> NoMaster, category |-> NoCategory, version |-> 0, clock |-> 0,
          updated |-> 0, wrote |-> [f \in Fields |-> 0], quiet |-> FALSE]

NoLabel == [state |-> "absent", name |-> NoName, mirrors |-> FALSE]

\* A new row; `at` is the device's time, 0 for a product made online.
NewRow(draft, master, cat, at) ==
    [state |-> "live", sku |-> draft.sku, short |-> draft.short, unit |-> draft.unit,
     master |-> master, category |-> cat, version |-> 1, clock |-> at, updated |-> now,
     wrote |-> [f \in Fields |-> IF at = 0 THEN now ELSE at], quiet |-> FALSE]

\* The partial unique indexes: live products share no code.
IndexHolds(rows) ==
    \A p, q \in Products :
        (p # q /\ rows[p].state = "live" /\ rows[q].state = "live") => ~SharesCode(rows[p], rows[q])

\* assertCodesAreFree.
CodesAreFree(sku, short, except) ==
    \A q \in Live \ {except} : ~SharesCode([sku |-> sku, short |-> short], product[q])

\* The codes an edit asks for are; one it does not name is not looked at.
EditFits(fields, patch, p) ==
    CodesAreFree(IF "sku" \in fields THEN patch.sku ELSE NoCode,
                 IF "shortCode" \in fields THEN patch.short ELSE NoCode, p)

NameIsFree(name, except) == \A s \in Shelf : s[1] # except => s[2] # name

\* What ProductsService.update writes of the fields it is given: mrp is not among its columns,
\* nor is a name it does not know, and a null category or threshold is taken for no value.
UpdateWrites(fields, nulls) == (fields \cap ProductPatch) \ ({"mrp"} \cup nulls)

\* The row after ProductsService.update: `at` is the device's time, 0 for an edit made online,
\* which leaves the clock column as it is.
Updated(row, fields, patch, unit, at) ==
    LET written == UpdateWrites(fields, patch.nulls) IN
    [row EXCEPT !.sku      = IF "sku" \in written THEN patch.sku ELSE @,
                !.short    = IF "shortCode" \in written THEN patch.short ELSE @,
                !.category = IF "category" \in written THEN patch.category ELSE @,
                !.unit     = IF unit = NoUnit THEN @ ELSE unit,
                !.clock    = IF at = 0 THEN @ ELSE at,
                !.updated  = now,
                !.version  = @ + 1,
                !.wrote    = [f \in Fields |-> IF f \notin written THEN @[f]
                                               ELSE IF at = 0 THEN now ELSE at],
                !.quiet    = FALSE]

\* The row after an import's UPDATE by so many lines: names, prices and the threshold, never
\* unit or stock.
Overwritten(row, lines) ==
    [row EXCEPT !.updated = now,
                !.version = @ + lines,
                !.wrote   = [f \in Fields |-> IF f \in {"sku", "shortCode", "category"} THEN @[f]
                                              ELSE now],
                !.quiet   = TRUE]

\* Mutant: a row no device has written has no time of its own.
EffectiveUpdatedAtZero(row) == row.clock

\* The server's time for a row: the client's where one is known.
EffectiveUpdatedAt(row) == IF row.clock # 0 THEN row.clock ELSE row.updated

-----------------------------------------------------------------------------
(* A shop with one category and one product: made online, perhaps edited   *)
(* by a device at time 1 (part of that edit was refused), and edited       *)
(* online at 2.                                                            *)

Init ==
    /\ now = 2
    /\ \E code \in Codes \cup {NoCode}, clock \in {0, 1} :
          /\ product = [p \in Products |->
                           IF p # AFresh(Products) THEN NoRow
                           ELSE [NoRow EXCEPT !.state = "live", !.sku = code, !.short = code,
                                              !.unit = MasterUnit, !.version = 2 + clock, !.clock = clock,
                                              !.updated = 2, !.wrote = [f \in Fields |-> 2]]]
          /\ log = {<<"product", AFresh(Products), v>> : v \in 1..(2 + clock)}
                      \cup {<<"category", AFresh(Categories), 1>>}
          /\ inbox = IF clock = 0 THEN <<>>
                      ELSE <<[product |-> AFresh(Products), fields |-> {"sellingPrice"}, seen |-> 0]>>
          /\ \E name \in Names \ {MasterName} :
                category = [c \in Categories |->
                               IF c # AFresh(Categories) THEN NoLabel
                               ELSE [NoLabel EXCEPT !.state = "live", !.name = name]]
    /\ stock = [p \in Products |-> NoUnit]
    /\ started = 0
    /\ request = [r \in Requests |-> Idle]

\* A request has read what it needs; `job` is what it keeps of it.
Begin(r, job) ==
    /\ request[r] = Idle
    /\ started < MaxRequests
    /\ started' = started + 1
    /\ request' = [request EXCEPT ![r] = job]
    /\ UNCHANGED <<now, product, category, stock, log, inbox>>

\* It commits and is answered.
End(r) ==
    /\ request' = [request EXCEPT ![r] = Idle]
    /\ UNCHANGED <<now, started>>

\* It is rolled back: an exception, a unique index, a timeout.
Stop(r) ==
    /\ request[r] # Idle
    /\ End(r)
    /\ UNCHANGED <<product, category, stock, log, inbox>>

Tick == /\ now < MaxTime
        /\ now' = now + 1
        /\ UNCHANGED <<product, category, stock, log, inbox, started, request>>

\* Goods come in, counted in the unit of the product, or the last of them leave.
Move(p) ==
    /\ product[p].state # "absent"
    /\ stock' = [stock EXCEPT ![p] = IF @ = NoUnit THEN product[p].unit ELSE NoUnit]
    /\ UNCHANGED <<now, product, category, log, inbox, started, request>>

-----------------------------------------------------------------------------
(* ProductsService, online and for a queued creation.                      *)

Creation(r, at) ==
    \E d \in Drafts :
        /\ ~BadQuantity(d.opening, d.unit)
        /\ CodesAreFree(d.sku, d.short, NoProduct)
        /\ Begin(r, [kind |-> "create", draft |-> d, at |-> at])

BeginCreate(r) == Creation(r, 0)

\* applyProductCreate, for an id the server has not seen; the row keeps the device's time.
BeginQueuedCreate(r) == Creation(r, 1)

CommitCreate(r) ==
    LET d == request[r].draft
        p == AFresh(FreshProducts)
    IN  /\ request[r].kind = "create"
        /\ FreshProducts # {}
        /\ product' = [product EXCEPT ![p] = NewRow(d, NoMaster, NoCategory, request[r].at)]
        /\ IndexHolds(product')
        /\ stock' = [stock EXCEPT ![p] = IF d.opening > 0 THEN d.unit ELSE NoUnit]
        /\ log' = log \cup {<<"product", p, 1>>}
        /\ End(r)
        /\ UNCHANGED <<category, inbox>>

\* Mutant: the unit changes whatever the stock.
BeginUpdateAnyUnit(r) ==
    \E p \in Present, patch \in Patches, unit \in Units \cup {NoUnit} :
        /\ EditFits(patch.fields, patch, p)
        /\ Begin(r, [kind |-> "update", product |-> p, patch |-> patch, unit |-> unit,
                     read |-> product[p], counted |-> stock[p]])

\* Another unit may only be asked for while the stock is zero; NoUnit: none is sent.
BeginUpdate(r) ==
    \E p \in Present, patch \in Patches, unit \in Units \cup {NoUnit} :
        /\ EditFits(patch.fields, patch, p)
        /\ unit \notin {NoUnit, product[p].unit} => stock[p] = NoUnit
        /\ Begin(r, [kind |-> "update", product |-> p, patch |-> patch, unit |-> unit,
                     read |-> product[p], counted |-> stock[p]])

\* Mutant: the version read before the update is logged.
WriteRowOld(p, row) ==
    /\ product' = [product EXCEPT ![p] = row]
    /\ IndexHolds(product')
    /\ row.category \notin FreshCategories
    /\ log' = log \cup {<<"product", p, product[p].version>>}

\* A row and its change log entry, in one transaction; its category is one there is (the foreign
\* key).
WriteRow(p, row) ==
    /\ product' = [product EXCEPT ![p] = row]
    /\ IndexHolds(product')
    /\ row.category \notin FreshCategories
    /\ log' = log \cup {<<"product", p, row.version>>}

CommitUpdate(r) ==
    LET q == request[r] IN
    /\ q.kind = "update"
    /\ WriteRow(q.product, Updated(product[q.product], q.patch.fields, q.patch, q.unit, 0))
    /\ End(r)
    /\ UNCHANGED <<category, stock, inbox>>

BeginArchive(r) == \E p \in Live : Begin(r, [kind |-> "archive", product |-> p])

CommitArchive(r) ==
    LET p == request[r].product IN
    /\ request[r].kind = "archive"
    /\ WriteRow(p, [product[p] EXCEPT !.state = "archived", !.updated = now,
                                      !.version = @ + 1, !.quiet = FALSE])
    /\ End(r)
    /\ UNCHANGED <<category, stock, inbox>>

-----------------------------------------------------------------------------
(* A queued edit or archive (applyProductUpdate) and the conflict inbox.   *)

BeginPush(r) ==
    \E p \in Present, patch \in Patches, at \in 1..MaxTime :
    \E base \in {0, product[p].version} :
        LET edit == [fields |-> patch.fields, at |-> at, base |-> base]
            row  == [version |-> product[p].version, changedAt |-> EffectiveUpdatedAt(product[p])]
        IN  /\ EditFits(Accepted(edit, row), patch, p)
            /\ Begin(r, [kind |-> "push", product |-> p, edit |-> edit, patch |-> patch,
                         accepted |-> Accepted(edit, row), rejected |-> Rejected(edit, row),
                         read |-> product[p]])

\* Mutant: an entry is made for every edit, refused or not.
InboxAfterAlways(r) ==
    Append(inbox, [product |-> request[r].product, fields |-> request[r].rejected, seen |-> 0])

\* recordConflict.
InboxAfter(r) ==
    IF request[r].rejected = {} THEN inbox
    ELSE Append(inbox, [product |-> request[r].product, fields |-> request[r].rejected,
                        seen |-> 0])

CommitPush(r) ==
    LET q == request[r] IN
    /\ q.kind = "push"
    /\ q.accepted # {}
    /\ WriteRow(q.product, Updated(product[q.product], q.accepted, q.patch, NoUnit, q.edit.at))
    /\ inbox' = InboxAfter(r)
    /\ End(r)
    /\ UNCHANGED <<category, stock>>

CommitRefusal(r) ==
    /\ request[r].kind = "push"
    /\ request[r].accepted = {}
    /\ inbox' = InboxAfter(r)
    /\ End(r)
    /\ UNCHANGED <<product, category, stock, log>>

BeginAcknowledge(r) ==
    \E i \in DOMAIN inbox :
        Begin(r, [kind |-> "acknowledge", entry |-> i, seen |-> inbox[i].seen])

\* An entry that was read as acknowledged keeps its stamp.
CommitAcknowledge(r) ==
    LET q == request[r] IN
    /\ q.kind = "acknowledge"
    /\ inbox' = [inbox EXCEPT ![q.entry].seen = IF q.seen # 0 THEN @ ELSE now]
    /\ End(r)
    /\ UNCHANGED <<product, category, stock, log>>

\* One conditional statement.
AcknowledgeAll ==
    /\ \E i \in DOMAIN inbox : inbox[i].seen = 0
    /\ inbox' = [i \in DOMAIN inbox |->
                    [inbox[i] EXCEPT !.seen = IF @ = 0 THEN now ELSE @]]
    /\ UNCHANGED <<now, product, category, stock, log, started, request>>

-----------------------------------------------------------------------------
(* CategoriesService.                                                      *)

BeginCategory(r) ==
    \E name \in Names :
        /\ NameIsFree(name, NoCategory)
        /\ Begin(r, [kind |-> "category", name |-> name, shelf |-> Shelf])

CommitCategory(r) ==
    LET c == AFresh(FreshCategories) IN
    /\ request[r].kind = "category"
    /\ FreshCategories # {}
    /\ category' = [category EXCEPT ![c] = [NoLabel EXCEPT !.state = "live",
                                                           !.name = request[r].name]]
    /\ log' = log \cup {<<"category", c, 1>>}
    /\ End(r)
    /\ UNCHANGED <<product, stock, inbox>>

BeginRename(r) ==
    \E c \in Categories \ FreshCategories, name \in Names :
        /\ NameIsFree(name, c)
        /\ Begin(r, [kind |-> "rename", category |-> c, name |-> name, shelf |-> Shelf])

CommitRename(r) ==
    LET c == request[r].category IN
    /\ request[r].kind = "rename"
    /\ category' = [category EXCEPT ![c].name = request[r].name]
    /\ log' = log \cup {<<"category", c, 1>>}
    /\ End(r)
    /\ UNCHANGED <<product, stock, inbox>>

BeginShelve(r) ==
    \E c \in Categories :
        /\ category[c].state = "live"
        /\ Begin(r, [kind |-> "shelve", category |-> c])

\* Products keep the category.
CommitShelve(r) ==
    LET c == request[r].category IN
    /\ request[r].kind = "shelve"
    /\ category' = [category EXCEPT ![c].state = "archived"]
    /\ log' = log \cup {<<"category", c, 1>>}
    /\ End(r)
    /\ UNCHANGED <<product, stock, inbox>>

-----------------------------------------------------------------------------
(* MasterCatalogueService.adopt.                                           *)

\* A fresh id for each member of `of`; none when the ids have run out.
FreshIds(of) == Injection(of, FreshProducts)

\* applyOpeningStockBatch: the opening stock of products made in this transaction.
Opened(units) == [p \in Products |-> IF p \in DOMAIN units THEN units[p] ELSE stock[p]]

\* Mutant: what was adopted before is adopted again.
BeginAdoptTwice(r) ==
    \E wanted \in (SUBSET Masters) \ {{}}, opening \in {0, 1000} :
        /\ ~BadQuantity(opening, MasterUnit)
        /\ Begin(r, [kind |-> "adopt", opening |-> opening, mirrors |-> Mirrors,
                     seen |-> Versions, new |-> wanted])

\* Masters adopted already are left out; the platform's category is looked for by its link.
BeginAdopt(r) ==
    \E wanted \in (SUBSET Masters) \ {{}}, opening \in {0, 1000} :
        /\ ~BadQuantity(opening, MasterUnit)
        /\ Begin(r, [kind |-> "adopt", opening |-> opening, mirrors |-> Mirrors,
                     seen |-> Versions, new |-> wanted \ {product[p].master : p \in Live}])

\* The category is made, unlogged, even when there is nothing left to adopt.
CommitAdopt(r) ==
    LET q     == request[r]
        ids   == CHOOSE f \in FreshIds(q.new) : TRUE
        made  == {ids[m] : m \in q.new}
        c     == IF q.mirrors # {} THEN AFresh(q.mirrors) ELSE AFresh(FreshCategories)
        draft == [sku |-> NoCode, short |-> NoCode, unit |-> MasterUnit]
    IN  /\ q.kind = "adopt"
        /\ FreshIds(q.new) # {}
        /\ q.mirrors # {} \/ FreshCategories # {}
        /\ category' = IF q.mirrors # {} THEN category
                       ELSE [category EXCEPT ![c] = [state |-> "live", name |-> MasterName,
                                                     mirrors |-> TRUE]]
        /\ product' = [p \in Products |->
                          IF p \notin made THEN product[p]
                          ELSE NewRow(draft, CHOOSE m \in q.new : ids[m] = p, c, 0)]
        /\ stock' = Opened([p \in IF q.opening > 0 THEN made ELSE {} |-> MasterUnit])
        /\ log' = log \cup {<<"product", p, 1>> : p \in made}
        /\ End(r)
        /\ UNCHANGED inbox

-----------------------------------------------------------------------------
(* ImportService: the preview, the decisions it is answered with, the write.*)

\* The shopkeeper is shown, line by line, what would happen and to which product.
BeginPreview(r) ==
    \E i \in DOMAIN Files, default \in Units \cup {NoUnit} :
        Begin(r, [kind |-> "preview", seen |-> Versions, file |-> Files[i], default |-> default,
                  shown |-> [l \in DOMAIN Files[i] |->
                                [verdict |-> Preview(Files[i], default, product, Live, l),
                                 of |-> FindClash(Files[i][l], product, Live).product]]])

Choices == {"SKIP", "UPDATE", "CREATE_ANYWAY"}

\* The commit is sent with a decision for every line shown as a duplicate, and plans its work.
BeginImport(r) ==
    LET q == request[r] IN
    /\ q.kind = "preview"
    /\ \E decisions \in [DOMAIN q.file -> Choices], accept \in BOOLEAN :
          /\ \A l \in DOMAIN q.file : q.shown[l].verdict # "SKIP" => decisions[l] = "SKIP"
          /\ request' = [request EXCEPT ![r] =
                [kind |-> "import", file |-> q.file, shown |-> q.shown, default |-> q.default,
                 seen |-> Versions, shelf |-> Shelf,
                 plan |-> Plan(q.file, q.default, decisions, accept, product, Live)]]
    /\ UNCHANGED <<now, product, category, stock, log, inbox, started>>

\* Categories are found by name or made; creations carry their opening stock; an update's
\* entry in the change log carries version 1.
CommitImport(r) ==
    LET q       == request[r]
        create  == q.plan.create
        lines   == DOMAIN create
        ids     == CHOOSE f \in FreshIds(lines) : TRUE
        made    == {ids[l] : l \in lines}
        update  == q.plan.update
        over(p) == {l \in DOMAIN update : update[l] = p}
        wanted  == {create[l].category : l \in lines} \ {NoName}
        missing == wanted \ {s[2] : s \in q.shelf}
        labels  == CHOOSE f \in Injection(missing, FreshCategories) : TRUE
        place(name) == IF name = NoName THEN NoCategory
                       ELSE IF name \in missing THEN labels[name]
                       ELSE (CHOOSE s \in q.shelf : s[2] = name)[1]
        unit(l) == UnitOf(create[l], q.default)
        draft(l) == [sku |-> create[l].sku, short |-> create[l].short, unit |-> unit(l)]
        line(p) == CHOOSE l \in lines : ids[l] = p
    IN  /\ q.kind = "import"
        /\ FreshIds(lines) # {}
        /\ Injection(missing, FreshCategories) # {}
        /\ category' = [c \in Categories |->
                           IF \E n \in missing : labels[n] = c
                           THEN [state |-> "live", mirrors |-> FALSE,
                                 name |-> CHOOSE n \in missing : labels[n] = c]
                           ELSE category[c]]
        /\ product' = [p \in Products |->
                          IF p \in made
                          THEN NewRow(draft(line(p)), NoMaster, place(create[line(p)].category), 0)
                          ELSE IF over(p) # {}
                          THEN Overwritten(product[p], Cardinality(over(p)))
                          ELSE product[p]]
        /\ IndexHolds(product')
        /\ stock' = Opened([p \in {x \in made : create[line(x)].opening > 0} |-> unit(line(p))])
        /\ log' = log \cup {<<"product", p, 1>> : p \in {x \in Products : x \in made \/ over(x) # {}}}
                      \cup {<<"category", labels[n], 1>> : n \in missing}
        /\ End(r)
        /\ UNCHANGED inbox

-----------------------------------------------------------------------------
ProductStep(r) ==
    \/ BeginCreate(r)  \/ CommitCreate(r)
    \/ BeginUpdate(r)  \/ CommitUpdate(r)
    \/ BeginArchive(r) \/ CommitArchive(r)

\* Operations a device queued for the rows of products.
PushStep(r) == BeginQueuedCreate(r) \/ BeginPush(r) \/ CommitPush(r) \/ CommitRefusal(r)

CategoryStep(r) ==
    \/ BeginCategory(r) \/ CommitCategory(r)
    \/ BeginRename(r)   \/ CommitRename(r)
    \/ BeginShelve(r)   \/ CommitShelve(r)

AdoptStep(r)  == BeginAdopt(r) \/ CommitAdopt(r)
ImportStep(r) == BeginPreview(r) \/ BeginImport(r) \/ CommitImport(r)
InboxStep(r)  == BeginAcknowledge(r) \/ CommitAcknowledge(r)

Next ==
    \/ Tick
    \/ AcknowledgeAll
    \/ \E p \in Products : Move(p)
    \/ \E r \in Requests :
          \/ Stop(r)
          \/ ProductStep(r) \/ PushStep(r)   \/ CategoryStep(r)
          \/ AdoptStep(r)   \/ ImportStep(r) \/ InboxStep(r)

Spec == Init /\ [][Next]_vars

-----------------------------------------------------------------------------
(* Properties.                                                             *)

\* The shape of the state.
TypeOK ==
    /\ now \in 1..MaxTime
    /\ \A p \in Products :
          LET row == product[p] IN
          /\ row.state \in {"absent", "live", "archived"}
          /\ row.sku \in Codes \cup {NoCode} /\ row.short \in Codes \cup {NoCode}
          /\ row.unit \in Units \/ row.state = "absent"
          /\ row.master \in Masters \cup {NoMaster}
          /\ row.category \in Categories \cup {NoCategory}
          /\ row.version \in Nat /\ row.clock \in 0..MaxTime /\ row.updated \in 0..MaxTime
          /\ row.wrote \in [Fields -> 0..MaxTime]
          /\ row.state = "absent" <=> row.version = 0
    /\ \A c \in Categories : category[c].name \in Names \/ category[c].state = "absent"
    /\ stock \in [Products -> Units \cup {NoUnit}]
    /\ \A i \in DOMAIN inbox : /\ inbox[i].fields \subseteq AllFields
                               /\ inbox[i].fields # {}
                               /\ inbox[i].seen \in 0..MaxTime
    /\ started \in 0..MaxRequests
    /\ DOMAIN request = Requests

Ends(r, kind) == request[r].kind = kind /\ request'[r] = Idle

\* A device's edit never puts a field back to a decision older than the one it replaces, and
\* replaces a price only when the device had seen the version it replaces - provided nobody
\* wrote the row while the edit was being applied, and leaving out the one case the code lets
\* through: a row with a device's time on it that was edited online afterwards
\* (sync.service.ts: the server's copy is dated clientUpdatedAt ?? updatedAt).
EditsRespectNewer ==
    [][\A r \in Requests :
          Ends(r, "push") =>
              LET q == request[r]
                  row == product[q.product]
              IN  q.read.version = row.version =>
                      \A f \in Fields :
                          product'[q.product].wrote[f] # row.wrote[f] =>
                              /\ f \in PriceFields => q.edit.base = row.version
                              /\ \/ q.edit.at > row.wrote[f]
                                 \/ row.clock # 0 /\ row.clock < row.wrote[f]]_vars

\* "Nothing is ever dropped silently": each field of an answered edit is on the row, with the
\* time of the edit, or in a new entry of the inbox - but for what ProductsService.update leaves
\* out of what was accepted: an mrp, a null category or threshold, a name that is no column (or
\* none of the Fields followed here).  What was refused is always in the inbox.
NothingDropped ==
    [][\A r \in Requests :
          Ends(r, "push") /\ <<product, inbox>>' # <<product, inbox>> =>
              LET q == request[r] IN
              \A f \in q.edit.fields :
                  \/ /\ f \in Fields
                     /\ product'[q.product].wrote[f] = q.edit.at
                  \/ \E i \in DOMAIN inbox' \ DOMAIN inbox : f \in inbox'[i].fields
                  \/ /\ q.edit.at > EffectiveUpdatedAt(q.read) /\ f \notin ServerFields
                     /\ f \notin Fields \ {"mrp"} \/ f \in q.patch.nulls]_vars

\* A product that has stock changes its unit only through an update that was overtaken: the
\* stock or the row moved after it had looked.  No other way of writing a product - a device,
\* an import, an adoption - can make 45 kg read as 45 pieces.
StockKeepsItsUnit ==
    [][\A p \in Products :
          product'[p].unit # product[p].unit /\ stock[p] # NoUnit =>
              \E r \in Requests :
                  /\ Ends(r, "update")
                  /\ request[r].product = p
                  /\ \/ request[r].counted # stock[p]
                     \/ request[r].read.version # product[p].version]_vars

\* Two live products of one master, or two categories of one name, come to be only when two
\* requests overlap: a request never makes the twin of something it could see.  An adoption
\* looks for its category by the link to the platform's and not by name.
NoTwins ==
    [][\A r \in Requests :
          request[r] # Idle /\ request'[r] = Idle =>
              /\ \A p, q \in Products :
                    /\ p # q /\ product[p].state = "absent"
                    /\ product'[p].state = "live" /\ product'[q].state = "live"
                    /\ product'[p].master = product'[q].master /\ product'[p].master # NoMaster
                    => request[r].seen[q] = 0
              /\ \A c, d \in Categories :
                    /\ c # d /\ category'[c] # category[c]
                    /\ category'[c].state = "live" /\ category'[d].state = "live"
                    /\ category'[c].name = category'[d].name
                    => IF request[r].kind = "adopt" THEN d \notin request[r].mirrors
                       ELSE <<d, category[d].name>> \notin request[r].shelf]_vars

\* What a device is sent is what there is: the change log holds an entry for the version each
\* product is at, and one for each category - but for the rows last written by an import's
\* UPDATE, logged as version 1, and the categories an adoption made, not logged at all.
LogHoldsTheRows ==
    /\ \A p \in Present : product[p].quiet \/ <<"product", p, product[p].version>> \in log
    /\ \A c \in Categories \ FreshCategories :
          category[c].mirrors \/ <<"category", c, 1>> \in log

\* The commit of an import does what its preview said.  A line that was not shown as a duplicate
\* never overwrites a product, one shown as an error is not written at all, and while no product
\* was written since the preview each overwritten product is the one that was shown.
ImportKeepsItsWord ==
    [][\A r \in Requests :
          request[r].kind = "preview" /\ request'[r].kind = "import" =>
              LET shown  == request[r].shown
                  create == request'[r].plan.create
                  update == request'[r].plan.update
              IN  /\ \A l \in DOMAIN create \cup DOMAIN update : shown[l].verdict # "ERROR"
                  /\ \A l \in DOMAIN update : shown[l].verdict = "SKIP"
                  /\ request[r].seen = Versions =>
                        \A l \in DOMAIN update : update[l] = shown[l].of]_vars

\* Two lines of a batch never claim one code, and none claims a live product's: the write cannot
\* fail on the index unless a product was written since the plan was made, or both codes of a
\* line were taken (CREATE_ANYWAY gives up one of them only).
BatchFitsTheIndex ==
    \A r \in Requests :
        request[r].kind = "import" /\ request[r].seen = Versions =>
            LET create == request[r].plan.create IN
            \A l \in DOMAIN create :
                /\ \A m \in DOMAIN create \ {l} : ~SharesCode(create[l], create[m])
                /\ \/ \A p \in Live : ~SharesCode(create[l], product[p])
                   \/ BothTaken(request[r].file[l], product, Live)
=============================================================================

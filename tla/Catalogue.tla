------------------------------ MODULE Catalogue ------------------------------
(***************************************************************************)
(* The catalogue desk: the tree of categories and the products in it, and  *)
(* the pictures of one product.  An edit checks what it read and writes    *)
(* later; foreign keys decide what a deletion takes with it.  Deleting a   *)
(* product only archives it; deleting a category deletes every product row *)
(* that is still in it.  Pictures are rows that point at objects in the    *)
(* bucket, and an edit of both stores can stop between them.               *)
(***************************************************************************)
EXTENDS Naturals, FiniteSets

CONSTANTS
    Cats, Wares,        \* category and product rows
    Editors,            \* edits that may overlap
    Keys,               \* objects uploaded for the product with the pictures
    Clerks              \* edits of its gallery that may overlap

VARIABLES
    parent,     \* categories.parentId; Top, or Unborn or Gone for a row that is not there
    ware,       \* the products: category, and "unborn", "live", "archived" or "gone"
    ordered,    \* products that order items refer to
    edit,       \* the edits between check and write
    overlapped, \* history: an edit wrote after another one had changed what it read
    bucket,     \* each object: "none", "stored" or "deleted"
    row,        \* gallery rows by object and whether the row knows its s3Key
    task,       \* what each clerk's edit has read
    raced,      \* history: an edit wrote after another one had changed the gallery
    unmarked,   \* history: the last rewriting marked no picture, and none was since
    pulled      \* history: objects deleted on request, or by the clean-up of a failed attach

catalogueVars == <<parent, ware, ordered, edit, overlapped>>

Top == "top"
Unborn == "unborn"
Gone == "gone"
ASSUME CatalogueAssumption == {Top, Unborn, Gone} \cap Cats = {}

NoEdit == [kind |-> "none"]

CatalogueInit ==
    /\ parent = [c \in Cats |-> Unborn]
    /\ ware = [w \in Wares |-> [category |-> Top, state |-> "unborn"]]
    /\ ordered = {}
    /\ edit = [e \in Editors |-> NoEdit]
    /\ overlapped = FALSE

Shelved(c) == parent[c] \notin {Unborn, Gone}
Places == {Top} \cup {c \in Cats : Shelved(c)}
Stored(w) == ware[w].state \in {"live", "archived"}
In(c) == {w \in Wares : Stored(w) /\ ware[w].category = c}
Under(c) == {d \in Cats : parent[d] = c}

(* The rows the walk from p upwards passes: p, its parent, and so on; and  *)
(* a walk that never comes to the top.                                     *)
Upward(rows) == \A d \in rows : parent[d] \in Cats => parent[d] \in rows
Line(p) == {d \in Cats : \A rows \in SUBSET Cats : p \in rows /\ Upward(rows) => d \in rows}
Circular(p) == \A d \in Line(p) : parent[d] \in Cats

NotItsOwnParent(c, p) == p # c

(* validateNoCircularHierarchy: the walk ends at the top without meeting c *)
(* or any row twice.                                                       *)
MayMove(c, p) == p # Top => c \notin Line(p) /\ ~Circular(p)

Opens(e, r) ==
    /\ edit[e] = NoEdit
    /\ edit' = [edit EXCEPT ![e] = r]
    /\ UNCHANGED <<parent, ware, ordered, overlapped>>

(* A commit makes what the other edits have read out of date.              *)
Commits(e) ==
    /\ edit' = [f \in Editors |-> CASE f = e -> NoEdit
                                    [] f # e /\ edit[f] = NoEdit -> NoEdit
                                    [] OTHER -> [edit[f] EXCEPT !.stale = TRUE]]
    /\ overlapped' = (overlapped \/ edit[e].stale)

CreateCategory(c, p) ==
    /\ parent[c] = Unborn /\ p \in Places
    /\ parent' = [parent EXCEPT ![c] = p]
    /\ UNCHANGED <<ware, ordered, edit, overlapped>>

MoveRead(e, c, p) ==
    /\ Shelved(c) /\ p \in Places /\ MayMove(c, p)
    /\ Opens(e, [kind |-> "move", stale |-> FALSE, category |-> c, parent |-> p])

(* Rejected by the foreign key if a row has gone.                          *)
MoveWrite(e) ==
    LET c == edit[e].category p == edit[e].parent IN
    /\ edit[e].kind = "move"
    /\ Shelved(c) /\ p \in Places
    /\ parent' = [parent EXCEPT ![c] = p]
    /\ Commits(e)
    /\ UNCHANGED <<ware, ordered>>

(* A slip of deleteCategory: the products are not counted.                 *)
DeleteCountsChildren(e, c) ==
    /\ Shelved(c) /\ Under(c) = {}
    /\ Opens(e, [kind |-> "delete", stale |-> FALSE, category |-> c])

(* deleteCategory counts what is in the category and its subcategories.    *)
DeleteCategoryRead(e, c) ==
    /\ Shelved(c) /\ Under(c) = {}
    /\ \A w \in In(c) : ware[w].state = "archived"
    /\ Opens(e, [kind |-> "delete", stale |-> FALSE, category |-> c])

(* ON DELETE: children go to the top, products go with the row.            *)
DeleteCategoryWrite(e) ==
    LET c == edit[e].category IN
    /\ edit[e].kind = "delete" /\ Shelved(c)
    /\ parent' = [d \in Cats |-> IF d = c THEN Gone ELSE IF d \in Under(c) THEN Top ELSE parent[d]]
    /\ ware' = [w \in Wares |-> IF w \in In(c) THEN [ware[w] EXCEPT !.state = "gone"] ELSE ware[w]]
    /\ Commits(e)
    /\ UNCHANGED ordered

CreateProductRead(e, w, c) ==
    /\ ware[w].state = "unborn" /\ Shelved(c)
    /\ Opens(e, [kind |-> "create", stale |-> FALSE, ware |-> w, category |-> c])

CreateProductWrite(e) ==
    LET w == edit[e].ware IN
    /\ edit[e].kind = "create" /\ ware[w].state = "unborn" /\ Shelved(edit[e].category)
    /\ ware' = [ware EXCEPT ![w] = [category |-> edit[e].category, state |-> "live"]]
    /\ Commits(e)
    /\ UNCHANGED <<parent, ordered>>

(* Any edit of a product writes a category: the new one, or the one read.  *)
UpdateProductRead(e, w, c) ==
    /\ Stored(w) /\ Shelved(c)
    /\ Opens(e, [kind |-> "update", stale |-> FALSE, ware |-> w, category |-> c])

UpdateProductWrite(e) ==
    LET w == edit[e].ware IN
    /\ edit[e].kind = "update" /\ Stored(w) /\ Shelved(edit[e].category)
    /\ ware' = [ware EXCEPT ![w].category = edit[e].category]
    /\ Commits(e)
    /\ UNCHANGED <<parent, ordered>>

ArchiveProduct(w) ==
    /\ Stored(w)
    /\ ware' = [ware EXCEPT ![w].state = "archived"]
    /\ UNCHANGED <<parent, ordered, edit, overlapped>>

EditFails(e) ==
    /\ edit[e] # NoEdit
    /\ edit' = [edit EXCEPT ![e] = NoEdit]
    /\ UNCHANGED <<parent, ware, ordered, overlapped>>

(* A checkout takes live products only.                                    *)
OrderProduct(w) ==
    /\ ware[w].state = "live" /\ w \notin ordered
    /\ ordered' = ordered \cup {w}
    /\ UNCHANGED <<parent, ware, edit, overlapped>>

CatalogueStep ==
    \/ \E c \in Cats, p \in Cats \cup {Top} : CreateCategory(c, p)
    \/ \E w \in Wares : ArchiveProduct(w) \/ OrderProduct(w)
    \/ \E e \in Editors :
        \/ \E c \in Cats, p \in Cats \cup {Top} : MoveRead(e, c, p)
        \/ \E c \in Cats : DeleteCategoryRead(e, c)
        \/ \E w \in Wares, c \in Cats : CreateProductRead(e, w, c) \/ UpdateProductRead(e, w, c)
        \/ MoveWrite(e) \/ DeleteCategoryWrite(e) \/ CreateProductWrite(e) \/ UpdateProductWrite(e) \/ EditFails(e)

CatalogueSpec == CatalogueInit /\ [][CatalogueStep]_catalogueVars

-----------------------------------------------------------------------------
(* Unless two edits overlapped, the categories form a forest; and a        *)
(* product that is not archived goes with its category only if somebody    *)
(* filed it there between the count and the deletion.                      *)
CatalogueHolds ==
    /\ [](overlapped \/ \A c \in Cats : Shelved(c) => ~Circular(c))
    /\ [][\A w \in Wares : ware[w].state = "live" /\ ware'[w].state = "gone" => overlapped']_catalogueVars

(* Every product that was ordered keeps its row, and with it the inventory *)
(* and its log: deleting a product that orders refer to only archives it.  *)
HistoryKeepsProducts == \A w \in ordered : ware[w].state # "gone"

----------------------------------------------------------------------------
(* The gallery.                                                            *)

galleryVars == <<bucket, row, task, raced, unmarked, pulled>>

Slots == Keys \X BOOLEAN
NoTask == [kind |-> "none"]

GalleryInit ==
    /\ bucket = [k \in Keys |-> "none"]
    /\ row = [s \in Slots |-> "absent"]
    /\ task = [c \in Clerks |-> NoTask]
    /\ raced = FALSE
    /\ unmarked = FALSE
    /\ pulled = {}

Rows == {s \in Slots : row[s] # "absent"}
Primaries == {s \in Slots : row[s] = "primary"}
Demoted == [s \in Slots |-> IF row[s] = "primary" THEN "plain" ELSE row[s]]

Takes(c, kind, slots, primary) ==
    /\ task[c] = NoTask
    /\ task' = [task EXCEPT ![c] = [kind |-> kind, slots |-> slots, primary |-> primary, stale |-> FALSE]]
    /\ UNCHANGED <<bucket, row, raced, unmarked, pulled>>

Continue(c, kind) == task' = [task EXCEPT ![c].kind = kind]

Drop(c) == task' = [task EXCEPT ![c] = NoTask]

Publishes(c) ==
    /\ raced' = (raced \/ task[c].stale)
    /\ unmarked' = /\ Rows' # {} /\ Primaries' = {}
                   /\ unmarked \/ (task[c].kind = "rewrite" /\ ~task[c].primary)
    /\ task' = [d \in Clerks |-> CASE d = c -> NoTask
                                   [] d # c /\ task[d] = NoTask -> NoTask
                                   [] OTHER -> [task[d] EXCEPT !.stale = TRUE]]

Key(c) == (CHOOSE s \in task[c].slots : TRUE)[1]
Slot(c) == CHOOSE s \in task[c].slots : TRUE

Upload(k) ==
    /\ bucket[k] = "none"
    /\ bucket' = [bucket EXCEPT ![k] = "stored"]
    /\ UNCHANGED <<row, task, raced, unmarked, pulled>>

(* The clean-up deletes the object, or fails and leaves it.                *)
CleansUp(c) ==
    \/ /\ bucket' = [bucket EXCEPT ![Key(c)] = "deleted"]
       /\ pulled' = pulled \cup {Key(c)}
    \/ UNCHANGED <<bucket, pulled>>

AttachRead(c, k, wanted) ==
    /\ bucket[k] # "none" /\ row[<<k, TRUE>>] = "absent"
    /\ Takes(c, "verify", {<<k, TRUE>>}, wanted \/ Rows = {})

AttachVerified(c) ==
    /\ task[c].kind = "verify" /\ bucket[Key(c)] = "stored"
    /\ Continue(c, "insert")
    /\ UNCHANGED <<bucket, row, raced, unmarked, pulled>>

(* The object is missing or unfit, or it could not be read just now.       *)
AttachRejected(c) ==
    /\ task[c].kind = "verify"
    /\ CleansUp(c) /\ Drop(c)
    /\ UNCHANGED <<row, raced, unmarked>>

AttachInsert(c) ==
    /\ task[c].kind = "insert" /\ row[Slot(c)] = "absent"
    /\ row' = [(IF task[c].primary THEN Demoted ELSE row) EXCEPT
                    ![Slot(c)] = IF task[c].primary THEN "primary" ELSE "plain"]
    /\ Publishes(c)
    /\ UNCHANGED <<bucket, pulled>>

LoserCleansUp(c) ==
    /\ task[c].kind = "insert" /\ row[Slot(c)] # "absent"
    /\ bucket' = [bucket EXCEPT ![Key(c)] = "deleted"]
    /\ Drop(c)
    /\ UNCHANGED <<row, raced, unmarked, pulled>>

(* The unique index on product and key decides; the loser must leave the   *)
(* object to the winner's row.                                             *)
AttachLoses(c) ==
    /\ task[c].kind = "insert" /\ row[Slot(c)] # "absent"
    /\ Drop(c)
    /\ UNCHANGED <<bucket, row, raced, unmarked, pulled>>

(* Any other error of the transaction.                                     *)
AttachFails(c) ==
    /\ task[c].kind = "insert"
    /\ CleansUp(c) /\ Drop(c)
    /\ UNCHANGED <<row, raced, unmarked>>

SetPrimaryRead(c, s) == s \in Rows /\ Takes(c, "primary", {s}, TRUE)

SetPrimaryWrite(c) ==
    /\ task[c].kind = "primary" /\ Slot(c) \in Rows
    /\ row' = [Demoted EXCEPT ![Slot(c)] = "primary"]
    /\ Publishes(c)
    /\ UNCHANGED <<bucket, pulled>>

(* Only a row that knows its key takes the object with it.                 *)
DeleteRead(c, s) ==
    s \in Rows /\ Takes(c, IF s[2] THEN "delete object" ELSE "delete row", {s}, row[s] = "primary")

DeleteObject(c) ==
    /\ task[c].kind = "delete object"
    /\ bucket' = [bucket EXCEPT ![Key(c)] = "deleted"]
    /\ pulled' = pulled \cup {Key(c)}
    /\ Continue(c, "delete row")
    /\ UNCHANGED <<row, raced, unmarked>>

WithoutRow(s, promoted) ==
    [t \in Slots |-> CASE t = s -> "absent" [] t \in promoted /\ t # s -> "primary" [] OTHER -> row[t]]

(* A slip of deleteImage: no other picture is promoted.                    *)
DeletePromotesNone(c) ==
    LET s == Slot(c) IN
    /\ task[c].kind = "delete row" /\ s \in Rows
    /\ row' = WithoutRow(s, {})
    /\ Publishes(c)
    /\ UNCHANGED <<bucket, pulled>>

(* The next row by display order is promoted, whichever that is; the index *)
(* refuses it beside another primary one.                                  *)
DeleteRow(c) ==
    LET s == Slot(c) IN
    /\ task[c].kind = "delete row" /\ s \in Rows
    /\ IF task[c].primary /\ Rows # {s}
       THEN \E next \in Rows \ {s} : Primaries \subseteq {s, next} /\ row' = WithoutRow(s, {next})
       ELSE row' = WithoutRow(s, {})
    /\ Publishes(c)
    /\ UNCHANGED <<bucket, pulled>>

(* An update with a gallery verifies the keys it is given.  The caller may *)
(* mark one picture, or mark all of them as not the primary one.           *)
RewriteRead(c, keys, marks) ==
    /\ \A k \in keys : bucket[k] = "stored"
    /\ Takes(c, "rewrite", keys \X {TRUE}, marks)

(* The console's form knows one picture, by its address.                   *)
ConsoleOpens(c, s) ==
    /\ s \in IF Primaries = {} THEN Rows ELSE Primaries
    /\ Takes(c, "rewrite", {<<s[1], FALSE>>}, TRUE)

(* All rows are replaced.  The primary one is the one marked, or the first *)
(* when no mark is given, and none when all are marked as not; the unique  *)
(* index refuses two.                                                      *)
RewriteGallery(c) ==
    LET kept == task[c].slots IN
    /\ task[c].kind = "rewrite"
    /\ \E marked \in SUBSET kept :
        /\ IF task[c].primary /\ kept # {} THEN \E s \in kept : marked = {s} ELSE marked = {}
        /\ row' = [s \in Slots |-> IF s \in marked THEN "primary" ELSE IF s \in kept THEN "plain" ELSE "absent"]
    /\ Publishes(c)
    /\ UNCHANGED <<bucket, pulled>>

(* Storage or database unavailable, the row gone, or the process stopped.  *)
TaskFails(c) ==
    /\ task[c] # NoTask
    /\ Drop(c)
    /\ UNCHANGED <<bucket, row, raced, unmarked, pulled>>

GalleryStep ==
    \/ \E k \in Keys : Upload(k)
    \/ \E c \in Clerks :
        \/ \E k \in Keys, wanted \in BOOLEAN : AttachRead(c, k, wanted)
        \/ AttachVerified(c) \/ AttachRejected(c) \/ AttachInsert(c) \/ AttachLoses(c) \/ AttachFails(c)
        \/ \E s \in Slots : SetPrimaryRead(c, s) \/ DeleteRead(c, s) \/ ConsoleOpens(c, s)
        \/ SetPrimaryWrite(c) \/ DeleteObject(c) \/ DeleteRow(c)
        \/ \E keys \in SUBSET Keys, marks \in BOOLEAN : RewriteRead(c, keys, marks)
        \/ RewriteGallery(c) \/ TaskFails(c)

GallerySpec == GalleryInit /\ [][GalleryStep]_galleryVars

-----------------------------------------------------------------------------
(* A row points at an object that is there, unless the object was deleted  *)
(* on request or by the clean-up of an attach that failed; there are never *)
(* two primary pictures; and a gallery that is not empty has one, unless   *)
(* two edits overlapped or a rewriting marked none of its pictures.        *)
GalleryHolds ==
    /\ \A s \in Rows : bucket[s[1]] = "stored" \/ s[1] \in pulled
    /\ \A s, t \in Primaries : s = t
    /\ Rows # {} /\ Primaries = {} => raced \/ unmarked
=============================================================================

---------------------------- MODULE Reconciliation ----------------------------
(***************************************************************************)
(* The reconciliation reports of services/reconciliation.service.ts: the   *)
(* rows of payments are read first, then the gateway's payments page by    *)
(* page, while webhooks and customers move both, and the two are compared. *)
(*                                                                         *)
(* A customer may try a gateway order several times, so that one row has   *)
(* several gateway payments, of which one at most is captured; strangers   *)
(* are gateway payments of orders that no row knows (any more).            *)
(***************************************************************************)
EXTENDS Naturals, FiniteSets, Functions

CONSTANTS
    Payments,   \* rows with a gateway order
    MaxTries,   \* gateway payments that may ever be made, numbered in time
    MaxRows     \* RECONCILIATION_MAX_ROWS

ASSUME ReconciliationAssumption == MaxTries \in Nat /\ MaxRows \in Nat /\ IsFiniteSet(Payments)

VARIABLES
    book,       \* per row: its status
    try,        \* the gateway's payments, a function on numbers
    report,     \* the report under way: what was asked, read and is still to be read
    drifted     \* history: rows on which a book has changed since the report began

reconVars == <<book, try, report, drifted>>

Stranger == "stranger"
RowStatuses == {"pending", "captured", "failed", "refunded"}
Tries == DOMAIN try
Of(p) == {a \in Tries : try[a].of = p}

(* What happens to a payment at the gateway.                               *)
GatewayMoves ==
    [created |-> {"authorized", "captured", "failed"}, authorized |-> {"captured", "failed"},
     captured |-> {"refunded"}, failed |-> {}, refunded |-> {}]

NoReport == [phase |-> "none"]
Running == report.phase = "reading"

ReconInit ==
    /\ book = [p \in Payments |-> "pending"]
    /\ try = <<>>
    /\ report = NoReport
    /\ drifted = {}

Drifts(p) == drifted' = IF Running THEN drifted \cup {p} ELSE drifted

----------------------------------------------------------------------------
(* The two books move.                                                     *)

(* "soon" means within a day of the row, "exact" with the row's amount.    *)
Try(p, soon, exact) ==
    /\ Cardinality(Tries) < MaxTries
    /\ \A a \in Of(p) : p = Stranger \/ try[a].status = "failed"
    /\ try' = [a \in 1..(Cardinality(Tries) + 1) |->
                 IF a \in Tries THEN try[a]
                 ELSE [of |-> p, status |-> "created", soon |-> soon, exact |-> exact]]
    /\ Drifts(p)
    /\ UNCHANGED <<book, report>>

GatewayMove(a, s) ==
    /\ s \in GatewayMoves[try[a].status]
    /\ try' = [try EXCEPT ![a].status = s]
    /\ Drifts(try[a].of)
    /\ UNCHANGED <<book, report>>

(* A webhook, a verification or a refund records what the gateway said,    *)
(* possibly long after it, or never.                                       *)
Record(a) ==
    /\ try[a].of \in Payments /\ try[a].status \in RowStatuses
    /\ book' = [book EXCEPT ![try[a].of] = try[a].status]
    /\ Drifts(try[a].of)
    /\ UNCHANGED <<try, report>>

----------------------------------------------------------------------------
(* The reports.                                                            *)

(* reconcilePayments: the rows of one status, or all, up to the cap.       *)
BeginReport(filter, rows) ==
    /\ ~Running
    /\ LET asked == {p \in Payments : filter \in {"all", book[p]}} IN
        /\ rows \subseteq asked
        /\ rows = asked \/ Cardinality(rows) = MaxRows
        /\ Cardinality(rows) <= MaxRows
        /\ report' = [phase |-> "reading", kind |-> "all", cut |-> rows # Payments,
                      rows |-> Restrict(book, rows), left |-> Tries, seen |-> <<>>]
    /\ drifted' = {}
    /\ UNCHANGED <<book, try>>

(* reconcileSingleOrder: a day of gateway payments from the row's creation.*)
BeginSingle(p) ==
    /\ ~Running
    /\ report' = [phase |-> "reading", kind |-> "single", cut |-> TRUE,
                  rows |-> Restrict(book, {p}), left |-> {a \in Tries : try[a].soon}, seen |-> <<>>]
    /\ drifted' = {}
    /\ UNCHANGED <<book, try>>

(* One page, newest first; what the gateway gets from now on is outside    *)
(* the window.                                                             *)
FetchPage ==
    /\ Running /\ report.left # {}
    /\ LET a == CHOOSE a \in report.left : \A b \in report.left : b <= a IN
        report' = [report EXCEPT !.left = @ \ {a},
                                 !.seen = [b \in DOMAIN @ \cup {a} |-> IF b = a THEN try[a].status ELSE @[b]]]
    /\ UNCHANGED <<book, try, drifted>>

(* The two are compared, and the answer is given.                          *)
Comparing == Running /\ report.left = {}

Finish ==
    /\ Comparing
    /\ report' = NoReport /\ drifted' = {}
    /\ UNCHANGED <<book, try>>

(* The gateway does not answer in time: there is no report.                *)
FetchFails ==
    /\ Running
    /\ report' = NoReport /\ drifted' = {}
    /\ UNCHANGED <<book, try>>

ReconStep ==
    \/ Try(Stranger, TRUE, TRUE)
    \/ \E p \in Payments, soon, exact \in BOOLEAN : Try(p, soon, exact)
    \/ \E a \in Tries : Record(a) \/ \E s \in RowStatuses \cup {"authorized"} : GatewayMove(a, s)
    \/ \E filter \in RowStatuses \cup {"all"}, rows \in SUBSET Payments : BeginReport(filter, rows)
    \/ \E p \in Payments : BeginSingle(p)
    \/ FetchPage \/ Finish \/ FetchFails

ReconSpec == ReconInit /\ [][ReconStep]_reconVars

----------------------------------------------------------------------------
(* What the comparison finds.                                              *)

Fetched == DOMAIN report.seen
Rows == DOMAIN report.rows

(* normalizeStatus: a payment the gateway calls created is a pending one.  *)
Normalized(s) == IF s = "created" THEN "pending" ELSE s

Matched == {a \in Fetched : try[a].of \in Rows}
WrongAmount == {a \in Matched : ~try[a].exact}
WrongStatus == {a \in Matched : Normalized(report.seen[a]) # report.rows[try[a].of]}
MissingLocal == Fetched \ Matched

(* Nothing is missing at a gateway that has nothing at all.                *)
MissingRemote == IF Fetched = {} THEN {} ELSE {p \in Rows : Of(p) \cap Fetched = {}}

Flagged == {try[a].of : a \in WrongAmount \cup WrongStatus} \cup MissingRemote

Monus(m, n) == IF m > n THEN m - n ELSE 0

(* A slip: entries are subtracted, of which a row may have several.        *)
ReconciledByEntries ==
    Monus(Cardinality(Rows), Cardinality(WrongAmount) + Cardinality(WrongStatus) + Cardinality(MissingRemote))

(* Distinct rows are; the entries without a row share one id, and count as *)
(* one more.                                                               *)
Reconciled ==
    Monus(Cardinality(Rows), Cardinality(Flagged) + (IF MissingLocal = {} THEN 0 ELSE 1))

(* reconcileSingleOrder compares the first payment it finds, the newest.   *)
SingleReconciled(p) ==
    LET found == Of(p) \cap Fetched
        first == CHOOSE a \in found : \A b \in found : b <= a IN
    /\ found # {}
    /\ first \notin WrongAmount \cup WrongStatus

----------------------------------------------------------------------------
(* The books agree on a row when a gateway payment says what the row says. *)
AgreeOn(p) == \E a \in Of(p) : try[a].exact /\ Normalized(try[a].status) = book[p]

(* A report hides no row on which the books disagreed all the time it took,*)
(* except where the gateway had no payment at all; a row it flags although *)
(* they agreed was tried more than once; and a gateway payment without row *)
(* is a stranger's, unless the report left rows out.                       *)
ReportIsHonest ==
    Comparing /\ report.kind = "all" =>
        /\ \A p \in Rows \ drifted :
            /\ ~AgreeOn(p) => p \in Flagged \/ Fetched = {}
            /\ AgreeOn(p) /\ p \in Flagged => Cardinality(Of(p)) > 1
        /\ \A a \in MissingLocal : try[a].of = Stranger \/ report.cut

(* The number it gives for the rows without mismatch is that number, or    *)
(* one too low when the gateway knows a payment without row; and a single  *)
(* order is called reconciled only when the books agree on it.             *)
ReportAddsUp ==
    Comparing =>
        /\ report.kind = "all" =>
            LET clean == Cardinality(Rows \ Flagged) IN
            Reconciled = IF MissingLocal = {} THEN clean ELSE Monus(clean, 1)
        /\ report.kind = "single" =>
            \A p \in Rows \ drifted : SingleReconciled(p) => AgreeOn(p)

ReconciliationHolds == ReportIsHonest /\ ReportAddsUp
=============================================================================

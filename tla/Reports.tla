------------------------------- MODULE Reports -------------------------------
(***************************************************************************)
(* The reports on orders.  A report asks the database for a total and for  *)
(* the same orders broken down, in separate statements, while orders go on *)
(* being placed, paid, cancelled and refunded; and it lays the days out    *)
(* itself, in the server's time zone, while the database groups by its own. *)
(* An instant is half a day; an order is placed at any instant.            *)
(***************************************************************************)
EXTENDS Integers, FiniteSets, Functions

CONSTANTS
    Purchases,      \* orders
    Shoppers,
    Horizon,        \* the last day
    MaxBuckets,     \* the 400 days buildDailyBuckets lays out at most
    TopLimit,       \* customers listed
    Windows,        \* the windows asked for, of local days
    Zones           \* half days the server's zone may be ahead of the database's

ASSUME ReportsAssumption ==
    /\ Horizon \in Nat /\ MaxBuckets \in Nat /\ TopLimit \in Nat /\ Zones \subseteq 0..1
    /\ IsFiniteSet(Purchases)

VARIABLES
    purchase,       \* per order: when, by whom, paid or not, its status
    zone,
    sheet,          \* the report being made: its window and what was read
    moved           \* history: an order has changed between two of its statements

reportVars == <<purchase, zone, sheet, moved>>

Instants == 0 .. 2 * Horizon + 1
LocalDays == 0 .. Horizon + 1
NoEnd == -1              \* a window without that end
(* resolveDateWindow: either end may be open, and none begins after it ends. *)
ResolvedWindows == {w \in [from : LocalDays \cup {NoEnd}, to : LocalDays \cup {NoEnd}] :
                        w.from = NoEnd \/ w.to = NoEnd \/ w.from <= w.to}
SheetKinds == {"sales", "orders", "customers"}
Unplaced == [status |-> "none"]
Blank == [step |-> "none"]

Placed == {o \in Purchases : purchase[o] # Unplaced}
Day(at) == at \div 2                    \* date_trunc, in the database's zone
LocalDay(at) == (at + zone) \div 2      \* startOfDay, endOfDay, isoDay

InWindow(w, at) ==
    /\ w.from # NoEnd => w.from <= LocalDay(at)
    /\ w.to # NoEnd => LocalDay(at) <= w.to

Paid(o) == purchase[o].payment = "PAID" /\ purchase[o].status # "CANCELLED"

Counted(r) == {o \in Placed : InWindow(r.window, purchase[o].at) /\ (r.kind # "orders" => Paid(o))}

(* A slip: the breakdown takes every order of the window, paid or not.     *)
CountedLoosely(r) == {o \in Placed : InWindow(r.window, purchase[o].at)}

BrokenDown(r) == Counted(r)

Tally(S, Key(_), Keys) == [k \in Keys |-> Cardinality({o \in S : Key(o) = k})]
Grouped(S, Key(_)) == Tally(S, Key, {Key(o) : o \in S})

DayOf(o) == Day(purchase[o].at)
StatusOf(o) == purchase[o].status
BuyerOf(o) == purchase[o].buyer

(* buildDailyBuckets: none for a window with an open end.                  *)
DailyBuckets(w) ==
    IF w.from = NoEnd \/ w.to = NoEnd THEN {}
    ELSE {d \in LocalDays : w.from <= d /\ d <= w.to /\ d - w.from < MaxBuckets}

(* The rows of a daily series: every bucket, or, for sales without one,    *)
(* whatever days the database has found.                                   *)
DailyRows(r) ==
    LET days == DailyBuckets(r.window)
        byDay == [d \in LocalDays |-> IF d \in DOMAIN r.parts THEN r.parts[d] ELSE 0]
    IN  IF days = {} /\ r.kind = "sales" THEN r.parts ELSE [d \in days |-> byDay[d]]

SumOfRows(rows) == SumFunction(rows)

ReportsInit ==
    /\ purchase = [o \in Purchases |-> Unplaced]
    /\ zone \in Zones
    /\ sheet = Blank /\ moved = FALSE

(* Between the first and the last statement of the report.                *)
HalfRead == sheet.step = "reading" /\ sheet.read # {}

Moves(o, new) == purchase' = [purchase EXCEPT ![o] = new] /\ moved' = (moved \/ HalfRead)

Place(o) ==
    /\ purchase[o] = Unplaced
    /\ \E at \in Instants, u \in Shoppers, cash \in BOOLEAN :
        Moves(o, [at |-> at, buyer |-> u, payment |-> "PENDING",
                    status |-> IF cash THEN "CONFIRMED" ELSE "PENDING_PAYMENT"])
    /\ UNCHANGED <<zone, sheet>>

(* Captured, or collected by the courier; cancelled; money given back.     *)
Develop(o) ==
    /\ purchase[o] # Unplaced
    /\ \/ purchase[o].payment = "PENDING" /\ purchase[o].status # "CANCELLED"
          /\ Moves(o, [purchase[o] EXCEPT !.payment = "PAID", !.status = "CONFIRMED"])
       \/ purchase[o].status # "CANCELLED" /\ Moves(o, [purchase[o] EXCEPT !.status = "CANCELLED"])
       \/ purchase[o].payment = "PAID" /\ Moves(o, [purchase[o] EXCEPT !.payment = "PARTIALLY_REFUNDED"])
    /\ UNCHANGED <<zone, sheet>>

Ask(kind, w) ==
    /\ sheet = Blank
    /\ sheet' = [step |-> "reading", kind |-> kind, window |-> w,
                  read |-> {}, total |-> 0, parts |-> <<>>, statuses |-> <<>>]
    /\ moved' = FALSE /\ UNCHANGED <<purchase, zone>>

(* The statuses are awaited before the two other statements are sent.      *)
ReadStatuses ==
    /\ sheet.step = "reading" /\ sheet.kind = "orders" /\ sheet.read = {}
    /\ sheet' = [sheet EXCEPT !.read = {"statuses"}, !.statuses = Grouped(Counted(sheet), StatusOf)]
    /\ UNCHANGED <<purchase, zone, moved>>

Reads(what) ==
    /\ sheet.step = "reading" /\ what \notin sheet.read
    /\ sheet.kind = "orders" => "statuses" \in sheet.read

ReadTotal ==
    /\ Reads("total")
    /\ sheet' = [sheet EXCEPT !.read = @ \cup {"total"}, !.total =
            IF sheet.kind = "customers" THEN Cardinality({BuyerOf(o) : o \in Counted(sheet)})
                                         ELSE Cardinality(Counted(sheet))]
    /\ UNCHANGED <<purchase, zone, moved>>

(* The customers are cut off at the limit, those who spent most first;     *)
(* what an order costs is left open, so it may be any of them.             *)
Top(rows) ==
    {S \in SUBSET DOMAIN rows :
        Cardinality(S) = IF Cardinality(DOMAIN rows) < TopLimit THEN Cardinality(DOMAIN rows) ELSE TopLimit}

ReadParts ==
    /\ Reads("parts")
    /\ IF sheet.kind = "customers"
       THEN LET rows == Grouped(BrokenDown(sheet), BuyerOf)
            IN  \E S \in Top(rows) :
                    sheet' = [sheet EXCEPT !.read = @ \cup {"parts"}, !.parts = [k \in S |-> rows[k]]]
       ELSE sheet' = [sheet EXCEPT !.read = @ \cup {"parts"}, !.parts = Grouped(BrokenDown(sheet), DayOf)]
    /\ UNCHANGED <<purchase, zone, moved>>

AllRead == sheet.step = "reading" /\ {"total", "parts"} \subseteq sheet.read

Answer ==
    /\ AllRead
    /\ sheet' = Blank /\ moved' = FALSE /\ UNCHANGED <<purchase, zone>>

ReportsStep ==
    \/ \E o \in Purchases : Place(o) \/ Develop(o)
    \/ \E kind \in SheetKinds, w \in Windows \cap ResolvedWindows : Ask(kind, w)
    \/ ReadStatuses \/ ReadTotal \/ ReadParts \/ Answer

ReportsSpec == ReportsInit /\ [][ReportsStep]_reportVars

----------------------------------------------------------------------------
(* The window fits the days a report lays out.                             *)
Fits(w) == w.from = NoEnd \/ w.to = NoEnd \/ w.to - w.from < MaxBuckets

(* What a report says in sum is what its rows say one by one: the days of  *)
(* the sales and of the orders, and the statuses of the orders, add up to  *)
(* the total, and no more customers are listed than have paid.  Excepted   *)
(* are a window that is longer than the days laid out, a server whose days *)
(* are not the database's, and orders that changed while it was made.      *)
ReportsAddUp ==
    AllRead /\ ~moved =>
        /\ sheet.kind = "customers" => Cardinality(DOMAIN sheet.parts) <= sheet.total
        /\ sheet.kind = "orders" => SumOfRows(sheet.statuses) = sheet.total
        /\ sheet.kind = "sales" /\ zone = 0 /\ Fits(sheet.window) => SumOfRows(DailyRows(sheet)) = sheet.total
        /\ sheet.kind = "orders" /\ zone = 0 /\ DailyBuckets(sheet.window) # {} /\ Fits(sheet.window) =>
              SumOfRows(DailyRows(sheet)) = sheet.total
=============================================================================

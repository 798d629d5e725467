---------------------------- MODULE ScyllaSessions ---------------------------
(***************************************************************************)
(* UserSessionRepository over BaseScyllaRepository (src/src/shared/        *)
(* database/scylladb): every write is an upsert of the columns it is given *)
(* that looks at nothing, so that a write to a deleted session leaves a    *)
(* row of those columns.  paginate counts the rows in one statement and    *)
(* selects them in another.                                                *)
(***************************************************************************)
EXTENDS Naturals, FiniteSets, FiniteSetsExt

CONSTANTS
  Sessions, \* session ids
  Owners,   \* users
  PageRows, \* rows of a page
  Null      \* no value

ScyllaAssumption == Null \notin Owners \cup BOOLEAN /\ PageRows \in Nat \ {0}

VARIABLES
  row,    \* the row of each session id
  ended,  \* history: sessions deleted, and given no user since
  listing \* a call of paginate

scyllaVars == <<row, ended, listing>>

-----------------------------------------------------------------------------

\* there: the id has a row, if only of the columns that are not modelled.
Row == [there : BOOLEAN, user_id : Owners \cup {Null}, is_active : BOOLEAN \cup {Null}]
NoRow == [there |-> FALSE, user_id |-> Null, is_active |-> Null]

\* The columns a caller gives in a Partial<UserSession>; Null is not given.
Given == [user_id : Owners \cup {Null}, is_active : BOOLEAN \cup {Null}]

\* INSERT and UPDATE ... SET of the columns that are given keep the others.
ColumnsSet(s, g) ==
  [there |-> TRUE,
   user_id |-> IF g.user_id = Null THEN row[s].user_id ELSE g.user_id,
   is_active |-> IF g.is_active = Null THEN row[s].is_active ELSE g.is_active]

Upsert(s, g) ==
  /\ row' = [row EXCEPT ![s] = ColumnsSet(s, g)]
  /\ ended' = IF g.user_id = Null THEN ended ELSE ended \ {s}
  /\ UNCHANGED listing

CreateSession(s, g) == Upsert(s, g)
UpdateSession(s, g) == Upsert(s, g)
DeactivateSession(s) == Upsert(s, [user_id |-> Null, is_active |-> FALSE])

\* A session that is only marked.
Marked(s) == [row[s] EXCEPT !.is_active = FALSE]

\* DELETE takes all columns.
Deleted(s) == NoRow

DeleteSession(s) ==
  /\ row' = [row EXCEPT ![s] = Deleted(s)]
  /\ ended' = ended \cup {s}
  /\ UNCHANGED listing

\* WHERE user_id = ? AND is_active = true
FindActiveSessionsByUserId(u) ==
  {s \in Sessions : row[s].user_id = u /\ row[s].is_active = TRUE}

-----------------------------------------------------------------------------
(* paginate of all sessions.  Without ALLOW FILTERING the server refuses   *)
(* the same statements with a WHERE on user_id or is_active, columns that  *)
(* are neither key nor indexed, and paginate throws, having written        *)
(* nothing: that call takes no step here.                                  *)

\* total: the count.  stay: the rows counted that are still there.  data: the
\* page.  grown: rows have come in between.
Listing(pc, n, xs, d, b) == [pc |-> pc, total |-> n, stay |-> xs, data |-> d, grown |-> b]

Rows == {s \in Sessions : row[s].there}

CountSessions ==
  /\ listing.pc # "counted"
  /\ listing' = Listing("counted", Cardinality(Rows), Rows, {}, FALSE)
  /\ UNCHANGED <<row, ended>>

\* LIMIT without OFFSET: always the first rows, whichever page is asked for.
SelectPage ==
  /\ listing.pc = "counted"
  /\ LET size == IF Cardinality(Rows) < PageRows THEN Cardinality(Rows) ELSE PageRows
     IN  \E rows \in kSubset(size, Rows) :
           listing' = Listing("listed", listing.total, listing.stay \cap Rows, rows,
                              ~(Rows \subseteq listing.stay))
  /\ UNCHANGED <<row, ended>>

\* Math.ceil(total / limit).
PagesOf(total) == (total + PageRows - 1) \div PageRows

ScyllaInit ==
  /\ row = [s \in Sessions |-> NoRow] /\ ended = {}
  /\ listing = Listing("none", 0, {}, {}, FALSE)

ScyllaNext ==
  \/ \E s \in Sessions :
       \/ DeleteSession(s) \/ DeactivateSession(s)
       \/ \E g \in Given : CreateSession(s, g) \/ UpdateSession(s, g)
  \/ CountSessions
  \/ SelectPage

-----------------------------------------------------------------------------
(* What holds.                                                             *)

ScyllaTypeOK ==
  /\ row \in [Sessions -> Row] /\ ended \subseteq Sessions
  /\ listing.pc \in {"none", "counted", "listed"}
  /\ listing.total \in Nat /\ listing.stay \subseteq Sessions
  /\ listing.data \subseteq Sessions /\ listing.grown \in BOOLEAN

\* An answer that says there is one page has every row that was there for both
\* statements, those that upserts left behind a deletion included, unless
\* others have come in between.  Of more pages only the first can be had.
OnePageHasAll ==
  listing.pc = "listed" /\ PagesOf(listing.total) <= 1 /\ ~listing.grown =>
    listing.stay \subseteq listing.data
=============================================================================

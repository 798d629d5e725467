------------------------------ MODULE Portfolios -----------------------------
(***************************************************************************)
(* The portfolio documents: PortfolioController and PortfolioService over  *)
(* BaseRepository (src/src/shared/database/mongodb/common).  Every call is *)
(* one statement except paginate, which asks for the page and the number   *)
(* of documents at the same time.  A reader goes through the pages while   *)
(* others write.                                                           *)
(***************************************************************************)
EXTENDS Naturals, Sequences, FiniteSets, FiniteSetsExt, SequencesExt

CONSTANTS
  Docs,    \* ids of portfolios
  Limit,   \* the page size
  MaxTime, \* bound: milliseconds
  MaxDeleted, \* bound: documents deleted
  NoDoc    \* no portfolio

PortfoliosAssumption ==
  Limit \in Nat \ {0} /\ MaxTime \in Nat /\ MaxDeleted \in Nat /\ NoDoc \notin Nat

VARIABLES
  portfolio, \* id |-> createdAt of the document, or NoDoc
  clock,     \* the time
  page,      \* the page the reader asks for, 0 when not reading
  asked,     \* queries of the page that have not been answered
  data,      \* its documents
  totalPages, \* and the number of pages, as answered
  read,      \* what the reader has been given
  there,     \* history: documents stored when the reader began
  deleted,   \* history: a document was deleted since
  torn       \* history: a write came between the two queries of a page

portfolioVars == <<portfolio, clock, page, asked, data, totalPages, read,
                  there, deleted, torn>>
reader == <<page, asked, data, totalPages, read, there>>

-----------------------------------------------------------------------------

Stored == {d \in Docs : portfolio[d] # NoDoc}
Between == torn' = (torn \/ Cardinality(asked) = 1)

\* PortfolioService.create, which POST /portfolio stops short of.
CreatePortfolio(d) ==
  /\ portfolio[d] = NoDoc /\ d \notin deleted /\ d \notin there
  /\ portfolio' = [portfolio EXCEPT ![d] = clock]
  /\ Between
  /\ UNCHANGED <<clock, reader, deleted>>

\* A document that is not there is not made; one that is keeps its createdAt.
Updated(d) == portfolio[d]

UpdatePortfolio(d) ==
  /\ portfolio' = [portfolio EXCEPT ![d] = Updated(d)]
  /\ UNCHANGED <<clock, reader, deleted, torn>>

RemovePortfolio(d) ==
  /\ portfolio[d] # NoDoc /\ Cardinality(deleted) < MaxDeleted
  /\ portfolio' = [portfolio EXCEPT ![d] = NoDoc]
  /\ deleted' = deleted \cup {d}
  /\ Between
  /\ UNCHANGED <<clock, reader>>

\* Time that passes without a new document makes no difference.
Millisecond ==
  /\ clock < MaxTime /\ \E d \in Docs : portfolio[d] = clock
  /\ clock' = clock + 1
  /\ UNCHANGED <<portfolio, reader, deleted, torn>>

-----------------------------------------------------------------------------

\* The documents newest first; those of the same millisecond in any order.
Sorted ==
  {s \in SetToSeqs(Stored) :
     \A i, j \in DOMAIN s : i < j => portfolio[s[i]] >= portfolio[s[j]]}

\* Pages counted from zero.
SkippedFromZero == page * Limit

Skipped == (page - 1) * Limit

\* One more, to see whether there is a next page.
OneMore == Limit + 1

Taken == Limit

\* Math.ceil(total / limit).
Pages == (Cardinality(Stored) + Limit - 1) \div Limit

StartReading ==
  /\ page = 0 /\ read = <<>>
  /\ page' = 1 /\ asked' = {"find", "count"} /\ there' = Stored
  /\ UNCHANGED <<portfolio, clock, data, totalPages, read, deleted, torn>>

FindPage ==
  /\ "find" \in asked /\ asked' = asked \ {"find"}
  /\ \E s \in Sorted :
       data' = SubSeq(s, Skipped + 1,
                      IF Skipped + Taken < Len(s) THEN Skipped + Taken ELSE Len(s))
  /\ UNCHANGED <<portfolio, clock, page, totalPages, read, there, deleted, torn>>

CountDocuments ==
  /\ "count" \in asked /\ asked' = asked \ {"count"}
  /\ totalPages' = Pages
  /\ UNCHANGED <<portfolio, clock, page, data, read, there, deleted, torn>>

\* The page has come; the reader goes on to the last there is.
NextPage ==
  /\ page > 0 /\ asked = {}
  /\ read' = read \o data /\ data' = <<>> /\ totalPages' = 0
  /\ IF page < totalPages THEN page' = page + 1 /\ asked' = {"find", "count"}
                          ELSE page' = 0 /\ UNCHANGED asked
  /\ UNCHANGED <<portfolio, clock, there, deleted, torn>>

PortfoliosInit ==
  /\ portfolio = [d \in Docs |-> NoDoc]
  /\ clock = 0 /\ page = 0 /\ totalPages = 0
  /\ asked = {} /\ data = <<>> /\ read = <<>> /\ there = {}
  /\ deleted = {} /\ torn = FALSE

PortfoliosNext ==
  \/ \E d \in Docs : CreatePortfolio(d) \/ UpdatePortfolio(d) \/ RemovePortfolio(d)
  \/ Millisecond \/ StartReading \/ FindPage \/ CountDocuments \/ NextPage

-----------------------------------------------------------------------------
(* What holds.                                                             *)

PortfoliosTypeOK ==
  /\ portfolio \in [Docs -> 0..MaxTime \cup {NoDoc}]
  /\ clock \in 0..MaxTime
  /\ asked \subseteq {"find", "count"} /\ torn \in BOOLEAN
  /\ deleted \subseteq Docs /\ there \subseteq Docs
  /\ Len(data) <= Limit

Finished == page = 0 /\ read # <<>>
OneInstant == \E d, e \in Stored : d # e /\ portfolio[d] = portfolio[e]

\* Documents created while somebody goes through the pages move the others on,
\* so that none of them is missed, unless a write falls between the two
\* queries of a page, documents share a millisecond, or some are deleted.
NoneMissed ==
  Finished /\ ~torn /\ ~OneInstant /\ deleted = {} => there \subseteq ToSet(read)

\* Without writes every document is on one page, once.
ReadOnce ==
  Finished /\ ~torn /\ ~OneInstant /\ deleted = {} /\ Stored = there =>
    Len(read) = Cardinality(there)
=============================================================================

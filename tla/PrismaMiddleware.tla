-------------------------- MODULE PrismaMiddleware --------------------------
(***************************************************************************)
(* What the middlewares that wrap every Prisma call do to a DateTime that  *)
(* comes back from the database, and what JavaScript's operators then make *)
(* of it.  PrismaModule installs bigIntMiddleware around every query; it   *)
(* sends each result through JSON.stringify and JSON.parse, which keeps    *)
(* numbers and strings but turns a Date object into its ISO string.        *)
(***************************************************************************)
EXTENDS Integers

\* A JavaScript value holding an instant: the Date the driver returns, or
\* the ISO string that JSON.stringify makes of it.
DateObject(t) == [type |-> "Date", at |-> t]
ISOString(t) == [type |-> "string", at |-> t]

\* A result that keeps its Date objects (the middleware without the JSON
\* round trip, i.e. one that only visits bigint values).
KeepsDates(v) == v

BigIntMiddleware(v) == IF v.type = "Date" THEN ISOString(v.at) ELSE v

\* `new Date() > v`: both sides become numbers, and an ISO string becomes
\* NaN, with which every comparison is false.
IsAfter(now, v) == v.type = "Date" /\ now > v.at

\* `v.getTime()` exists on a Date only; calling it on a string throws.
HasGetTime(v) == v.type = "Date"

\* A DateTime column holding the instant t, as the services see it.
ReadDate(t) == BigIntMiddleware(DateObject(t))

\* excludePasswordMiddleware deletes the password of whatever a User query
\* returns; when that is null, the query throws instead of returning null.
NullUserThrows == TRUE
=============================================================================

-------------------------------- MODULE Tables --------------------------------
(***************************************************************************)
(* What the queries of hub/internal/storage/clickhouse have in common.  A  *)
(* table is a set of rows, a row a record; a name or an identifier is a    *)
(* natural number, compared as the strings are, 0 being the empty string.  *)
(* Rows that are equal in every column differ in `row`.  Latency quantiles *)
(* are left out of every result.                                           *)
(***************************************************************************)
EXTENDS Integers, Sequences, FiniteSets, SequencesExt

CONSTANT Second    \* units of time in a second; 1: every timestamp is a whole one

ASSUME SecondAssumption == Second \in Nat \ {0}

Empty == 0

\* A time bound as an argument of a query loses what is below the second.
Bound(t) == t - (t % Second)

\* tenantsOrDefault, requireTenants: the resolved set, or the one tenant of a
\* query that was not given any; by-key reads refuse the empty set instead.
tenantsOrDefault(tenants, tenant) == IF tenants = {} THEN {tenant} ELSE tenants
requireTenants(tenants) == tenants # {}

\* WHERE Tenant IN (?) AND Timestamp >= ? AND Timestamp < ?
Scan(table, q) ==
    {r \in table : /\ r.tenant \in tenantsOrDefault(q.tenants, q.tenant)
                   /\ Bound(q.start) <= r.at /\ r.at < Bound(q.end)}

\* A limit out of its range is replaced by the default one.
Limited(n, max, default) == IF n <= 0 \/ n > max THEN default ELSE n

\* ORDER BY ... LIMIT n: a row's place is the number of rows before it; rows that
\* the order does not tell apart come in some order.
Top(n, S, before(_, _)) ==
    LET s == SetToSeq(S)
        Above(j) == {i \in DOMAIN s : before(s[i], s[j]) \/ (~before(s[j], s[i]) /\ i < j)}
    IN  [k \in 1 .. (IF n < Len(s) THEN n ELSE Len(s)) |-> s[CHOOSE j \in DOMAIN s : Cardinality(Above(j)) = k - 1]]

\* The lexicographic order of tuples, by as many columns as the first one has.
Below(s, t) ==
    \E i \in DOMAIN s : s[i] < t[i] /\ \A j \in 1..(i - 1) : s[j] = t[j]

\* The n rows of S whose keys come first, `key` giving each its sort columns.
FirstBy(key, n, S) == Top(n, S, LAMBDA a, b : Below(key[a], key[b]))

\* Mutant of PageBy: the row that was fetched to see if there is more is the cursor.
PageByPeeked(key, limit, S) ==
    LET page == FirstBy(key, limit + 1, S)
    IN  [rows |-> IF Len(page) > limit THEN SubSeq(page, 1, limit) ELSE page,
         next |-> IF Len(page) > limit THEN <<page[limit + 1]>> ELSE <<>>]

\* A page of S, one row more than the limit telling whether there is another one;
\* the last row shown is the cursor of that one.
PageBy(key, limit, S) ==
    LET page == FirstBy(key, limit + 1, S)
    IN  [rows |-> IF Len(page) > limit THEN SubSeq(page, 1, limit) ELSE page,
         next |-> IF Len(page) > limit THEN <<page[limit]>> ELSE <<>>]

\* GROUP BY key: the rows of every group that has one.
GroupBy(rows, key(_)) == [k \in {key(r) : r \in rows} |-> {r \in rows : key(r) = k}]

Count(rows, p(_)) == Cardinality({r \in rows : p(r)})
Total(rows, value(_)) == MapThenSumSet(value, rows)
Latest(rows) == CHOOSE r \in rows : \A s \in rows : s.at < r.at \/ (s.at = r.at /\ s.row <= r.row)

\* argMax(Value, TimeUnix), 0 without a row.
LatestValue(rows) == IF rows = {} THEN 0 ELSE Latest(rows).value

\* The width of a bucket of a series, in whole seconds.
Bucket(q, points) == Second * Max({((q.end - q.start) \div Second) \div points, 1})
===============================================================================

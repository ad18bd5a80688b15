-------------------------------- MODULE Geohash --------------------------------
(***************************************************************************)
(* Geohasher (encode, decode, neighbors) and what the demand database makes *)
(* of it: an attempt is stored under the cell of its end point, and          *)
(* get_attempts_near looks in the cell of a point and in the cells           *)
(* neighbors finds around it.                                              *)
(*                                                                         *)
(* A geohash is a sequence of numbers below 32 instead of letters. Degrees   *)
(* are integers: on either axis 0 stands for the least coordinate and a cell *)
(* of the precision at hand is Unit long. A step of neighbors that the code  *)
(* computes as a power with a half in its exponent is rounded down.          *)
(***************************************************************************)
EXTENDS Integers, Sequences

CONSTANTS
    Precisions,   \* lengths of a geohash; the api uses 9
    Unit,         \* the length of a cell: even, so that it has a centre
    Rows, Columns \* by precision, the cells of either axis that spots are taken from

\* Two to the power of n.
Pow2[n \in Nat] == IF n = 0 THEN 1 ELSE 2 * Pow2[n - 1]

\* Bits alternate between the axes and begin with the longitude.
LngBits(p) == (5 * p + 1) \div 2
LatBits(p) == (5 * p) \div 2

ASSUME GeohashAssumption ==
    /\ Precisions \subseteq Nat \ {0}
    /\ Unit \in Nat \ {0} /\ Unit % 2 = 0
    /\ \A p \in Precisions : /\ Rows[p] \subseteq 0..Pow2[LatBits(p)] - 1
                             /\ Columns[p] \subseteq 0..Pow2[LngBits(p)] - 1

VARIABLES
    precision,  \* length of the geohashes
    place,      \* an end point of a failed route, <<lat, lng>>
    stored,     \* its geohash in the database, <<>> before it is logged
    asked,      \* the spot get_attempts_near was asked about
    found       \* did it find the attempt?
vars == <<precision, place, stored, asked, found>>

LatRange(p) == <<0, Unit * Pow2[LatBits(p)]>>
LngRange(p) == <<0, Unit * Pow2[LngBits(p)]>>

\* The first and the last coordinate of a cell: spots on the edges.
Edges(cells) == {c * Unit : c \in cells} \cup {c * Unit + Unit - 1 : c \in cells}
Spots(p) == Edges(Rows[p]) \X Edges(Columns[p])

-----------------------------------------------------------------------------
(* The algorithms.                                                          *)

Mid(range) == (range[1] + range[2]) \div 2
Half(range, upper) == IF upper THEN <<Mid(range), range[2]>> ELSE <<range[1], Mid(range)>>

Above(x, range) == x > Mid(range)

\* The bit that says in which half of its range a coordinate is.
InUpperHalf(x, range) == x >= Mid(range)

IsLng(k) == k % 2 = 1

\* Both ranges at the start, and what a bit leaves of them.
World(p) == [lat |-> LatRange(p), lng |-> LngRange(p)]

Narrow(ranges, k, upper) ==
    IF IsLng(k) THEN [ranges EXCEPT !.lng = Half(ranges.lng, upper)]
                ELSE [ranges EXCEPT !.lat = Half(ranges.lat, upper)]

\* Bit k of a spot <<lat, lng>>, given the ranges that the bits before it leave.
IsUpper(spot, ranges, k) == IF IsLng(k) THEN InUpperHalf(spot[2], ranges.lng)
                                        ELSE InUpperHalf(spot[1], ranges.lat)

\* The ranges after each bit of a spot, and the bits.
Bisection(spot, p) ==
    LET cut[k \in 0..5*p] == IF k = 0 THEN World(p)
                             ELSE LET c == cut[k - 1] IN Narrow(c, k, IsUpper(spot, c, k))
    IN cut

Bits(spot, p) == LET cut == Bisection(spot, p)
                 IN [k \in 1..5*p |-> IsUpper(spot, cut[k - 1], k)]

Bit(b) == IF b THEN 1 ELSE 0

Encode(spot, p) ==
    LET b == Bits(spot, p)
    IN [c \in 1..p |-> 16 * Bit(b[5*c - 4]) + 8 * Bit(b[5*c - 3]) + 4 * Bit(b[5*c - 2])
                       + 2 * Bit(b[5*c - 1]) + Bit(b[5*c])]

\* Bit k of a geohash, the highest of each letter first.
BitOf(hash, k) == (hash[(k - 1) \div 5 + 1] \div Pow2[4 - ((k - 1) % 5)]) % 2 = 1

\* The ranges after each bit of a geohash, and the centre of what is left.
Retraced(hash) ==
    LET cut[k \in 0..5*Len(hash)] == IF k = 0 THEN World(Len(hash))
                                     ELSE LET c == cut[k - 1] IN Narrow(c, k, BitOf(hash, k))
    IN cut

Decode(hash) == LET last == Retraced(hash)[5 * Len(hash)]
                IN <<Mid(last.lat), Mid(last.lng)>>

\* range / 2^(twice / 2): the square root of two is 181/128.
Step(range, twice) ==
    IF twice % 2 = 0 THEN range[2] \div Pow2[twice \div 2]
    ELSE (range[2] * 181) \div (128 * Pow2[(twice + 1) \div 2])

FourOffsets(dlat, dlng) == ({0 - dlat, dlat} \X {0}) \cup ({0} \X {0 - dlng, dlng})
Offsets(dlat, dlng) == ({0 - dlat, 0, dlat} \X {0 - dlng, 0, dlng}) \ {<<0, 0>>}

Neighbors(hash) ==
    LET p == Len(hash)
        centre == Decode(hash)
        dlat == Step(LatRange(p), 5 * p - 2)
        dlng == Step(LngRange(p), 5 * p)
    IN {Encode(<<centre[1] + o[1], centre[2] + o[2]>>, p) : o \in Offsets(dlat, dlng)}

-----------------------------------------------------------------------------
(* Logging an attempt, and looking for the attempts near a spot.             *)

Nowhere == <<>>   \* nothing has been asked yet

Init ==
    /\ precision \in Precisions
    /\ place \in Spots(precision)
    /\ stored = <<>>
    /\ asked = Nowhere
    /\ found = FALSE

LogFailedRoute ==
    /\ stored = <<>>
    /\ stored' = Encode(place, precision)
    /\ UNCHANGED <<precision, place, asked, found>>

\* One query of a behaviour, for the answer depends on nothing but the spots.
GetAttemptsNear(spot) ==
    /\ stored # <<>>
    /\ asked = Nowhere
    /\ LET center_gh == Encode(spot, precision)
       IN found' = (stored \in Neighbors(center_gh) \cup {center_gh})
    /\ asked' = spot
    /\ UNCHANGED <<precision, place, stored>>

Next == LogFailedRoute \/ \E spot \in Spots(precision) : GetAttemptsNear(spot)

Spec == Init /\ [][Next]_vars

-----------------------------------------------------------------------------
(* Correctness, against the grid that the cells are.                        *)

Row(spot) == spot[1] \div Unit
Column(spot) == spot[2] \div Unit
Distance(i, j) == IF i < j THEN j - i ELSE i - j

\* Two spots have the same geohash exactly when they are in one cell of the grid, the
\* lower edges of a cell belonging to it, and decode takes a geohash to the middle of
\* its cell, which the hotspots of the demand endpoints are shown at.
CellsAreTheGrid ==
    stored # <<>> =>
        /\ Decode(stored) = <<Row(place) * Unit + Unit \div 2, Column(place) * Unit + Unit \div 2>>
        /\ asked # Nowhere =>
              (stored = Encode(asked, precision) <=>
                  Row(place) = Row(asked) /\ Column(place) = Column(asked))

\* get_attempts_near: "the geohash cell containing the point plus its 8 neighbors (to
\* avoid missing attempts that fall on a cell boundary)". So it is at odd precisions,
\* the poles and the antimeridian being edges; at even ones neighbors steps two rows.
NearbyIsFound ==
    [][asked # asked' =>
         LET rows == Distance(Row(place), Row(asked'))
             columns == Distance(Column(place), Column(asked'))
         IN IF precision % 2 = 1 THEN found' <=> rows <= 1 /\ columns <= 1
                                 ELSE found' => rows <= 2 /\ columns <= 1]_vars
=============================================================================

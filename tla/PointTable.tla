------------------------------ MODULE PointTable ------------------------------
(***************************************************************************)
(* The import of a Modbus point table, row by row, and the read blocks     *)
(* compiled from its points: points of one function and interval are       *)
(* sorted by address and merged until a gap or the limit of a request.     *)
(***************************************************************************)
EXTENDS Naturals, Sequences, FiniteSets
LOCAL INSTANCE SequencesExt

CONSTANTS
    TableRows,          \* rows of a sheet: id, slug (letters of the name), n, notation, fc,
                        \* type, count, order, poll; "" and 0 stand for an empty cell
    MaxRows,            \* bound: rows of a table
    RegisterLimit,      \* 125 in the code: registers of one request
    BitLimit            \* 2000 in the code: bits of one request

ASSUME PointAssumption == {RegisterLimit, BitLimit} \subseteq Nat \ {0}

AddressSpace == 65536
DefaultPoll == 10

VARIABLES
    points,         \* the points of the rows read so far
    table,          \* "open", "rejected", "compiled"
    blocks          \* compiled read blocks, in order

tvars == <<points, table, blocks>>

TableInit == points = <<>> /\ table = "open" /\ blocks = <<>>

-----------------------------------------------------------------------------
(* Rows. *)

NoAddress == [ok |-> FALSE, address |-> 0, fc |-> 0]

\* A 4xxxx, 3xxxx or 1xxxx number says the function itself and must not contradict the
\* row; any other number counts from 0 or 1 and needs the function of the row.
parseModbusAddress(n, notation, fc) ==
    LET plc == {<<40001, 49999, 3>>, <<30001, 39999, 4>>, <<10001, 19999, 2>>}
        range == {r \in plc : n \in r[1] .. r[2]}
        base == IF notation = "one_based" THEN 1 ELSE 0
    IN IF range # {}
       THEN LET r == CHOOSE r \in range : TRUE
            IN IF fc \in {0, r[3]} THEN [ok |-> TRUE, address |-> n - r[1], fc |-> r[3]]
               ELSE NoAddress
       ELSE IF notation \in {"", "zero_based", "one_based"} /\ n >= base /\ fc # 0
            THEN [ok |-> TRUE, address |-> n - base, fc |-> fc]
            ELSE NoAddress

\* An explicit count wins over the type; 0 stands for an unsupported type.
pointRegisterCount(type, count) ==
    CASE count # 0 -> count
      [] type \in {"bool", "uint16", "int16", "bits"} -> 1
      [] type \in {"uint32", "int32", "float32"} -> 2
      [] type \in {"uint64", "int64", "float64"} -> 4
      [] OTHER -> 0

validWordOrder(order, bytes) ==
    CASE bytes <= 2 -> order \in {"ABCD", "AB"}
      [] bytes = 4 -> order \in {"ABCD", "CDAB", "BADC", "DCBA"}
      [] bytes = 8 -> order \in {"ABCDEFGH", "GHEFCDAB", "BADCFEHG", "HGFEDCBA"}
      [] OTHER -> FALSE

generatedPointIdentifier(slug, fc, address) == IF slug # "" THEN <<slug>> ELSE <<"fc", fc, address>>

\* One row of normalizeModbusRows; the first row that is not valid rejects the table.
NormalizedPoint(row) ==
    LET a == parseModbusAddress(row.n, row.notation, row.fc)
        type == IF row.type # "" THEN row.type ELSE IF a.fc <= 2 THEN "bool" ELSE "uint16"
        count == pointRegisterCount(type, row.count)
        order == IF row.order = "" THEN "ABCD" ELSE row.order
        id == IF row.id # "" THEN <<row.id>> ELSE generatedPointIdentifier(row.slug, a.fc, a.address)
    IN [ok |-> /\ a.ok /\ a.fc \in 1 .. 4 /\ count > 0
               /\ \A i \in 1 .. Len(points) : points[i].id # id
               /\ type # "string" => validWordOrder(order, count * 2),
        point |-> [id |-> id, fc |-> a.fc, address |-> a.address, count |-> count,
                   poll |-> IF row.poll = 0 THEN DefaultPoll ELSE row.poll]]

normalizeModbusRows(row) ==
    LET n == NormalizedPoint(row)
    IN /\ table = "open" /\ Len(points) < MaxRows
       /\ IF n.ok THEN points' = Append(points, n.point) /\ UNCHANGED table
          ELSE table' = "rejected" /\ UNCHANGED points
       /\ UNCHANGED blocks

-----------------------------------------------------------------------------
(* Read blocks. *)

pointWidth(p) == IF p.fc <= 2 THEN 1 ELSE p.count
Limit(fc) == IF fc <= 2 THEN BitLimit ELSE RegisterLimit

Group(fc, poll) == SelectSeq(points, LAMBDA p : p.fc = fc /\ p.poll = poll)
\* sort.Slice is not stable: any order of the points of one address.
SortedGroups(fc, poll) ==
    LET g == Group(fc, poll)
    IN {SortSeq([i \in 1 .. Len(g) |-> g[f[i]]], LAMBDA p, q : p.address < q.address) :
        f \in {h \in [1 .. Len(g) -> 1 .. Len(g)] : \A i, j \in 1 .. Len(g) : h[i] = h[j] => i = j}}

BadStartsBlock(b, p) == p.address > b.end \/ p.address + pointWidth(p) - b.start > Limit(p.fc) + 1
WorseStartsBlock(b, p) == p.address > b.end + 1 \/ p.address + pointWidth(p) - b.start > Limit(p.fc)
StartsBlock(b, p) == p.address > b.end \/ p.address + pointWidth(p) - b.start > Limit(p.fc)

BadExtendedEnd(b, p) == p.address + pointWidth(p)
ExtendedEnd(b, p) == IF p.address + pointWidth(p) > b.end THEN p.address + pointWidth(p) ELSE b.end

BlockOf(p) == [fc |-> p.fc, poll |-> p.poll, start |-> p.address, end |-> p.address + pointWidth(p)]
Merge(out, p) ==
    IF StartsBlock(Last(out), p) THEN Append(out, BlockOf(p))
    ELSE [out EXCEPT ![Len(out)].end = ExtendedEnd(Last(out), p)]

\* The groups follow one another in an order that does not matter here.
CompileModbusReadBlocks(sorted) == FoldLeft(Merge, <<BlockOf(Head(sorted))>>, Tail(sorted))

Compile ==
    /\ table = "open" /\ points # <<>>
    /\ LET keys == {<<points[i].fc, points[i].poll>> : i \in 1 .. Len(points)}
       IN \E order \in [keys -> UNION {SortedGroups(k[1], k[2]) : k \in keys}] :
             /\ \A k \in keys : order[k] \in SortedGroups(k[1], k[2])
             /\ blocks' = FlattenSeq(SetToSeq({CompileModbusReadBlocks(order[k]) : k \in keys}))
    /\ table' = "compiled" /\ UNCHANGED points

TableNext == (\E row \in TableRows : normalizeModbusRows(row)) \/ Compile

-----------------------------------------------------------------------------
TablePoints == {points[i] : i \in 1 .. Len(points)}
Blocks == {blocks[i] : i \in 1 .. Len(blocks)}

\* What buildReadRequest sends: the size and the end of the address space.
Readable(fc, start, end) == end - start \in 1 .. Limit(fc) /\ end <= AddressSpace

\* Every point lies wholly in one block of its function and interval, so that each
\* poll of the block brings all its registers.
EveryPointIsRead ==
    table = "compiled" =>
        \A p \in TablePoints : \E b \in Blocks :
            /\ b.fc = p.fc /\ b.poll = p.poll
            /\ b.start <= p.address /\ p.address + pointWidth(p) <= b.end

\* Merging never makes a request that buildReadRequest refuses (one refused block fails
\* the collection of all): a block is refused only for a point that nobody could read.
BlocksAreReadable ==
    (\A p \in TablePoints : Readable(p.fc, p.address, p.address + pointWidth(p)))
    => \A b \in Blocks : Readable(b.fc, b.start, b.end)

\* A block reads no register that the table does not name: devices answer a read over
\* an undefined register with an exception.
NoGapIsRead ==
    \A b \in Blocks : \A a \in b.start .. b.end - 1 :
        \E p \in TablePoints : p.fc = b.fc /\ p.poll = b.poll
                          /\ a \in p.address .. p.address + pointWidth(p) - 1

\* The blocks read every point, nothing else, and within the limits of a request.
BlocksFitPoints == EveryPointIsRead /\ BlocksAreReadable /\ NoGapIsRead

=============================================================================

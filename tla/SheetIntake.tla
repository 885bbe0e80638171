---------------------------- MODULE SheetIntake ----------------------------
(***************************************************************************)
(* From an uploaded file to a list run whose columns the owner confirmed:  *)
(* modules/ingestion (storage, parsers, service), the column mapping of    *)
(* modules/normalization, and the endpoints that call them.  One list; a   *)
(* failed upload may be repeated.                                          *)
(*                                                                         *)
(* A text is a tuple of its parts, so that "A_1" is <<"A", 1>> and an      *)
(* empty one <<>>: all that the parser does to a header is to append a     *)
(* number.  A file is the sequence of its tables (one for CSV and Excel),  *)
(* a table a sequence of rows, a row a sequence of cells.  A cell is Null  *)
(* (None) or the text that str(cell).strip() leaves, with what surrounds   *)
(* it: two cells that read alike may still differ.                         *)
(***************************************************************************)
EXTENDS Integers, SequencesExt

CONSTANTS
    Cells,              \* what a cell of a file may be
    Files,              \* what may be uploaded
    Fields,             \* the canonical columns, "supplier_item_number" one of them
    Score(_, _),        \* how well a field's aliases fit a header, 0..100
    Noise(_),           \* the header holds a keyword of NOISE_HEADER_KEYWORDS
    MaxUploads,         \* bound: uploads of this list
    Null

IsSequence(s) == Len(s) \in Nat /\ s = [i \in 1..Len(s) |-> s[i]]

ASSUME CellsAssumption == \A cell \in Cells : cell # Null => IsSequence(cell.text)
ASSUME FilesAssumption == Files \subseteq Seq(Seq(Seq(Cells)))
ASSUME NoTextAssumption == Null # <<>> /\ Noise(Null)     \* NULL is no header
ASSUME MaxUploadsAssumption == MaxUploads \in Nat

VARIABLES
    pc,         \* "idle", or how far a request has come
    upload,     \* the number of the upload: it makes the S3 key unique
    file,       \* what is being, or was, uploaded
    stored,     \* the uploads whose file is in S3
    tx,         \* the run as the open transaction has it
    run,        \* the committed list_runs row with its raw_line_items, or Null
    claimed     \* propose_column_mapping: the header of a field, so far

vars == <<pc, upload, file, stored, tx, run, claimed>>

Blank == <<>>
MIN_CONFIDENCE == 60

----------------------------------------------------------------------------
(***************************************************************************)
(* parsers.py                                                              *)
(***************************************************************************)
\* parse_pdf: the tables one after the other.  A table that begins with the
\* very row the first non-empty table began with, cell by cell as they were
\* extracted, loses it.
FirstTable(tables) == Min({t \in DOMAIN tables : tables[t] # <<>>})
Repeats(tables, t) ==
    /\ tables[t] # <<>> /\ t > FirstTable(tables)
    /\ tables[t][1] = tables[FirstTable(tables)][1]

RepeatingGrid(tables) == FlattenSeq(tables)       \* keeps every repeated header
CombinedGrid(tables) ==
    FlattenSeq([t \in DOMAIN tables |->
        IF Repeats(tables, t) THEN Tail(tables[t]) ELSE tables[t]])

\* _rows_from_grid reads every cell as str(c).strip(), and None as "".
Str(cell) == IF cell = Null THEN Blank ELSE cell.text
Stripped(row) == [c \in DOMAIN row |-> Str(row[c])]
ReadGrid(tables) ==
    LET grid == CombinedGrid(tables) IN [r \in DOMAIN grid |-> Stripped(grid[r])]

\* The header is the first row with two non-empty cells.
NonEmpty(row) == {c \in DOMAIN row : row[c] # Blank}
HeaderRows(grid) == {r \in DOMAIN grid : Cardinality(NonEmpty(grid[r])) >= 2}
HeaderIndex(grid) == Min(HeaderRows(grid))

\* Empty and repeated header cells get names of their own
BaseName(raw, c) == IF raw[c] = Blank THEN <<"column", c>> ELSE raw[c]
Earlier(raw, c) == Cardinality({d \in 1..(c - 1) : BaseName(raw, d) = BaseName(raw, c)})
FirstNameOnly(raw, c) == BaseName(raw, c)         \* leaves repeated headers alone
HeaderName(raw, c) ==
    IF Earlier(raw, c) = 0 THEN BaseName(raw, c) ELSE Append(BaseName(raw, c), Earlier(raw, c))
Headers(raw) == [c \in DOMAIN raw |-> HeaderName(raw, c)]

\* dict(zip(headers, cells)), padded or cut to the header's width: of two
\* columns with one name the later one stays
Cell(row, c) == IF c \in DOMAIN row THEN row[c] ELSE Blank
UnpaddedData(headers, row) ==                     \* a short row has fewer keys
    [h \in {headers[c] : c \in DOMAIN headers \cap DOMAIN row} |->
        Cell(row, Max({c \in DOMAIN headers : headers[c] = h}))]
RawData(headers, row) ==
    [h \in ToSet(headers) |-> Cell(row, Max({c \in DOMAIN headers : headers[c] = h}))]

\* The rows under the header that are not blank, by row_number
KthOf(S, k) == CHOOSE n \in S : Cardinality({m \in S : m <= n}) = k
DataIndices(grid) ==
    {r \in DOMAIN grid : r > HeaderIndex(grid) /\ NonEmpty(grid[r]) # {}}
DataRows(grid) ==
    [k \in 1..Cardinality(DataIndices(grid)) |-> grid[KthOf(DataIndices(grid), k)]]

ParsedRows(tables) ==
    LET grid == ReadGrid(tables)
        headers == Headers(grid[HeaderIndex(grid)])
        data == DataRows(grid)
    IN  IF HeaderRows(grid) = {} THEN <<>>
        ELSE [k \in DOMAIN data |-> RawData(headers, data[k])]

ASSUME NullIsNoHeader ==
    \A f \in Files : \A k \in DOMAIN ParsedRows(f) : Null \notin DOMAIN ParsedRows(f)[k]

----------------------------------------------------------------------------
NewRun == [status |-> "uploaded", rows |-> <<>>, key |-> Null,
           proposed |-> Null, confirmed |-> Null]

Init ==
    /\ pc = "idle" /\ upload = 0 /\ file = Null
    /\ stored = {}
    /\ tx = Null /\ run = Null
    /\ claimed = Null

(***************************************************************************)
(* POST /runs: ingest_file in one transaction, and the file in S3, which   *)
(* is in none.  A parser that raises and a file without rows set the       *)
(* status to FAILED, and the endpoint rolls that back.                     *)
(***************************************************************************)
UploadList(f) ==
    /\ pc = "idle" /\ run = Null /\ upload < MaxUploads
    /\ file' = f /\ upload' = upload + 1
    /\ tx' = NewRun
    /\ pc' = "created"
    /\ UNCHANGED <<stored, run, claimed>>

UnstoredSourceFile ==         \* records the key without storing the file
    /\ pc = "created"
    /\ tx' = [tx EXCEPT !.key = upload]
    /\ pc' = "stored"
    /\ UNCHANGED <<upload, file, stored, run, claimed>>

UploadSourceFile ==
    /\ pc = "created"
    /\ stored' = stored \cup {upload}
    /\ tx' = [tx EXCEPT !.key = upload]
    /\ pc' = "stored"
    /\ UNCHANGED <<upload, file, run, claimed>>

ParseFile ==
    LET rows == ParsedRows(file)
    IN  /\ pc = "stored" /\ rows # <<>>
        /\ tx' = [tx EXCEPT !.rows = rows, !.status = "mapping_pending"]
        /\ pc' = "commit"
        /\ UNCHANGED <<upload, file, stored, run, claimed>>

\* An exception (of S3, the parser, the database), a file without rows, a crash
RollBack ==
    /\ pc # "idle"
    /\ pc' = "idle" /\ tx' = Null /\ claimed' = Null
    /\ UNCHANGED <<upload, file, stored, run>>

Commit ==
    /\ pc = "commit"
    /\ run' = tx
    /\ pc' = "idle" /\ tx' = Null /\ claimed' = Null
    /\ UNCHANGED <<upload, file, stored>>

----------------------------------------------------------------------------
(***************************************************************************)
(* GET /runs/{run_id}/mapping: propose_column_mapping on the headers of    *)
(* the first row.  Pairs are claimed from the best score down; the order   *)
(* of equal scores is that of the JSONB keys, which is any.                *)
(***************************************************************************)
HeadersOf(r) == DOMAIN r.rows[1]

Pairs(headers) ==
    {p \in Fields \X headers : ~Noise(p[2]) /\ Score(p[1], p[2]) >= MIN_CONFIDENCE}

\* "if field in claimed_fields or header in claimed_headers: continue"
FreeField(claims, p) ==       \* forgets the claimed headers
    claims[p[1]] = Null
Free(claims, p) == claims[p[1]] = Null /\ \A f \in Fields : claims[f] # p[2]
FreePairs(claims, headers) == {p \in Pairs(headers) : Free(claims, p)}

FirstPairs(claims, headers) == FreePairs(claims, headers)    \* unsorted candidates
BestPairs(claims, headers) ==
    {p \in FreePairs(claims, headers) :
        \A q \in FreePairs(claims, headers) : Score(q[1], q[2]) <= Score(p[1], p[2])}

ProposeMapping ==
    /\ pc = "idle" /\ run # Null
    /\ tx' = run
    /\ claimed' = [f \in Fields |-> Null]
    /\ pc' = "propose"
    /\ UNCHANGED <<upload, file, stored, run>>

Claim(p) ==
    /\ pc = "propose" /\ p \in BestPairs(claimed, HeadersOf(tx))
    /\ claimed' = [claimed EXCEPT ![p[1]] = p[2]]
    /\ UNCHANGED <<pc, upload, file, stored, tx, run>>

FinishProposal ==
    /\ pc = "propose" /\ FreePairs(claimed, HeadersOf(tx)) = {}
    /\ tx' = [tx EXCEPT !.proposed = claimed]
    /\ pc' = "commit"
    /\ UNCHANGED <<upload, file, stored, run, claimed>>

\* POST /runs/{run_id}/mapping/confirm: any header for any field, whether the
\* list has it or not, as long as there is one for the item number
ConfirmMapping(mapping) ==
    /\ pc = "idle" /\ run # Null
    /\ mapping["supplier_item_number"] \notin {Null, Blank}
    /\ tx' = [run EXCEPT !.confirmed = mapping, !.status = "mapping_confirmed"]
    /\ pc' = "commit"
    /\ UNCHANGED <<upload, file, stored, run, claimed>>

\* The owner takes the proposal, with at most one field corrected
Corrections ==
    IF run = Null \/ run.proposed = Null THEN {}
    ELSE {[run.proposed EXCEPT ![f] = h] : f \in Fields, h \in HeadersOf(run) \cup {Null}}

Next ==
    \/ \E f \in Files : UploadList(f)
    \/ UploadSourceFile
    \/ ParseFile
    \/ Commit
    \/ RollBack
    \/ ProposeMapping
    \/ \E p \in Fields \X (IF tx = Null \/ tx.rows = <<>> THEN {} ELSE HeadersOf(tx)) : Claim(p)
    \/ FinishProposal
    \/ \E m \in Corrections : ConfirmMapping(m)

Spec == Init /\ [][Next]_vars

----------------------------------------------------------------------------
(***************************************************************************)
(* Properties                                                              *)
(***************************************************************************)
Mapping(r) == [Fields -> HeadersOf(r) \cup {Null}]

\* Where a request can be, and what it holds there: the transaction has rows from
\* the parser on, and every row of a list has the keys of the first.
TypeOK ==
    /\ pc \in {"idle", "created", "stored", "propose", "commit"}
    /\ stored \subseteq 1..upload /\ upload <= MaxUploads
    /\ pc = "idle" => tx = Null
    /\ pc # "idle" =>
          /\ DOMAIN tx = DOMAIN NewRun
          /\ tx.rows = <<>> <=> pc \in {"created", "stored"}
    /\ pc = "propose" => claimed \in Mapping(tx)
    /\ run # Null =>
          /\ Null \notin HeadersOf(run)
          /\ run.proposed \in Mapping(run) \cup {Null}
          /\ \A k \in DOMAIN run.rows : DOMAIN run.rows[k] = HeadersOf(run)

\* Every list anybody can see has its original in S3 and rows to work on.  UPLOADED
\* and FAILED are statuses of rolled back transactions only (router.py:97), and a
\* list that may be processed names some header for the item number.
RunIsComplete ==
    run # Null =>
        /\ run.key \in stored
        /\ run.rows # <<>>
        /\ run.status \in {"mapping_pending", "mapping_confirmed"}
        /\ run.confirmed # Null =>
              run.status = "mapping_confirmed" /\ run.confirmed["supplier_item_number"] # Null

\* No cell of a data row within the width of the header is lost, blank and
\* repeated headers included, as long as no header of the file itself looks like
\* one of the names the parser makes up ("A_1", "column_3"), or is the word it
\* makes them of: "column" twice yields "column_1", which a blank first header is
\* called too.
IsPlain(header) == Len(header) <= 1 /\ header # <<"column">>
PlainHeadersKeepCells ==
    run # Null =>
        LET grid == ReadGrid(file)
            raw == grid[HeaderIndex(grid)]
            data == DataRows(grid)
        IN  (\A c \in DOMAIN raw : IsPlain(raw[c])) =>
                /\ Len(run.rows) = Len(data)
                /\ \A k \in DOMAIN data, c \in DOMAIN raw :
                      run.rows[k][Headers(raw)[c]] = Cell(data[k], c)

\* A catalog that repeats its header on top of every page yields rows of data
\* only, if its first table begins with that header, its repetitions are that row
\* to the last cell, white space and None included, and no other row reads like
\* it: cell by cell, within its width.
ReadsLike(row, header) == \A c \in DOMAIN header : Cell(row, c) = header[c]
RepeatedHeadersAreDropped ==
    run # Null =>
        LET raw == file[FirstTable(file)][1]
            header == Stripped(raw)
        IN  /\ Cardinality(NonEmpty(header)) >= 2
            /\ \A t \in DOMAIN file : \A r \in DOMAIN file[t] :
                  ReadsLike(Stripped(file[t][r]), header) => r = 1 /\ file[t][r] = raw
            => \A k \in DOMAIN run.rows : \E c \in DOMAIN header :
                  run.rows[k][Headers(header)[c]] # header[c]

\* Two canonical fields never share a column (column_mapping.py:100).
ProposalIsInjective ==
    run # Null /\ run.proposed # Null =>
        \A f, g \in Fields :
            run.proposed[f] = run.proposed[g] /\ run.proposed[f] # Null => f = g

\* Claiming greedily from the best score down is stable: a pair that was good
\* enough and not chosen lost its field or its header to one at least as good.
ClaimsBeat(claims, p) ==
    \E f \in Fields :
        /\ claims[f] # Null
        /\ f = p[1] \/ claims[f] = p[2]
        /\ Score(p[1], p[2]) <= Score(f, claims[f])
ProposalIsStable ==
    run # Null /\ run.proposed # Null =>
        \A p \in Pairs(HeadersOf(run)) : ClaimsBeat(run.proposed, p)
=============================================================================

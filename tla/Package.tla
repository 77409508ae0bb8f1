------------------------------ MODULE Package ------------------------------
(***************************************************************************)
(* The data a packet carries through a port: class Package of              *)
(* include/package.h, a tensor-like container whose shape may be filled    *)
(* only in part, and its PackageShape, which numbers the places of the     *)
(* shape and marks those that hold data (src/package.cc).                  *)
(*                                                                         *)
(* One package, from its construction on, and the calls a calculator or    *)
(* the application makes on it.  A place is named by its full index, one   *)
(* number per dimension, or by its id.                                     *)
(***************************************************************************)
EXTENDS Integers, FiniteSets, Sequences, SequencesExt, FiniteSetsExt

CONSTANTS
    Shapes,             \* the shapes the callers set: sequences of dimensions
    Data,               \* what may be stored
    MAX_NUM_ELEMENTS    \* 1024

ASSUME PackageAssumption ==
    /\ MAX_NUM_ELEMENTS \in Nat
    /\ Shapes \subseteq Seq(0 .. 255)

VARIABLES
    pkg,    \* the package: its shape, the marked ids, data_ and data_index_
    stored  \* what the callers know: the datum of every id whose AddData succeeded

vars == <<pkg, stored>>

-----------------------------------------------------------------------------
(***************************************************************************)
(* PackageShape                                                            *)
(***************************************************************************)

\* The loop of GetIdFromFullIndex, from the last dimension to the first: how
\* many places share the first n numbers of their index.
Strides(shape) ==
    LET stride[n \in 0 .. Len(shape)] ==
            IF n = Len(shape) THEN 1 ELSE stride[n + 1] * shape[n + 1]
    IN  stride

MaxNumElements(shape) == Strides(shape)[0]

FullIndices(shape) ==
    {index \in [DOMAIN shape -> UNION {0 .. shape[i] - 1 : i \in DOMAIN shape}] :
        \A i \in DOMAIN shape : index[i] < shape[i]}

\* The last dimension changes fastest.
GetIdFromFullIndex(shape, index) ==
    LET id[n \in 0 .. Len(shape)] ==
            IF n = Len(shape) THEN 0 ELSE id[n + 1] + Strides(shape)[n + 1] * index[n + 1]
    IN  id[0]

\* resize: the dimensions an index leaves out are 0.
Resized(shape, index) == [i \in DOMAIN shape |-> IF i <= Len(index) THEN index[i] ELSE 0]

\* Mutant: the last dimension of the shape is stepped, not that of the index.
NextFullIndex(shape, index) ==
    <<GetIdFromFullIndex(shape, Resized(shape, index)),
      GetIdFromFullIndex(shape, [Resized(shape, index) EXCEPT ![Len(shape)] = @ + 1])>>

\* The ids [start, end) of the places whose index begins with index; its last
\* number is stepped in a uint8_t.
GetIdFromIndex(shape, index) ==
    <<GetIdFromFullIndex(shape, Resized(shape, index)),
      GetIdFromFullIndex(shape, Resized(shape, [index EXCEPT ![Len(index)] = (@ + 1) % 256]))>>

GetIndexFromId(shape, id) ==
    LET rest[n \in 0 .. Len(shape)] ==
            IF n = Len(shape) THEN id ELSE rest[n + 1] \div shape[n + 1]
    IN  [n \in DOMAIN shape |-> rest[n] % shape[n]]

\* Walk: the indices of the first n dimensions in the order of the visits.
Visits(shape, n) ==
    LET walked[m \in 0 .. n] ==
            IF m = 0 THEN <<<<>>>>
            ELSE [k \in 1 .. Len(walked[m - 1]) * shape[m] |->
                     Append(walked[m - 1][(k - 1) \div shape[m] + 1], (k - 1) % shape[m])]
    IN  walked[n]

\* WalkNthDim: the calls of f.
WalkNthDim(shape, n) ==
    [k \in DOMAIN Visits(shape, n) |->
        [index |-> Visits(shape, n)[k], ids |-> GetIdFromIndex(shape, Visits(shape, n)[k])]]

IsIndexEmpty(p, index) ==
    LET ids == GetIdFromIndex(p.shape, index)
    IN  \A i \in ids[1] .. ids[2] - 1 : i \notin p.marks

\* Mutant: what is marked is what holds data, as when n is Dims().
MarksOccupied(p, n) ==
    {GetIdFromFullIndex(SubSeq(p.shape, 1, n), i) :
        i \in {j \in ToSet(Visits(p.shape, n)) : ~IsIndexEmpty(p, j)}}

\* IsNthDimEmpty: the marks of a shape of the first n dimensions, those of
\* the empty indices.  For all dimensions the shape itself is returned,
\* whose marks are those of the indices that are not empty.
IsNthDimEmpty(p, n) ==
    IF n = Len(p.shape)
    THEN p.marks
    ELSE {GetIdFromFullIndex(SubSeq(p.shape, 1, n), i) :
             i \in {j \in ToSet(Visits(p.shape, n)) : IsIndexEmpty(p, j)}}

-----------------------------------------------------------------------------
(***************************************************************************)
(* Package.  data_index_ maps an id to its place in data_, which counts    *)
(* from 1 here.                                                            *)
(***************************************************************************)

EmptyPackage == [shape |-> <<>>, marks |-> {}, data |-> <<>>, dataIndex |-> <<>>]

\* The marks are reset, the data stay.
AfterSetShape(p, shape) == [p EXCEPT !.shape = shape, !.marks = {}]

With(dataIndex, id, place) ==
    [k \in DOMAIN dataIndex \union {id} |-> IF k = id THEN place ELSE dataIndex[k]]

\* Mutant: an id that has data gets new data.
AfterAddDataUnchecked(p, id, d) ==
    [p EXCEPT !.data = Append(@, d),
              !.dataIndex = With(@, id, Len(p.data) + 1),
              !.marks = @ \union {id}]

\* Mutant: the place is not marked.
AfterAddDataUnmarked(p, id, d) ==
    IF id \in DOMAIN p.dataIndex
    THEN p
    ELSE [p EXCEPT !.data = Append(@, d), !.dataIndex = With(@, id, Len(p.data) + 1)]

\* AddData by id: false, and nothing changes, if data_index_ has the id.
AfterAddData(p, id, d) ==
    IF id \in DOMAIN p.dataIndex
    THEN p
    ELSE [p EXCEPT !.data = Append(@, d),
                   !.dataIndex = With(@, id, Len(p.data) + 1),
                   !.marks = @ \union {id}]

\* data_index_[id] makes an entry for an id that has none: the first datum.
AfterGetData(p, id) ==
    IF id \in DOMAIN p.dataIndex THEN p ELSE [p EXCEPT !.dataIndex = With(@, id, 1)]

NumElements(p) == Cardinality(p.marks)

\* The keys of data_index_, a map: in increasing order.
GetDataIndex(p) ==
    CHOOSE ids \in [1 .. Cardinality(DOMAIN p.dataIndex) -> DOMAIN p.dataIndex] :
        \A i, j \in DOMAIN ids : i < j => ids[i] < ids[j]

\* Mutant: the data are taken to lie at the first places.
CopiedDense(p) ==
    LET out[i \in 0 .. NumElements(p)] ==
            IF i = 0 THEN AfterSetShape(EmptyPackage, p.shape)
            ELSE AfterAddData(out[i - 1], i - 1, p.data[i])
    IN  out[NumElements(p)]

\* The copy of the base class Calculator: the i-th id of GetDataIndex gets
\* the i-th datum of GetData.
Copied(p) ==
    LET out[i \in 0 .. NumElements(p)] ==
            IF i = 0 THEN AfterSetShape(EmptyPackage, p.shape)
            ELSE AfterAddData(out[i - 1], GetDataIndex(p)[i], p.data[i])
    IN  out[NumElements(p)]

-----------------------------------------------------------------------------
Init == pkg = EmptyPackage /\ stored = <<>>

\* The callers set the shape of a package before they store anything.
SetShape(shape) ==
    /\ pkg.data = <<>>
    /\ MaxNumElements(shape) <= MAX_NUM_ELEMENTS
    /\ pkg' = AfterSetShape(pkg, shape)
    /\ UNCHANGED stored

\* AddData by id checks the id against the shape.
AddData(id, d) ==
    /\ pkg.shape # <<>>
    /\ id < MaxNumElements(pkg.shape)
    /\ pkg' = AfterAddData(pkg, id, d)
    /\ stored' = IF id \in DOMAIN pkg.dataIndex THEN stored ELSE With(stored, id, d)

\* AddData by full index asks the marks as well.
AddDataAt(index, d) ==
    LET id == GetIdFromFullIndex(pkg.shape, index) IN
    /\ pkg.shape # <<>>
    /\ id \notin pkg.marks
    /\ pkg' = AfterAddData(pkg, id, d)
    /\ stored' = IF id \in DOMAIN pkg.dataIndex THEN stored ELSE With(stored, id, d)

\* GetData by id, of a package that holds something.
GetData(id) ==
    /\ pkg.data # <<>>
    /\ id < MaxNumElements(pkg.shape)
    /\ pkg' = AfterGetData(pkg, id)
    /\ UNCHANGED stored

Next ==
    \/ \E shape \in Shapes : SetShape(shape)
    \/ \E id \in 0 .. MAX_NUM_ELEMENTS - 1 :
        GetData(id) \/ \E d \in Data : AddData(id, d)
    \/ \E index \in FullIndices(pkg.shape), d \in Data : AddDataAt(index, d)

Spec == Init /\ [][Next]_vars

-----------------------------------------------------------------------------
(***************************************************************************)
(* Properties                                                              *)
(***************************************************************************)

\* What an AddData that returned true has stored under an id is what GetData
\* finds there, whatever is added, refused or read meanwhile.
StoredIsKept ==
    \A id \in DOMAIN stored :
        id \in DOMAIN pkg.dataIndex /\ pkg.data[pkg.dataIndex[id]] = stored[id]

\* The marks of the shape and the data agree: a place is marked exactly if
\* an AddData for it succeeded, also after GetData made an entry for a place
\* without data.
MarkedIsStored == pkg.marks = DOMAIN stored

\* Full indices and ids name the same places, and GetIndexFromId goes back.
IdsNamePlaces ==
    /\ \A index \in FullIndices(pkg.shape) :
        GetIndexFromId(pkg.shape, GetIdFromFullIndex(pkg.shape, index)) = index
    /\ \A id \in 0 .. MaxNumElements(pkg.shape) - 1 :
        /\ GetIndexFromId(pkg.shape, id) \in FullIndices(pkg.shape)
        /\ GetIdFromFullIndex(pkg.shape, GetIndexFromId(pkg.shape, id)) = id

\* Every id below the size of the shape has one full index, and the ranges
\* WalkNthDim hands out for a dimension share the places out: every id is in
\* exactly one of them, that of the index its own begins with.
WalkSharesOutPlaces ==
    /\ IdsNamePlaces
    /\ \A n \in DOMAIN pkg.shape :
        LET calls == WalkNthDim(pkg.shape, n) IN
        \A id \in 0 .. MaxNumElements(pkg.shape) - 1 :
            \E k \in DOMAIN calls :
                /\ {j \in DOMAIN calls : id \in calls[j].ids[1] .. calls[j].ids[2] - 1} = {k}
                /\ IsPrefix(calls[k].index, GetIndexFromId(pkg.shape, id))

\* IsNthDimEmpty marks an index of the first n dimensions exactly if nothing
\* was stored at any place below it (n less than the number of dimensions).
EmptyMeansNothingStored ==
    \A n \in 1 .. Len(pkg.shape) - 1 :
        LET sub == SubSeq(pkg.shape, 1, n) IN
        \A index \in FullIndices(sub) :
            GetIdFromFullIndex(sub, index) \in IsNthDimEmpty(pkg, n)
            <=> \A id \in DOMAIN stored : ~IsPrefix(index, GetIndexFromId(pkg.shape, id))

\* Calculator::Process gives the copy of a package the same places and data,
\* each datum at its place if the package was filled in the order of the ids;
\* otherwise the data change places.  (Only places with data were read.)
Content(p) == [id \in p.marks |-> p.data[p.dataIndex[id]]]

FilledInOrder(p) ==
    \A i, j \in DOMAIN p.dataIndex : i < j => p.dataIndex[i] < p.dataIndex[j]

CopyIsSame ==
    DOMAIN pkg.dataIndex = pkg.marks =>
        /\ Copied(pkg).marks = pkg.marks
        /\ Copied(pkg).data = pkg.data
        /\ FilledInOrder(pkg) => Content(Copied(pkg)) = Content(pkg)
=============================================================================

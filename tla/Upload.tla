------------------------------- MODULE Upload -------------------------------
(***************************************************************************)
(* Uploaded files: the body of a multipart request, taken apart as it comes *)
(* (src/src/handlers/fileuploadhandler.cpp).                                *)
(*                                                                          *)
(* The body arrives in chunks, cut wherever the network cuts it, and every  *)
(* chunk is looked at on its own: a boundary, or the header of a part, that *)
(* is cut is not recognised.  A part goes into a file of the directory for  *)
(* temporary files that all uploads share; the name is looked up first and  *)
(* the file opened later, on the thread of the connection.                  *)
(*                                                                          *)
(* A body is a sequence of tokens: the line break and dashes before a       *)
(* boundary ("dash"), the two halves of a boundary, the two halves of a     *)
(* header, pieces of data, which may be white space ("space"), and the      *)
(* dashes after the last boundary ("end").                                  *)
(***************************************************************************)
EXTENDS Naturals, Sequences, FiniteSets, SequencesExt

CONSTANTS
    Upload,      \* uploads
    Sizes,       \* Sizes[u]: pieces of data of each part of an upload
    Space,       \* <<u, p, i>>: the pieces that are white space
    Long,        \* parts with a header of 1 KiB or more
    Colon,       \* parts with a colon in their name
    MaxChunks,   \* bound: MaxChunks[u], the chunks a body is cut into
    MaxClock     \* bound: values the clock shows

ASSUME PartsAssumption == \A u \in Upload : Sizes[u] \in Seq(Nat)
ASSUME ChunksAssumption == MaxChunks \in [Upload -> Nat \ {0}] /\ MaxClock \in Nat \ {0}

Tok(k, p) == [kind |-> k, part |-> p]
Boundary == <<Tok("b1", 0), Tok("b2", 0)>>
Datum(u, p, i) == Tok(IF <<u, p, i>> \in Space THEN "space" ELSE "data", p)
PartOf(u, p) == <<Tok("h1", p), Tok("h2", p)>> \o [i \in 1..Sizes[u][p] |-> Datum(u, p, i)]

Separator == <<Tok("dash", 0)>> \o Boundary

\* The body the browser sends: so many parts, and the end.
Body(u) ==
    LET upTo[p \in 0..Len(Sizes[u])] ==
            IF p = 0 THEN Separator ELSE upTo[p - 1] \o PartOf(u, p) \o Separator
    IN  upTo[Len(Sizes[u])] \o <<Tok("end", 0)>>

VARIABLES
    pos,         \* tokens of the body that were handled
    chunks,      \* chunks that arrived
    chunk,       \* the chunk being handled, <<>> when there is none
    listed,      \* files there were when the handler looked
    analyze,     \* analyzeBuffer_
    target,      \* targetFile_: the open file, or <<>>
    current,     \* currentPart_: its name, see Names below
    fileId,      \* fileId_
    parts,       \* parts_: what the application is told of
    files,       \* the directory: what each file holds
    openedBy,    \* history: which uploads opened a file
    clock,       \* milliseconds
    smooth,      \* history: the chunks were cut where the handler can stand it
    raced,       \* history: files looked up by two uploads at once
    ended        \* uploads that are answered

parser == <<analyze, target, current, fileId, parts>>
uploadVars == <<pos, chunks, chunk, listed, parser, files, openedBy, clock, smooth, raced, ended>>

\* Names: the name a part was uploaded under is the number of the part, the
\* same in all uploads; <<1>> is the name of the first part, <<t, 1>> that name
\* with the time t in front of it.  <<0>> is no name.  The path of a file is the
\* number of the file followed by the name.
NoFile == <<>>
NoName == <<0>>

UploadTypeOK ==
    /\ \A u \in Upload : pos[u] \in 0..Len(Body(u)) /\ pos[u] + Len(chunk[u]) <= Len(Body(u))
    /\ \A u \in Upload : listed[u] \subseteq DOMAIN files
    /\ \A u \in Upload : target[u] = NoFile \/ target[u] \in DOMAIN files
    /\ \A u \in Upload : Len(parts[u]) <= fileId[u] /\ current[u] \in Seq(Nat) \ {<<>>}
    /\ DOMAIN openedBy = DOMAIN files /\ \A f \in DOMAIN files : openedBy[f] \subseteq Upload
    /\ clock \in 1..MaxClock /\ smooth \subseteq Upload /\ ended \subseteq Upload

UploadInit ==
    /\ pos = [u \in Upload |-> 0] /\ chunks = [u \in Upload |-> 0]
    /\ chunk = [u \in Upload |-> <<>>]
    /\ listed = [u \in Upload |-> {}]
    /\ analyze = [u \in Upload |-> <<>>] /\ target = [u \in Upload |-> NoFile]
    /\ current = [u \in Upload |-> NoName] /\ fileId = [u \in Upload |-> 0]
    /\ parts = [u \in Upload |-> <<>>]
    /\ files = [f \in {} |-> <<>>] /\ openedBy = [f \in {} |-> {}]
    /\ clock = 1 /\ smooth = Upload /\ raced = {} /\ ended = {}

-----------------------------------------------------------------------------
(* One chunk *)

HasBoundaryAt(c, i) == i < Len(c) /\ c[i].kind = "b1" /\ c[i + 1].kind = "b2"

\* splitChunk: what is between the boundaries, and what is left over; nothing
\* when there is no boundary.
SplitChunk(c) ==
    LET boundaries == {i \in DOMAIN c : HasBoundaryAt(c, i)}
        n == Cardinality(boundaries)
        at[k \in 1..n] ==
            Min(IF k = 1 THEN boundaries ELSE {i \in boundaries : i > at[k - 1]})
        from(k) == IF k = 1 THEN 1 ELSE at[k - 1] + 2
        to(k) == IF k = n + 1 THEN Len(c) ELSE at[k] - 1
    IN  IF n = 0 THEN <<>> ELSE [k \in 1..(n + 1) |-> SubSeq(c, from(k), to(k))]

\* Empty, or only dashes, once trimmed: white space goes, data or not.
Blank(s) ==
    LET seen == {i \in DOMAIN s : s[i].kind # "space"}
    IN  \A i, j \in seen : i = j /\ s[i].kind \in {"dash", "end"}

\* findEndIndex: without the dashes before the boundary.
WithoutDash(s) == IF s # <<>> /\ Last(s).kind = "dash" THEN Front(s) ELSE s

\* The state of the parser while a chunk is handled, with the files it opened.
ParserState(u) == [analyze |-> analyze[u], target |-> target[u], current |-> current[u],
             fileId |-> fileId[u], parts |-> parts[u], files |-> files, opens |-> {}]

\* The end of the header: without one, all but the last byte counts as header.
HeaderLength(s) ==
    IF \E i \in DOMAIN s : s[i].kind = "h2"
    THEN CHOOSE i \in DOMAIN s : s[i].kind = "h2" /\ \A j \in 1..(i - 1) : s[j].kind # "h2"
    ELSE Len(s) - 1

\* The name in the header; a header that is cut leaves the one of the part
\* before, and so does a name with a colon: a line with two is left out.
NameIn(s, before) ==
    IF Len(s) >= 2 /\ s[1].kind = "h1" /\ s[2].kind = "h2" /\ s[1].part \notin Colon
    THEN <<s[1].part>> ELSE before

\* The buffer has 1 KiB: nothing more is taken.
IsFull(buffer) == \E i \in DOMAIN buffer : buffer[i].kind = "h2" /\ buffer[i].part \in Long

\* Mutant: only the parts of the upload are looked at.
NameForOwnPart(st, name, id, known) ==
    IF \E i \in DOMAIN st.parts : st.parts[i].name = name THEN <<clock>> \o name ELSE name

\* The name of a part and its path: with the time in front when the upload has
\* a part of that name or there is such a file; the new path is not looked up.
NameFor(st, name, id, known) ==
    IF (\E i \in DOMAIN st.parts : st.parts[i].name = name) \/ <<id>> \o name \in known
    THEN <<clock>> \o name ELSE name

WriteTo(files0, f, s) == [files0 EXCEPT ![f] = @ \o s]

\* finishCurrentPart.
FinishCurrentPart(st) ==
    [st EXCEPT !.target = NoFile, !.analyze = <<>>,
               !.parts = Append(@, [name |-> st.current, file |-> st.target])]

\* The first data of a part: its header, its file.
OpenPart(st, all, isComplete, known) ==
    LET data == SubSeq(all, HeaderLength(all) + 1, Len(all))
        id == st.fileId + 1
        name == NameFor(st, NameIn(all, st.current), id, known)
        f == <<id>> \o name
        opened == [st EXCEPT !.analyze = all, !.current = name, !.fileId = id, !.target = f,
                             !.opens = @ \cup {f},
                             !.files = [x \in DOMAIN @ \cup {f} |->
                                           IF x # f THEN @[x]
                                           ELSE IF isComplete THEN WithoutDash(data) ELSE data]]
    IN  IF isComplete THEN FinishCurrentPart(opened) ELSE opened

\* writeDataToCurrentPart.  A header with nothing behind it waits for more, which
\* a long one gets no more.
WriteData(st, s, isComplete, known) ==
    LET all == st.analyze \o s
    IN  IF st.target # NoFile THEN [st EXCEPT !.files = WriteTo(@, st.target, s)]
        ELSE IF IsFull(st.analyze) THEN st
        ELSE IF all = <<>> \/ HeaderLength(all) = Len(all) THEN [st EXCEPT !.analyze = all]
        ELSE OpenPart(st, all, isComplete, known)

\* writeLastBlockOfCurrentPart.
WriteLastBlock(st, s) ==
    IF st.target = NoFile THEN st
    ELSE FinishCurrentPart([st EXCEPT !.files = WriteTo(@, st.target, WithoutDash(s))])

\* Mutant: the part that the chunk begins with is not finished.
HandleFirstCarelessly(st, s, known) ==
    IF Blank(s) THEN st ELSE WriteData(st, s, FALSE, known)

\* What the chunk begins with: the end of the current part, or nothing.
HandleFirst(st, s, known) == IF Blank(s) THEN st ELSE WriteLastBlock(st, s)

\* The parts that a chunk has from beginning to end.
WriteParts(st, between, known) ==
    LET written[n \in 0..Len(between)] ==
            IF n = 0 THEN st ELSE WriteData(written[n - 1], between[n], TRUE, known)
    IN  written[Len(between)]

\* onData.  What is left over goes first, the complete parts in between after
\* it.
OnData(st, c, known) ==
    LET splits == SplitChunk(c)
        st1 == [HandleFirst(st, Head(splits), known) EXCEPT !.analyze = <<>>]
        rest == Last(splits)
        st2 == IF Blank(rest) THEN st1 ELSE WriteData(st1, rest, FALSE, known)
        between == SubSeq(splits, 2, Len(splits) - 1)
    IN  IF splits = <<>> THEN WriteData(st, c, FALSE, known)
        ELSE WriteParts(st2, between, known)

\* The cuts the handler can stand: boundaries and headers are whole, a long
\* header has some of the data behind it, the chunk that ends a part begins with
\* some of its data, not white space alone, but not all, and no chunk has a
\* complete part and the beginning of another one.
StandsCut(u, c) ==
    LET splits == SplitChunk(c)
    IN  /\ Last(c).kind \notin {"dash", "b1", "h1"}
        /\ Last(c).kind = "h2" => Last(c).part \notin Long
        /\ IF splits = <<>> THEN Last(c).kind # "end"
           ELSE /\ target[u] = NoFile => analyze[u] = <<>>
                /\ target[u] = NoFile <=> Blank(Head(splits))
                /\ Blank(Last(splits)) \/ Len(splits) = 2

-----------------------------------------------------------------------------
(* Uploads *)

\* A chunk of n tokens arrives: the handler begins with it.  What it knows of
\* the directory may be old when it opens its files.
ReceiveData(u, n) ==
    /\ chunk[u] = <<>> /\ pos[u] < Len(Body(u))
    /\ chunks[u] + 1 < MaxChunks[u] \/ pos[u] + n = Len(Body(u))
    /\ chunks' = [chunks EXCEPT ![u] = @ + 1]
    /\ chunk' = [chunk EXCEPT ![u] = SubSeq(Body(u), pos[u] + 1, pos[u] + n)]
    /\ listed' = [listed EXCEPT ![u] = DOMAIN files]
    /\ smooth' = IF StandsCut(u, chunk'[u]) THEN smooth ELSE smooth \ {u}
    /\ UNCHANGED <<pos, parser, files, openedBy, clock, raced, ended>>

\* The chunk is handled.
HandleChunk(u) ==
    /\ chunk[u] # <<>>
    /\ LET st == OnData(ParserState(u), chunk[u], listed[u])
       IN  /\ analyze' = [analyze EXCEPT ![u] = st.analyze]
           /\ target' = [target EXCEPT ![u] = st.target]
           /\ current' = [current EXCEPT ![u] = st.current]
           /\ fileId' = [fileId EXCEPT ![u] = st.fileId]
           /\ parts' = [parts EXCEPT ![u] = st.parts]
           /\ files' = st.files
           /\ openedBy' = [f \in DOMAIN st.files |->
                             (IF f \in DOMAIN openedBy THEN openedBy[f] ELSE {})
                             \cup (IF f \in st.opens THEN {u} ELSE {})]
           /\ raced' = raced \cup {f \in st.opens \cap DOMAIN files :
                                     f \notin listed[u] \/ Len(f) > 2}
    /\ pos' = [pos EXCEPT ![u] = @ + Len(chunk[u])]
    /\ chunk' = [chunk EXCEPT ![u] = <<>>]
    /\ UNCHANGED <<chunks, listed, clock, smooth, ended>>

\* onEnd, emitResults: the application is told of the parts.
End(u) ==
    /\ u \notin ended /\ chunk[u] = <<>> /\ pos[u] = Len(Body(u))
    /\ ended' = ended \cup {u}
    /\ UNCHANGED <<pos, chunks, chunk, listed, parser, files, openedBy, clock, smooth, raced>>

Tick ==
    /\ clock < MaxClock
    /\ clock' = clock + 1
    /\ UNCHANGED <<pos, chunks, chunk, listed, parser, files, openedBy, smooth, raced, ended>>

UploadNext ==
    \/ Tick
    \/ \E u \in Upload :
          \/ \E n \in 1..(Len(Body(u)) - pos[u]) : ReceiveData(u, n)
          \/ HandleChunk(u) \/ End(u)

UploadSpec == UploadInit /\ [][UploadNext]_uploadVars

-----------------------------------------------------------------------------
(* Properties *)

DataOf(u, p) == [i \in 1..Sizes[u][p] |-> Datum(u, p, i)]

\* However the data of the parts is cut, the application gets every part of an
\* upload, in order, under its name, unless that has a colon, and with the data it
\* had, unless a cut was one the handler cannot stand, or an upload at the same
\* time had the file.  (And every variable is well typed.)
PartsAreRight ==
    /\ UploadTypeOK
    /\ \A u \in ended \cap smooth :
          /\ Len(parts[u]) = Len(Sizes[u])
          /\ \A i \in DOMAIN parts[u] :
                LET p == parts[u][i]
                IN  /\ i \notin Colon => Last(p.name) = i
                    /\ p.file \notin raced => files[p.file] = DataOf(u, i)

\* Two uploads have a file in common only when the second one looked before
\* the first opened it, or both put the same time in front of its name.
FilesAreOwn ==
    \A f \in DOMAIN files \ raced : Cardinality(openedBy[f]) <= 1
=============================================================================

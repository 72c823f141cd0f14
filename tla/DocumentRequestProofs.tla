------------------------ MODULE DocumentRequestProofs ------------------------
(***************************************************************************)
(* Proofs about the upload of a document request, for PDFs of every size   *)
(* and every bound on pages and text: of the reading alone (Spec) and of   *)
(* the whole request (RequestSpec), whose steps are steps of the reading   *)
(* or leave it alone.                                                      *)
(***************************************************************************)
EXTENDS DocumentRequest, FiniteSetTheorems, TLAPS

\* The page numbers of S, in order.
Lists(s, S) == s \in Seq(Nat) /\ Increasing(s) /\ Range(s) = S

\* A larger page at the end.
LEMMA AppendLists ==
    ASSUME NEW s, NEW S, Lists(s, S), NEW i \in Nat, \A x \in S : x < i
    PROVE  Lists(Append(s, i), S \cup {i})
<1> DEFINE t == Append(s, i)
<1>1. s \in Seq(Nat) /\ Increasing(s) /\ Range(s) = S
    BY DEF Lists
<1>2. /\ t \in Seq(Nat)
      /\ DOMAIN s = 1 .. Len(s) /\ Len(s) \in Nat
      /\ DOMAIN t = 1 .. Len(s) + 1
      /\ t[Len(s) + 1] = i
      /\ \A j \in 1 .. Len(s) : t[j] = s[j] /\ s[j] \in Nat
    BY <1>1
<1> HIDE DEF t
<1>3. \A j \in 1 .. Len(s) : s[j] \in S
    BY <1>1, <1>2 DEF Range
<1>4. Increasing(t)
    <2> SUFFICES ASSUME NEW a \in DOMAIN t, NEW b \in DOMAIN t, a < b PROVE t[a] < t[b]
        BY DEF Increasing
    <2>1. a \in 1 .. Len(s)
        BY <1>2
    <2>2. CASE b \in 1 .. Len(s)
        BY <1>1, <1>2, <2>1, <2>2 DEF Increasing
    <2>3. CASE b = Len(s) + 1
        BY <1>2, <1>3, <2>1, <2>3
    <2> QED
        BY <1>2, <2>2, <2>3
<1>5. Range(t) = S \cup {i}
    <2>1. Range(t) \subseteq S \cup {i}
        BY <1>2, <1>3 DEF Range
    <2>2. ASSUME NEW x \in S PROVE x \in Range(t)
        <3>1. PICK j \in DOMAIN s : x = s[j]
            BY <1>1 DEF Range
        <3> QED
            BY <1>2, <3>1 DEF Range
    <2>3. i \in Range(t)
        BY <1>2 DEF Range
    <2> QED
        BY <2>1, <2>2, <2>3
<1> QED
    BY <1>2, <1>4, <1>5 DEF Lists, t

\* No page at all.
LEMMA EmptyLists == Lists(<<>>, {})
    BY DEF Lists, Increasing, Range

\* A list of no pages is the empty sequence, and any other is not.
LEMMA EmptyIffNone ==
    ASSUME NEW s, NEW S, Lists(s, S)
    PROVE  s = <<>> <=> S = {}
<1>1. s \in Seq(Nat) /\ Range(s) = S
    BY DEF Lists
<1>2. CASE s = <<>>
    BY <1>1, <1>2 DEF Range
<1>3. CASE s # <<>>
    <2>1. Len(s) \in Nat /\ Len(s) # 0 /\ 1 \in DOMAIN s
        BY <1>1, <1>3
    <2> QED
        BY <1>1, <1>3, <2>1 DEF Range
<1> QED
    BY <1>2, <1>3

\* What the definition of a bounded sequence says.
LEMMA PagesAreSequence ==
    ASSUME upload \in Upload
    PROVE  /\ upload.pages \in Seq(Page)
           /\ Len(upload.pages) \in Nat /\ Len(upload.pages) <= MaxPages
           /\ Pages = 1 .. Len(upload.pages)
<1>1. upload.pages \in SeqOf(Page, MaxPages)
    BY DEF Upload
<1>2. PICK m \in 0 .. MaxPages : upload.pages \in [1 .. m -> Page]
    BY <1>1 DEF SeqOf
<1>3. upload.pages \in Seq(Page)
    BY <1>2, UploadAssumption
<1>4. Len(upload.pages) = m
    BY <1>2, <1>3, UploadAssumption
<1> QED
    BY <1>2, <1>3, <1>4, UploadAssumption DEF Pages

----------------------------------------------------------------------------
(***************************************************************************)
(* The inductive invariant: how far each of the two page loops has come.   *)
(***************************************************************************)
TextPages == {p \in Pages : upload.pages[p].chars > 0}

\* The loop over reader.pages: the pages before index are read.
ReadSoFar ==
    pc = "reading" =>
        /\ upload.kind = "pdf" /\ index >= 1
        /\ Lists(textParts, {p \in TextPages : p < index})
        /\ rendered = <<>>

\* The loop over the PDFium document: the pages before index are rendered, up
\* to the cap, and no page has text.
RenderedSoFar ==
    pc \in {"rendering", "converting"} =>
        /\ upload.kind = "pdf" /\ index >= 1 /\ index <= RasterMaxPages + 1
        /\ TextPages = {}
        /\ Lists(rendered, {p \in Pages : p < index})
        /\ pc = "converting" => WithinCap

\* One bitmap while a page is converted, none at any other time.
NativeMemory ==
    /\ doc = "open" <=> pc \in {"rendering", "converting"}
    /\ bitmaps = IF pc = "converting" THEN {index} ELSE {}

\* There is no result before the return, and nothing kept before the reading.
Unreturned ==
    /\ pc # "done" => result = NoResult
    /\ pc = "received" => textParts = <<>> /\ rendered = <<>>

\* A text result lists the pages with text, an image result of a PDF those
\* up to the cap.
ResultLists ==
    /\ result.mode = "text" => Lists(result.parts, TextPages)
    /\ result.mode = "image" /\ upload.kind = "pdf" =>
          TextPages = {} /\ Lists(result.images, {p \in Pages : p <= RasterMaxPages})

IInv ==
    /\ TypeOK
    /\ ReadSoFar
    /\ RenderedSoFar
    /\ NativeMemory
    /\ Unreturned
    /\ ResultLists

\* The initial states satisfy the invariant.
LEMMA InitInvariant == Init => IInv
<1> SUFFICES ASSUME Init PROVE IInv
    OBVIOUS
<1>1. upload \in Upload
    BY DEF Init
<1>2. TypeOK
    BY <1>1, PagesAreSequence DEF Init, TypeOK, NoResult
<1> QED
    BY <1>2 DEF Init, IInv, ReadSoFar, RenderedSoFar, NativeMemory, Unreturned, ResultLists,
                NoResult

\* Returning with an error from any point.
LEMMA ErrorKeepsInvariant ==
    ASSUME IInv, NEW e, Return(Error(e)), UNCHANGED <<upload, index, textParts, rendered>>,
           doc' \in {"none", "closed"}, bitmaps' = {}
    PROVE  IInv'
<1>1. TypeOK'
    BY PagesAreSequence DEF IInv, TypeOK, Return, Error, Pages
<1> QED
    BY <1>1 DEF IInv, ReadSoFar, RenderedSoFar, NativeMemory, Unreturned, ResultLists,
                Return, Error

\* Every step of the reading keeps the invariant.
LEMMA NextInvariant == IInv /\ [Next]_vars => IInv'
<1> SUFFICES ASSUME IInv, [Next]_vars PROVE IInv'
    OBVIOUS
<1>0. TypeOK /\ ReadSoFar /\ RenderedSoFar /\ NativeMemory /\ Unreturned /\ ResultLists
    BY DEF IInv
<1>u. upload \in Upload /\ upload' = upload
    BY <1>0 DEF TypeOK, Next, Process, Finished, vars, Refuse, OpensRaises, ProcessImage, ProcessPdf,
       PagesRaise, ReadPage, FinishText, OpenDocument, OpenRaises, LoadRaises, Render,
       RenderRaises, Convert, ConvertRaises, FinishImages
<1>p. /\ Len(upload.pages) \in Nat /\ Pages = 1 .. Len(upload.pages) /\ Pages' = Pages
      /\ TextPages' = TextPages /\ TextPages \subseteq Pages
    BY <1>u, PagesAreSequence DEF Pages, TextPages
<1>r. RasterMaxPages \in Nat
    BY UploadAssumption
<1>1. CASE UNCHANGED <<upload, pc, index, textParts, doc, bitmaps, rendered, result>>
    BY <1>0, <1>1 DEF IInv, TypeOK, ReadSoFar, RenderedSoFar, NativeMemory, Unreturned,
       ResultLists, Pages, TextPages, WithinCap
<1>2. CASE Refuse
    BY <1>0, <1>2, ErrorKeepsInvariant DEF Refuse, NativeMemory, TypeOK
<1>3. CASE ProcessImage
    <2>1. result' = Image(<<1>>) /\ pc' = "done"
        BY <1>3 DEF ProcessImage, Return
    <2>2. TypeOK'
        BY <1>0, <1>3, <1>p, <1>u, <2>1 DEF ProcessImage, TypeOK, Image
    <2> QED
        BY <1>0, <1>3, <2>1, <2>2 DEF ProcessImage, IInv, ReadSoFar, RenderedSoFar,
           NativeMemory, Unreturned, ResultLists, Image
<1>4. CASE ProcessPdf
    <2>1. pc' = "reading" /\ index' = 1 /\ textParts' = <<>> /\ rendered' = <<>>
        BY <1>0, <1>4 DEF ProcessPdf, Unreturned
    <2>2. \A p \in TextPages : p \in Nat /\ ~(p < 1)
        BY <1>p
    <2>3. {p \in TextPages' : p < index'} = {}
        BY <1>p, <2>1, <2>2
    <2>4. Lists(textParts', {p \in TextPages' : p < index'})
        BY <2>1, <2>3, EmptyLists
    <2>5. upload'.kind = "pdf"
        BY <1>4, <1>u DEF ProcessPdf
    <2>6. ReadSoFar'
        BY <2>1, <2>4, <2>5 DEF ReadSoFar
    <2>7. TypeOK'
        BY <1>0, <1>4, <1>p, <1>u DEF ProcessPdf, TypeOK
    <2> QED
        BY <1>0, <1>4, <1>p, <2>1, <2>6, <2>7
        DEF ProcessPdf, IInv, RenderedSoFar, NativeMemory, Unreturned, ResultLists, NoResult
<1>5. CASE PagesRaise
    BY <1>0, <1>5, ErrorKeepsInvariant DEF PagesRaise, NativeMemory, TypeOK
<1>6. CASE ReadPage
    <2>1. /\ pc = "reading" /\ pc' = "reading" /\ index \in Pages /\ index' = index + 1
          /\ Lists(textParts, {p \in TextPages : p < index})
        BY <1>0, <1>6 DEF ReadPage, ReadSoFar
    <2>2. index \in Nat
        BY <1>p, <2>1
    <2>3. Lists(textParts', {p \in TextPages : p < index + 1})
        <3>1. CASE upload.pages[index].chars > 0
            <4>1. {p \in TextPages : p < index + 1} = {p \in TextPages : p < index} \cup {index}
                BY <1>p, <2>1, <3>1 DEF TextPages
            <4>2. \A x \in {p \in TextPages : p < index} : x < index
                OBVIOUS
            <4>3. Lists(Append(textParts, index), {p \in TextPages : p < index} \cup {index})
                BY <2>1, <2>2, <4>2, AppendLists
            <4> QED
                BY <1>6, <3>1, <4>1, <4>3 DEF ReadPage
        <3>2. CASE ~(upload.pages[index].chars > 0)
            <4>1. {p \in TextPages : p < index + 1} = {p \in TextPages : p < index}
                BY <1>p, <2>1, <3>2 DEF TextPages
            <4> QED
                BY <1>6, <2>1, <3>2, <4>1 DEF ReadPage
        <3> QED
            BY <3>1, <3>2
    <2>4. TypeOK'
        <3>1. textParts' \in Seq(Pages)
            BY <1>0, <1>6, <2>1 DEF ReadPage, TypeOK
        <3>2. index' \in 0 .. Len(upload.pages) + 1
            BY <1>p, <2>1
        <3> QED
            BY <1>0, <1>6, <1>p, <1>u, <3>1, <3>2 DEF ReadPage, TypeOK
    <2>5. ReadSoFar'
        BY <1>0, <1>6, <1>p, <1>u, <2>1, <2>2, <2>3 DEF ReadPage, ReadSoFar
    <2> QED
        BY <1>0, <1>6, <1>p, <2>1, <2>4, <2>5
        DEF ReadPage, IInv, RenderedSoFar, NativeMemory, Unreturned, ResultLists, NoResult
<1>7. CASE FinishText
    <2>1. /\ pc = "reading" /\ pc' = "done"
          /\ Lists(textParts, {p \in TextPages : p < index})
          /\ index > Len(upload.pages)
        BY <1>0, <1>7 DEF FinishText, Return, ReadSoFar
    <2>2. CASE result' = Error("UnsupportedDocumentError")
        BY <1>0, <1>7, <2>1, <2>2, ErrorKeepsInvariant
        DEF FinishText, NativeMemory, TypeOK, Return
    <2>3. CASE result' = Text(textParts)
        <3>1. index \in Nat
            BY <1>0, <1>p DEF TypeOK
        <3>2. \A p \in TextPages : p < index
            BY <1>p, <2>1, <3>1
        <3>3. {p \in TextPages : p < index} = TextPages
            BY <3>2
        <3>4. result'.mode = "text" /\ Lists(result'.parts, TextPages)
            BY <2>1, <2>3, <3>3 DEF Text
        <3>5. TypeOK'
            BY <1>0, <1>7, <1>p, <1>u, <2>1, <3>4 DEF FinishText, TypeOK
        <3> QED
            BY <1>0, <1>7, <1>p, <2>1, <3>4, <3>5 DEF FinishText, IInv, ReadSoFar,
               RenderedSoFar, NativeMemory, Unreturned, ResultLists
    <2> QED
        BY <1>7, <2>2, <2>3 DEF FinishText, Return
<1>8. CASE OpenDocument
    <2>1. /\ pc' = "rendering" /\ index' = 1 /\ index > Len(upload.pages)
          /\ Lists(textParts, {p \in TextPages : p < index})
          /\ textParts = <<>> /\ rendered' = <<>> /\ upload.kind = "pdf"
        BY <1>0, <1>8 DEF OpenDocument, ReadSoFar
    <2>2. {p \in TextPages : p < index} = {}
        BY <2>1, EmptyIffNone
    <2>3. index \in Nat
        BY <1>0, <1>p DEF TypeOK
    <2>4. TextPages = {}
        BY <1>p, <2>1, <2>2, <2>3
    <2>5. {p \in Pages : p < 1} = {}
        BY <1>p
    <2>6. Lists(rendered', {p \in Pages' : p < index'})
        BY <1>p, <2>1, <2>5, EmptyLists
    <2>7. RenderedSoFar'
        BY <1>8, <1>p, <1>u, <1>r, <2>1, <2>4, <2>6 DEF RenderedSoFar
    <2>8. TypeOK'
        BY <1>0, <1>8, <1>p, <1>u DEF OpenDocument, TypeOK
    <2> QED
        BY <1>0, <1>8, <1>p, <2>1, <2>7, <2>8
        DEF OpenDocument, IInv, ReadSoFar, NativeMemory, Unreturned, ResultLists, NoResult
<1>9. CASE OpenRaises
    BY <1>0, <1>9, ErrorKeepsInvariant DEF OpenRaises, NativeMemory, TypeOK
<1>10. CASE Render
    <2>1. /\ pc = "rendering" /\ pc' = "converting" /\ WithinCap /\ index \in Pages
          /\ bitmaps' = {index} /\ index' = index
        BY <1>0, <1>10 DEF Render, NativeMemory, WithinCap
    <2>2. WithinCap'
        BY <1>p, <2>1 DEF WithinCap
    <2>3. RenderedSoFar'
        BY <1>0, <1>10, <1>p, <1>u, <2>1, <2>2 DEF Render, RenderedSoFar
    <2>4. TypeOK'
        BY <1>0, <1>10, <1>p, <1>u, <2>1 DEF Render, TypeOK
    <2> QED
        BY <1>0, <1>10, <1>p, <2>1, <2>3, <2>4
        DEF Render, IInv, ReadSoFar, NativeMemory, Unreturned, ResultLists, NoResult
<1>11. CASE RenderRaises
    BY <1>0, <1>11, ErrorKeepsInvariant DEF RenderRaises, NativeMemory, TypeOK
<1>12. CASE Convert
    <2>1. /\ pc = "converting" /\ pc' = "rendering" /\ index \in Pages
          /\ index <= RasterMaxPages /\ index' = index + 1
          /\ rendered' = Append(rendered, index)
          /\ Lists(rendered, {p \in Pages : p < index})
        BY <1>0, <1>12 DEF Convert, RenderedSoFar, WithinCap
    <2>2. index \in Nat
        BY <1>p, <2>1
    <2>3. {p \in Pages : p < index + 1} = {p \in Pages : p < index} \cup {index}
        BY <1>p, <2>1
    <2>4. \A x \in {p \in Pages : p < index} : x < index
        OBVIOUS
    <2>5. Lists(Append(rendered, index), {p \in Pages : p < index} \cup {index})
        BY <2>1, <2>2, <2>4, AppendLists
    <2>6. Lists(rendered', {p \in Pages' : p < index'})
        BY <1>p, <2>1, <2>3, <2>5
    <2>7. RenderedSoFar'
        BY <1>0, <1>12, <1>p, <1>u, <1>r, <2>1, <2>2, <2>6 DEF Convert, RenderedSoFar
    <2>8. bitmaps' = {}
        BY <1>0, <1>12 DEF Convert, NativeMemory
    <2>9. TypeOK'
        <3>1. rendered' \in Seq(Pages)
            BY <1>0, <2>1 DEF TypeOK
        <3>2. index' \in 0 .. Len(upload.pages) + 1
            BY <1>p, <2>1
        <3> QED
            BY <1>0, <1>12, <1>p, <1>u, <2>8, <3>1, <3>2 DEF Convert, TypeOK
    <2> QED
        BY <1>0, <1>12, <1>p, <2>1, <2>7, <2>8, <2>9
        DEF Convert, IInv, ReadSoFar, NativeMemory, Unreturned, ResultLists, NoResult
<1>13. CASE ConvertRaises
    <2>1. bitmaps' = {}
        BY <1>0, <1>13 DEF ConvertRaises, NativeMemory
    <2> QED
        BY <1>0, <1>13, <2>1, ErrorKeepsInvariant DEF ConvertRaises
<1>14. CASE FinishImages
    <2>1. /\ pc = "rendering" /\ pc' = "done" /\ result' = Image(rendered) /\ ~WithinCap
          /\ index <= RasterMaxPages + 1 /\ TextPages = {}
          /\ Lists(rendered, {p \in Pages : p < index})
        BY <1>0, <1>14 DEF FinishImages, Return, RenderedSoFar
    <2>2. index \in 0 .. Len(upload.pages) + 1 /\ index >= 1
        BY <1>0, <2>1 DEF TypeOK, RenderedSoFar
    <2>3. {p \in Pages : p < index} = {p \in Pages : p <= RasterMaxPages}
        BY <1>p, <1>r, <2>1, <2>2 DEF WithinCap
    <2>4. result'.mode = "image" /\ Lists(result'.images, {p \in Pages : p <= RasterMaxPages})
        BY <2>1, <2>3 DEF Image
    <2>5. TypeOK'
        BY <1>0, <1>14, <1>p, <1>u, <2>1, <2>4 DEF FinishImages, TypeOK
    <2>6. bitmaps' = {} /\ doc' = "closed"
        BY <1>0, <1>14 DEF FinishImages, NativeMemory
    <2> QED
        BY <1>p, <2>1, <2>4, <2>5, <2>6
        DEF IInv, ReadSoFar, RenderedSoFar, NativeMemory, Unreturned, ResultLists
<1>15. CASE OpensRaises
    BY <1>0, <1>15, ErrorKeepsInvariant DEF OpensRaises, NativeMemory, TypeOK
<1>16. CASE LoadRaises
    BY <1>0, <1>16, ErrorKeepsInvariant DEF LoadRaises, NativeMemory, TypeOK
<1> QED
    BY <1>1, <1>2, <1>3, <1>4, <1>5, <1>6, <1>7, <1>8, <1>9, <1>10, <1>11, <1>12, <1>13, <1>14,
       <1>15, <1>16
    DEF Next, Process, Finished, vars

\* The invariant holds of the reading.
THEOREM Invariance == Spec => []IInv
<1> QED
    BY InitInvariant, NextInvariant, PTL DEF Spec

\* A document request reads its upload the way the reading alone does: the
\* extraction behind it leaves the upload and what was made of it as they are.
THEOREM RequestReads == RequestSpec => Spec
<1>1. RequestInit => Init
    BY DEF RequestInit
<1>2. [RequestNext]_<<vars, loopVars>> => [Next]_vars
    BY DEF RequestNext, ReadUpload, Extract, RequestEnded, Next
<1> QED
    BY <1>1, <1>2, PTL DEF RequestSpec, Spec

\* The variables have their types throughout a request.
THEOREM TypeCorrect == RequestSpec => []TypeOK
<1>1. IInv => TypeOK
    BY DEF IInv
<1> QED
    BY <1>1, Invariance, RequestReads, PTL

\* The text of a PDF is all of its text: every page that has any, in order,
\* whatever the pages between them do.
THEOREM TextComplete == RequestSpec => []TextIsComplete
<1>1. IInv => TextIsComplete
    BY DEF IInv, ResultLists, TextIsComplete, Lists, TextPages
<1> QED
    BY <1>1, Invariance, RequestReads, PTL

\* The images of a PDF are its first pages up to the cap, and none of its pages
\* has text.
THEOREM ImagesFirst == RequestSpec => []ImagesAreFirstPages
<1>1. IInv => ImagesAreFirstPages
    <2> SUFFICES ASSUME IInv, result.mode = "image", upload.kind = "pdf"
                 PROVE  /\ \A p \in Pages : upload.pages[p].chars = 0
                        /\ Increasing(result.images)
                        /\ Range(result.images) = {p \in Pages : p <= RasterMaxPages}
        BY DEF ImagesAreFirstPages
    <2>1. upload \in Upload /\ TextPages = {}
        BY DEF IInv, TypeOK, ResultLists
    <2>2. ASSUME NEW p \in Pages PROVE upload.pages[p].chars = 0
        <3>1. upload.pages[p] \in Page
            BY <2>1, PagesAreSequence
        <3>2. upload.pages[p].chars \in Nat
            BY <3>1, UploadAssumption DEF Page
        <3> QED
            BY <2>1, <3>2 DEF TextPages
    <2> QED
        BY <2>2 DEF IInv, ResultLists, Lists
<1> QED
    BY <1>1, Invariance, RequestReads, PTL

\* PDFium's document and bitmaps are closed on every way out of the upload,
\* exceptions that nobody maps included.
THEOREM NoLeak == RequestSpec => []NothingLeaks
<1>1. IInv => NothingLeaks
    <2> SUFFICES ASSUME IInv PROVE NothingLeaks
        OBVIOUS
    <2>1. Cardinality({index}) = 1
        BY FS_Singleton
    <2> QED
        BY <2>1 DEF IInv, NativeMemory, NothingLeaks
<1> QED
    BY <1>1, Invariance, RequestReads, PTL

----------------------------------------------------------------------------
(***************************************************************************)
(* The reading comes to an end: every step of it uses up some of a finite  *)
(* amount of work, one step for a page whose text is read and two for one  *)
(* that is rendered.                                                       *)
(***************************************************************************)
Work ==
    IF pc = "received" THEN 3 * Len(upload.pages) + 4
    ELSE IF pc = "reading" THEN 3 * Len(upload.pages) + 4 - index
    ELSE IF pc = "rendering" THEN 2 * (Len(upload.pages) + 1 - index) + 1
    ELSE IF pc = "converting" THEN 2 * (Len(upload.pages) + 1 - index)
    ELSE 0

\* There are no more steps than that for the longest PDF.
LEMMA WorkIsFinite == IInv => Work \in 0 .. 3 * MaxPages + 4
<1> SUFFICES ASSUME IInv PROVE Work \in 0 .. 3 * MaxPages + 4
    OBVIOUS
<1>1. /\ Len(upload.pages) \in Nat /\ MaxPages \in Nat /\ Len(upload.pages) <= MaxPages
      /\ index \in 0 .. Len(upload.pages) + 1
      /\ pc \in {"received", "reading", "rendering", "converting", "done"}
    BY PagesAreSequence, UploadAssumption DEF IInv, TypeOK
<1> QED
    BY <1>1 DEF Work

\* Every step of an upload that is being read brings its end nearer.
LEMMA ReadingUsesWork == IInv /\ [Next]_vars => [Work' < Work]_vars
<1> SUFFICES ASSUME IInv, [Next]_vars, vars' # vars PROVE Work' < Work
    OBVIOUS
<1> DEFINE n == Len(upload.pages)
<1>u. upload' = upload
    BY DEF Next, Process, Finished, vars, Refuse, OpensRaises, ProcessImage, ProcessPdf,
       PagesRaise, ReadPage, FinishText, OpenDocument, OpenRaises, LoadRaises, Render,
       RenderRaises, Convert, ConvertRaises, FinishImages
<1>1. /\ n \in Nat /\ n' = n /\ Pages = 1 .. n /\ index \in 0 .. n + 1
      /\ pc \in {"received", "reading", "rendering", "converting", "done"}
      /\ pc = "converting" => index \in Pages
    BY <1>u, PagesAreSequence DEF IInv, TypeOK, RenderedSoFar, WithinCap
<1>2. Work = IF pc = "received" THEN 3 * n + 4
             ELSE IF pc = "reading" THEN 3 * n + 4 - index
             ELSE IF pc = "rendering" THEN 2 * (n + 1 - index) + 1
             ELSE IF pc = "converting" THEN 2 * (n + 1 - index)
             ELSE 0
    BY DEF Work
<1>3. Work' = IF pc' = "received" THEN 3 * n + 4
              ELSE IF pc' = "reading" THEN 3 * n + 4 - index'
              ELSE IF pc' = "rendering" THEN 2 * (n + 1 - index') + 1
              ELSE IF pc' = "converting" THEN 2 * (n + 1 - index')
              ELSE 0
    BY <1>u DEF Work
<1> HIDE DEF n
<1>4. ASSUME pc # "done", pc' = "done" PROVE Work' < Work
    <2>1. Work' = 0
        BY <1>3, <1>4
    <2>2. Work \in Nat /\ Work > 0
        BY <1>1, <1>2, <1>4
    <2> QED
        BY <2>1, <2>2
<1>5. CASE \/ Refuse \/ OpensRaises \/ ProcessImage \/ PagesRaise \/ FinishText
           \/ OpenRaises \/ LoadRaises \/ RenderRaises \/ ConvertRaises \/ FinishImages
    <2>1. pc # "done" /\ pc' = "done"
        BY <1>5 DEF Refuse, OpensRaises, ProcessImage, PagesRaise, FinishText, OpenRaises,
               LoadRaises, RenderRaises, ConvertRaises, FinishImages, Return
    <2> QED
        BY <1>4, <2>1
<1>6. CASE ProcessPdf
    <2>1. pc = "received" /\ pc' = "reading" /\ index' = 1
        BY <1>6 DEF ProcessPdf
    <2> QED
        BY <1>1, <1>2, <1>3, <2>1
<1>7. CASE ReadPage
    <2>1. pc = "reading" /\ pc' = "reading" /\ index' = index + 1
        BY <1>7 DEF ReadPage
    <2> QED
        BY <1>1, <1>2, <1>3, <2>1
<1>8. CASE OpenDocument
    <2>1. pc = "reading" /\ pc' = "rendering" /\ index' = 1
        BY <1>8 DEF OpenDocument
    <2> QED
        BY <1>1, <1>2, <1>3, <2>1
<1>9. CASE Render
    <2>1. pc = "rendering" /\ pc' = "converting" /\ index' = index
        BY <1>9 DEF Render
    <2> QED
        BY <1>1, <1>2, <1>3, <2>1
<1>10. CASE Convert
    <2>1. pc = "converting" /\ pc' = "rendering" /\ index' = index + 1
        BY <1>10 DEF Convert
    <2> QED
        BY <1>1, <1>2, <1>3, <2>1
<1> QED
    BY <1>5, <1>6, <1>7, <1>8, <1>9, <1>10 DEF Next, Process, Finished, vars
=============================================================================

--------------------------- MODULE DocumentUpload ---------------------------
(***************************************************************************)
(* process_upload: what POST /extract/document makes of an upload before   *)
(* the extraction.  A PDF is read page by page with pypdf; when no page    *)
(* has text its first pages are rendered with PDFium, whose document and   *)
(* bitmaps are native memory that has to be closed on every way out.       *)
(***************************************************************************)
EXTENDS Naturals, SequencesExt, FiniteSetsExt

CONSTANTS MaxPages,        \* pages of the PDFs considered
          MaxPageChars,    \* characters pypdf finds on one page, at most
          MaxDocumentTextChars,
          RasterMaxPages

ASSUME UploadAssumption ==
    /\ MaxPages \in Nat /\ MaxPageChars \in Nat
    /\ MaxDocumentTextChars \in Nat
    /\ RasterMaxPages \in Nat \ {0}

\* A page: the characters of its text (0 when there is none but white space,
\* or extract_text raises, which the code takes for none), and how rendering
\* it ends - "other" is an exception that is not a PdfiumError.
Page == [chars : 0 .. MaxPageChars, renders : {"ok", "PdfiumError", "other"}]

\* An upload of a supported type and size, or not.  opens: Pillow or PdfReader
\* accepts it, refuses it with an exception that process_upload expects of it,
\* or raises another one - Pillow a DecompressionBombError, say.
Upload == [kind : {"oversized", "unsupported", "image", "pdf"},
           opens : {"ok", "refused", "other"},
           pages : SeqOf(Page, MaxPages)]

VARIABLES upload,
          pc,         \* "received", "reading", "rendering", "converting", "done"
          index,      \* the loop variable of the two page loops
          textParts,  \* pages whose text is kept, in text_parts
          doc,        \* the PDFium document: "none", "open" or "closed"
          bitmaps,    \* PDFium bitmaps that are open
          rendered,   \* pages in rendered
          result

vars == <<upload, pc, index, textParts, doc, bitmaps, rendered, result>>

NoResult  == [mode |-> "none"]
Error(e)  == [mode |-> "error", error |-> e]
Text(ps)  == [mode |-> "text", parts |-> ps]
Image(ps) == [mode |-> "image", images |-> ps]

Pages == DOMAIN upload.pages

Init ==
    /\ upload \in Upload
    /\ upload.kind # "pdf" => upload.pages = <<>>
    /\ pc = "received" /\ index = 0
    /\ textParts = <<>> /\ rendered = <<>>
    /\ doc = "none" /\ bitmaps = {}
    /\ result = NoResult

Return(r) == pc' = "done" /\ result' = r

\* Too large, not a supported type, or not what its type says.
Refuse ==
    /\ pc = "received"
    /\ upload.kind \in {"oversized", "unsupported"} \/ upload.opens = "refused"
    /\ Return(Error("UnsupportedDocumentError"))
    /\ UNCHANGED <<upload, index, textParts, doc, bitmaps, rendered>>

\* Neither except clause names what is raised: it leaves process_upload.
OpensRaises ==
    /\ pc = "received"
    /\ upload.kind \in {"image", "pdf"} /\ upload.opens = "other"
    /\ Return(Error("other"))
    /\ UNCHANGED <<upload, index, textParts, doc, bitmaps, rendered>>

\* An image goes to the vision path as it came.
ProcessImage ==
    /\ pc = "received"
    /\ upload.kind = "image" /\ upload.opens = "ok"
    /\ Return(Image(<<1>>))
    /\ UNCHANGED <<upload, index, textParts, doc, bitmaps, rendered>>

ProcessPdf ==
    /\ pc = "received"
    /\ upload.kind = "pdf" /\ upload.opens = "ok"
    /\ pc' = "reading" /\ index' = 1
    /\ UNCHANGED <<upload, textParts, doc, bitmaps, rendered, result>>

\* Walking reader.pages raises, outside the try: an encrypted PDF, say.
PagesRaise ==
    /\ pc = "reading" /\ (index = 1 \/ index \in Pages)
    /\ Return(Error("PdfReadError"))
    /\ UNCHANGED <<upload, index, textParts, doc, bitmaps, rendered>>

\* Mutant: a page without text ends the text.
ReadPageUntilBlank ==
    /\ pc = "reading" /\ index \in Pages
    /\ index' = IF upload.pages[index].chars > 0 THEN index + 1 ELSE Len(upload.pages) + 1
    /\ textParts' = IF upload.pages[index].chars > 0 THEN Append(textParts, index)
                                                     ELSE textParts
    /\ UNCHANGED <<upload, pc, doc, bitmaps, rendered, result>>

\* Mutant: pages are numbered from zero.
ReadPageFromZero ==
    /\ pc = "reading" /\ index \in Pages
    /\ index' = index + 1
    /\ textParts' = IF upload.pages[index].chars > 0 THEN Append(textParts, index - 1)
                                                     ELSE textParts
    /\ UNCHANGED <<upload, pc, doc, bitmaps, rendered, result>>

ReadPage ==
    /\ pc = "reading" /\ index \in Pages
    /\ index' = index + 1
    /\ textParts' = IF upload.pages[index].chars > 0 THEN Append(textParts, index)
                                                     ELSE textParts
    /\ UNCHANGED <<upload, pc, doc, bitmaps, rendered, result>>

\* The parts are joined by two line feeds.
JoinedLength(ps) ==
    FoldLeft(LAMBDA n, p : n + upload.pages[p].chars, 0, ps) + 2 * (Len(ps) - 1)

FinishText ==
    /\ pc = "reading" /\ index > Len(upload.pages)
    /\ textParts # <<>>
    /\ Return(IF JoinedLength(textParts) > MaxDocumentTextChars
              THEN Error("UnsupportedDocumentError")
              ELSE Text(textParts))
    /\ UNCHANGED <<upload, index, textParts, doc, bitmaps, rendered>>

\* _rasterize_pdf opens the file with PDFium ...
OpenDocument ==
    /\ pc = "reading" /\ index > Len(upload.pages)
    /\ textParts = <<>>
    /\ pc' = "rendering" /\ index' = 1
    /\ doc' = "open"
    /\ UNCHANGED <<upload, textParts, bitmaps, rendered, result>>

\* ... which may refuse it.
OpenRaises ==
    /\ pc = "reading" /\ index > Len(upload.pages)
    /\ textParts = <<>>
    /\ Return(Error("UnsupportedDocumentError"))
    /\ UNCHANGED <<upload, index, textParts, doc, bitmaps, rendered>>

\* Mutant: the page cap is off by one.
WithinCapOffByOne == index \in Pages /\ index <= RasterMaxPages + 1

WithinCap == index \in Pages /\ index <= RasterMaxPages

\* The loop loads a page before it looks at the cap: one that does not load
\* refuses the upload, the first one beyond the cap included.
LoadRaises ==
    /\ pc = "rendering" /\ index \in Pages
    /\ Return(Error("UnsupportedDocumentError"))
    /\ doc' = "closed"
    /\ UNCHANGED <<upload, index, textParts, bitmaps, rendered>>

Render ==
    /\ pc = "rendering" /\ WithinCap
    /\ upload.pages[index].renders # "PdfiumError"
    /\ pc' = "converting"
    /\ bitmaps' = bitmaps \cup {index}
    /\ UNCHANGED <<upload, index, textParts, doc, rendered, result>>

\* All or nothing: a page that does not render refuses the upload.
RenderRaises ==
    /\ pc = "rendering" /\ WithinCap
    /\ upload.pages[index].renders = "PdfiumError"
    /\ Return(Error("UnsupportedDocumentError"))
    /\ doc' = "closed"
    /\ UNCHANGED <<upload, index, textParts, bitmaps, rendered>>

\* to_pil and save; bitmap.close().
Convert ==
    /\ pc = "converting"
    /\ upload.pages[index].renders = "ok"
    /\ pc' = "rendering" /\ index' = index + 1
    /\ rendered' = Append(rendered, index)
    /\ bitmaps' = bitmaps \ {index}
    /\ UNCHANGED <<upload, textParts, doc, result>>

\* Mutant: the bitmap is closed only when the page has been saved.
ConvertRaisesOpen ==
    /\ pc = "converting"
    /\ upload.pages[index].renders = "other"
    /\ Return(Error("other"))
    /\ doc' = "closed"
    /\ UNCHANGED <<upload, index, textParts, bitmaps, rendered>>

\* Both finally clauses run; the exception is none that the route maps.
ConvertRaises ==
    /\ pc = "converting"
    /\ upload.pages[index].renders = "other"
    /\ Return(Error("other"))
    /\ bitmaps' = bitmaps \ {index}
    /\ doc' = "closed"
    /\ UNCHANGED <<upload, index, textParts, rendered>>

FinishImages ==
    /\ pc = "rendering" /\ ~WithinCap
    /\ Return(Image(rendered))
    /\ doc' = "closed"
    /\ UNCHANGED <<upload, index, textParts, bitmaps, rendered>>

Finished == pc = "done" /\ UNCHANGED vars

Process ==
    \/ Refuse \/ OpensRaises \/ ProcessImage \/ ProcessPdf \/ PagesRaise \/ ReadPage
    \/ FinishText \/ OpenDocument \/ OpenRaises \/ LoadRaises \/ Render \/ RenderRaises
    \/ Convert \/ ConvertRaises \/ FinishImages

Next == Process \/ Finished

Spec == Init /\ [][Next]_vars

----------------------------------------------------------------------------
Increasing(s) == \A i, j \in DOMAIN s : i < j => s[i] < s[j]

\* The type of every variable.
TypeOK ==
    /\ upload \in Upload
    /\ pc \in {"received", "reading", "rendering", "converting", "done"}
    /\ index \in 0 .. Len(upload.pages) + 1
    /\ textParts \in Seq(Pages) /\ rendered \in Seq(Pages)
    /\ doc \in {"none", "open", "closed"}
    /\ bitmaps \in SUBSET Pages
    /\ result.mode \in {"none", "error", "text", "image"}

\* The text path gets the text of every page that has any, in page order,
\* blank and unreadable pages between them or not.
TextIsComplete ==
    result.mode = "text" =>
        /\ Increasing(result.parts)
        /\ Range(result.parts) = {p \in Pages : upload.pages[p].chars > 0}

\* A PDF reaches the vision path only when no page has text, and as its first
\* pages up to the cap, all of them, in order.
ImagesAreFirstPages ==
    result.mode = "image" /\ upload.kind = "pdf" =>
        /\ \A p \in Pages : upload.pages[p].chars = 0
        /\ Increasing(result.images)
        /\ Range(result.images) = {p \in Pages : p <= RasterMaxPages}

\* No way out leaks native memory: one bitmap is open at a time, within an
\* open document, and none of either after the return.
NothingLeaks ==
    /\ bitmaps # {} => doc = "open" /\ Cardinality(bitmaps) = 1
    /\ pc = "done" => doc # "open"
=============================================================================

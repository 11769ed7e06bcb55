----------------------------- MODULE StoredFiles -----------------------------
(***************************************************************************)
(* Files in the storage bucket and the rows that point to them: worker     *)
(* documents (documents-service/service.js), documents and templates of    *)
(* requests (request-service).  The storage is not part of a transaction:  *)
(* a file and its row are written one after the other, and the handler may *)
(* fail or stop in between.                                                *)
(*                                                                         *)
(* One worker and one document type; sizes, names and types of files are   *)
(* left out.  A path holds the id of its row and the hash of the content,  *)
(* or a name drawn for it: two rows never build the same path.             *)
(***************************************************************************)
EXTENDS FiniteSets

CONSTANTS
  DocumentIds,     \* ids of worker_documents
  Contents,        \* content_sha256
  RequestDocuments,\* ids of request_documents
  Templates,       \* ids of request_templates
  FileHandlers,
  Resend,          \* whether a content may be sent again for the same document
  NoPath,
  NoDocument       \* no row, or one with deleted_at

Final       == {"approved", "generated", "signed"}
Replaceable == {"missing", "pending", "observed", "rejected"}
Reviewed    == {"approved", "rejected", "observed"}

Paths == (DocumentIds \X Contents) \cup (Templates \X Contents)
         \cup {<<q, "pdf">> : q \in RequestDocuments}

DocumentRows == [status : Final \cup Replaceable, path : Paths \cup {NoPath}]

\* The paths of the three tables begin apart.
ASSUME StoredFilesAssumption ==
  /\ Resend \in BOOLEAN /\ NoPath \notin Paths /\ NoDocument \notin DocumentRows
  /\ DocumentIds \cap (RequestDocuments \cup Templates) = {}

VARIABLES
  workerDocuments, \* worker_documents
  used,            \* ids of worker_documents that were drawn
  requestDocs,     \* request_documents: the rows
  drawn,           \* ids of request_documents that were drawn
  templates,       \* request_templates: file_path
  storage,         \* the bucket
  sent,            \* history: the pairs of document and content that were sent
  doing            \* what each handler has read and is about to do

filesVars ==
  <<workerDocuments, used, requestDocs, drawn, templates, storage, sent, doing>>

Resting == [pc |-> "idle"]

FileWork ==
  {Resting}
  \cup [pc : {"store", "write", "undo", "cleanup"}, doc : DocumentIds, path : Paths,
        old : Paths \cup {NoPath}, new : BOOLEAN]
  \cup [pc : {"delete", "unlink"}, doc : DocumentIds, path : Paths \cup {NoPath}]
  \cup [pc : {"attach", "enter", "mirror", "detach", "erase"}, doc : RequestDocuments,
        status : {"generated", "signed", "attached"}]
  \cup [pc : {"template"}, template : Templates, path : Paths \cup {NoPath}]

StoredFilesTypeOK ==
  /\ workerDocuments \in [DocumentIds -> DocumentRows \cup {NoDocument}]
  /\ used \subseteq DocumentIds
  /\ requestDocs \subseteq RequestDocuments /\ drawn \subseteq RequestDocuments
  /\ templates \in [Templates -> Paths \cup {NoPath}]
  /\ storage \subseteq Paths
  /\ sent \subseteq DocumentIds \X Contents
  /\ doing \in [FileHandlers -> FileWork]

Live == {d \in DocumentIds : workerDocuments[d] # NoDocument}

Then(h, next) == doing' = [doing EXCEPT ![h] = next]

\* uq_worker_documents_company_content_sha256, over the rows that are not deleted.
Duplicate(d, c) ==
  \E other \in Live \ {d} : \E o \in DocumentIds : workerDocuments[other].path = <<o, c>>

-------------------------------------------------------------------------------
(* worker_documents *)

\* createRequiredDocuments, at the onboarding of the worker.
RequireDocument(d) ==
  /\ d \notin used
  /\ \A l \in Live : workerDocuments[l].status \notin {"missing", "pending", "observed"}
  /\ used' = used \cup {d}
  /\ workerDocuments' =
       [workerDocuments EXCEPT ![d] = [status |-> "missing", path |-> NoPath]]
  /\ UNCHANGED <<requestDocs, drawn, templates, storage, sent, doing>>

\* findReplaceableRequirement: documents asked for that have no file yet.
Requirements ==
  {d \in Live : /\ workerDocuments[d].path = NoPath
                /\ workerDocuments[d].status \in Replaceable}

\* uploadDocument up to the duplicate check: of the document named, of a requirement,
\* or a new one; the row of the database is read once.
UploadRead(h, d, c, named) ==
  /\ doing[h] = Resting
  /\ \/ named /\ d \in Live
     \/ ~named /\ d \in Requirements
     \/ ~named /\ Requirements = {} /\ d \notin used
  /\ d \in Live => /\ workerDocuments[d].status \in Replaceable
                   /\ workerDocuments[d].path # <<d, c>>
  /\ ~Duplicate(d, c)
  /\ Resend \/ <<d, c>> \notin sent
  /\ used' = used \cup {d}
  /\ sent' = sent \cup {<<d, c>>}
  /\ Then(h, [pc |-> "store", doc |-> d, path |-> <<d, c>>, new |-> d \notin Live,
              old |-> IF d \in Live THEN workerDocuments[d].path ELSE NoPath])
  /\ UNCHANGED <<workerDocuments, requestDocs, drawn, templates, storage>>

StoreUploadInPlace(h) ==                                    \* faulty variant
  /\ doing[h].pc = "store"
  /\ storage' = (storage \ {doing[h].old}) \cup {doing[h].path}
  /\ Then(h, [doing[h] EXCEPT !.pc = "write"])
  /\ UNCHANGED <<workerDocuments, used, requestDocs, drawn, templates, sent>>

StoreUpload(h) ==
  /\ doing[h].pc = "store"
  /\ storage' = storage \cup {doing[h].path}
  /\ Then(h, [doing[h] EXCEPT !.pc = "write"])
  /\ UNCHANGED <<workerDocuments, used, requestDocs, drawn, templates, sent>>

\* The row: an UPDATE by id, which leaves deleted_at as it is, or an INSERT.  The
\* unique index, or the database, may refuse it.
WriteUpload(h) ==
  LET w == doing[h]
      row == [status |-> "pending", path |-> w.path]
  IN
  /\ w.pc = "write"
  /\ \/ /\ w.new \/ w.doc \in Live => ~Duplicate(w.doc, w.path[2])
        /\ workerDocuments' =
             [workerDocuments EXCEPT ![w.doc] = IF w.new \/ w.doc \in Live THEN row ELSE @]
        /\ Then(h, IF w.old \in {NoPath, w.path} THEN Resting
                   ELSE [w EXCEPT !.pc = "cleanup"])
     \/ /\ Then(h, [w EXCEPT !.pc = "undo"])
        /\ UNCHANGED workerDocuments
  /\ UNCHANGED <<used, requestDocs, drawn, templates, storage, sent>>

\* The file of a refused row, or the one the new file replaces.  The winner of the
\* index is another row, which has another path.
RemoveFile(h) ==
  LET w == doing[h] IN
  /\ w.pc \in {"undo", "cleanup"}
  /\ storage' = storage \ {IF w.pc = "undo" THEN w.path ELSE w.old}
  /\ Then(h, Resting)
  /\ UNCHANGED <<workerDocuments, used, requestDocs, drawn, templates, sent>>

\* reviewDocument asks for a row that is not deleted; its UPDATE asks again.
ReviewDocument(d, s) ==
  /\ d \in Live
  /\ workerDocuments' = [workerDocuments EXCEPT ![d].status = s]
  /\ UNCHANGED <<used, requestDocs, drawn, templates, storage, sent, doing>>

\* deleteDocument: the status and the path that were read decide.
DeleteDocumentRead(h, d) ==
  /\ doing[h] = Resting
  /\ d \in Live
  /\ workerDocuments[d].status \notin Final
  /\ Then(h, [pc |-> "delete", doc |-> d, path |-> workerDocuments[d].path])
  /\ UNCHANGED <<workerDocuments, used, requestDocs, drawn, templates, storage, sent>>

DeleteDocumentWrite(h) ==
  /\ doing[h].pc = "delete"
  /\ workerDocuments' = [workerDocuments EXCEPT ![doing[h].doc] = NoDocument]
  /\ Then(h, IF doing[h].path = NoPath THEN Resting ELSE [doing[h] EXCEPT !.pc = "unlink"])
  /\ UNCHANGED <<used, requestDocs, drawn, templates, storage, sent>>

DeleteDocumentFile(h) ==
  /\ doing[h].pc = "unlink"
  /\ storage' = storage \ {doing[h].path}
  /\ Then(h, Resting)
  /\ UNCHANGED <<workerDocuments, used, requestDocs, drawn, templates, sent>>

-------------------------------------------------------------------------------
(* request_documents: generateRequestDocument, uploadSignedDocument, uploadDocument *)

BeginRequestDocument(h, q, s) ==
  /\ doing[h] = Resting
  /\ q \notin drawn
  /\ drawn' = drawn \cup {q}
  /\ Then(h, [pc |-> "attach", doc |-> q, status |-> s])
  /\ UNCHANGED <<workerDocuments, used, requestDocs, templates, storage, sent>>

StoreRequestDocument(h) ==
  /\ doing[h].pc = "attach"
  /\ storage' = storage \cup {<<doing[h].doc, "pdf">>}
  /\ Then(h, [doing[h] EXCEPT !.pc = "enter"])
  /\ UNCHANGED <<workerDocuments, used, requestDocs, drawn, templates, sent>>

EnterRequestDocument(h) ==
  /\ doing[h].pc = "enter"
  /\ requestDocs' = requestDocs \cup {doing[h].doc}
  /\ Then(h, IF doing[h].status = "attached" THEN Resting
             ELSE [doing[h] EXCEPT !.pc = "mirror"])
  /\ UNCHANGED <<workerDocuments, used, drawn, templates, storage, sent>>

\* #registerWorkerDocumentForRequest
MirrorRequestDocument(h, d) ==
  /\ doing[h].pc = "mirror"
  /\ d \notin used
  /\ used' = used \cup {d}
  /\ workerDocuments' = [workerDocuments EXCEPT ![d] =
       [status |-> doing[h].status, path |-> <<doing[h].doc, "pdf">>]]
  /\ Then(h, Resting)
  /\ UNCHANGED <<requestDocs, drawn, templates, storage, sent>>

\* deleteDocument of request_documents: the file first, then the row; the mirror stays.
DeleteRequestDocument(h, q) ==
  \/ /\ doing[h] = Resting
     /\ q \in requestDocs
     /\ Then(h, [pc |-> "detach", doc |-> q, status |-> "attached"])
     /\ UNCHANGED <<requestDocs, storage>>
  \/ /\ doing[h].pc = "detach" /\ doing[h].doc = q
     /\ storage' \in {storage, storage \ {<<q, "pdf">>}}
     /\ Then(h, [doing[h] EXCEPT !.pc = "erase"])
     /\ UNCHANGED requestDocs
  \/ /\ doing[h].pc = "erase" /\ doing[h].doc = q
     /\ requestDocs' = requestDocs \ {q}
     /\ Then(h, Resting)
     /\ UNCHANGED storage

RequestDocumentDeletion(h, q) ==
  /\ DeleteRequestDocument(h, q)
  /\ UNCHANGED <<workerDocuments, used, drawn, templates, sent>>

-------------------------------------------------------------------------------
(* request_templates *)

\* The name of a file is drawn for it.
NewPath(t, c) ==
  /\ <<t, c>> \notin storage
  /\ templates[t] # <<t, c>>
  /\ \A h \in FileHandlers :
       doing[h].pc = "template" => doing[h].path # <<t, c>>

\* createTemplate, and updateTemplate with a file: the file of the row that was read
\* goes before the new one is stored.
StoreTemplate(h, t, c) ==
  /\ doing[h] = Resting
  /\ NewPath(t, c)
  /\ storage' \in {storage \cup {<<t, c>>}, (storage \ {templates[t]}) \cup {<<t, c>>}}
  /\ Then(h, [pc |-> "template", template |-> t, path |-> <<t, c>>])
  /\ UNCHANGED <<workerDocuments, used, requestDocs, drawn, templates, sent>>

\* The new file is refused, and the old one is gone.
StoreTemplateFails(h, t) ==
  /\ doing[h] = Resting
  /\ templates[t] # NoPath
  /\ storage' = storage \ {templates[t]}
  /\ UNCHANGED <<workerDocuments, used, requestDocs, drawn, templates, sent, doing>>

WriteTemplate(h) ==
  /\ doing[h].pc = "template"
  /\ templates' = [templates EXCEPT ![doing[h].template] = doing[h].path]
  /\ Then(h, Resting)
  /\ UNCHANGED <<workerDocuments, used, requestDocs, drawn, storage, sent>>

-------------------------------------------------------------------------------
\* A call to the storage or to the database fails, or the process stops.
Interrupted(h) ==
  /\ doing[h] # Resting
  /\ Then(h, Resting)
  /\ UNCHANGED <<workerDocuments, used, requestDocs, drawn, templates, storage, sent>>

StoredFilesInit ==
  /\ workerDocuments = [d \in DocumentIds |-> NoDocument] /\ used = {}
  /\ requestDocs = {} /\ drawn = {}
  /\ templates = [t \in Templates |-> NoPath]
  /\ storage = {} /\ sent = {}
  /\ doing = [h \in FileHandlers |-> Resting]

DocumentsNext ==
  \/ \E d \in DocumentIds : RequireDocument(d) \/ \E s \in Reviewed : ReviewDocument(d, s)
  \/ \E h \in FileHandlers :
       \/ \E d \in DocumentIds :
            \/ \E c \in Contents, named \in BOOLEAN : UploadRead(h, d, c, named)
            \/ DeleteDocumentRead(h, d) \/ MirrorRequestDocument(h, d)
       \/ StoreUpload(h) \/ WriteUpload(h) \/ RemoveFile(h)
       \/ DeleteDocumentWrite(h) \/ DeleteDocumentFile(h)
       \/ \E q \in RequestDocuments :
            \/ \E s \in {"generated", "signed", "attached"} : BeginRequestDocument(h, q, s)
            \/ RequestDocumentDeletion(h, q)
       \/ StoreRequestDocument(h) \/ EnterRequestDocument(h)
       \/ Interrupted(h)

\* No document has the path of a template: the two parts meet in nothing.
TemplatesNext ==
  \E h \in FileHandlers :
    \/ \E t \in Templates : StoreTemplateFails(h, t) \/ \E c \in Contents : StoreTemplate(h, t, c)
    \/ WriteTemplate(h)
    \/ Interrupted(h)

StoredFilesNext == DocumentsNext \/ TemplatesNext

-------------------------------------------------------------------------------
\* A document of a worker that was uploaded and not deleted has its file in the
\* storage, whatever step of an upload, a replacement or a deletion failed.
FileBehindDocument ==
  \A d \in Live : workerDocuments[d].path \in DocumentIds \X Contents
                    => workerDocuments[d].path \in storage
===============================================================================

-------------------------- MODULE DocumentService --------------------------
(***************************************************************************)
(* The handlers implement DocumentStore: a URI names the same document for *)
(* every method and every route, what is below one directory.              *)
(***************************************************************************)
EXTENDS MethodHandler

CONSTANT Top  \* the path of that directory

\* A request names what is below Top, or its upload.
Place(r)  == IF r.method = "POST" THEN UploadPath(r) ELSE Top \o r.uri.names
Index(r)  == Place(r) \o r.route.index
Script(r) == Top \o r.uri.names

\* A DELETE goes on when the path was seen to be no directory.
\* A short body is still in the buffer of the stream at the close; a long one was
\* written before.
Stage ==
    CASE at \in {"fileExists", "canDelete", "remove"} /\ request.method = "DELETE" -> "checked"
      [] at = "write" -> IF linked THEN "replacing" ELSE "written"
      [] at = "close" -> IF linked /\ request.body.kind = "short" THEN "replacing" ELSE "written"
      [] OTHER -> "none"

Documents == INSTANCE DocumentStore WITH store <- tree, stage <- Stage

\* Seen from outside, the handlers do what DocumentStore allows, one system call
\* at a time and with other processes in between.
ImplementsStore == Documents!Spec
=============================================================================

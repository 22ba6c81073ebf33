----------------------------- MODULE RouteConfig ----------------------------
(***************************************************************************)
(* RouteConfig: what holds for a request, from a server block and, if one  *)
(* matches, its location block: <<l>>, and <<>> for none.                  *)
(***************************************************************************)
EXTENDS Sequences

ServerOnly(s, location, field) == s[field]                      \* mutation
\* An empty text in the location leaves it to the server.
Inherited(s, location, field) ==
    IF location # <<>> /\ location[1][field] # "" THEN location[1][field] ELSE s[field]

OfLocation(location, field, default) ==
    IF location # <<>> THEN location[1][field] ELSE default

getRoot(s, location)  == Inherited(s, location, "root")
getIndex(s, location) == Inherited(s, location, "index")
getAutoindex(location)      == OfLocation(location, "autoindex", FALSE)
\* As it is returned to the first caller
getAllowedMethods(location) == OfLocation(location, "methods", {})
\* getRedirect and getRedirectCode
getRedirect(location)       == OfLocation(location, "redirect", {})
getUploadStore(location)    == OfLocation(location, "upload_pass", "")
getCgiPass(location)        == OfLocation(location, "cgi_pass", {})
getErrorPages(s)  == s.error_pages
getMaxBodySize(s) == s.client_max_body_size
=============================================================================

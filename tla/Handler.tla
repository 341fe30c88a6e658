------------------------------- MODULE Handler -------------------------------
(***************************************************************************)
(* A complete request is answered without streaming: Server picks a route  *)
(* (match_route), forks a CGI or redirects to a trailing slash by itself,  *)
(* and leaves the rest to HTTPHandler, which works on the file system.     *)
(*                                                                         *)
(* A URI is a sequence of characters; where one route ends and the next    *)
(* path segment begins is decided by characters.  A file is named by the   *)
(* directory its route is rooted in, followed by path segments.            *)
(***************************************************************************)
EXTENDS Integers, Sequences, FiniteSets, SequencesExt, Functions

CONSTANTS
  Tables,      \* route tables the configuration may hold
  Uris,        \* request targets
  Methods,     \* methods, "GET", "HEAD", "POST", "DELETE" among them
  Payloads,    \* request bodies: content type, file name, content
  Lengths,     \* Content-Length values; 0 when the header is missing
  Tree,        \* the file system at the start: path -> node
  ErrorPages,  \* error_page directives: status -> path
  ServerMax,   \* client_max_body_size of the server
  Unreserved,  \* characters that stand for themselves in a URL
  MaxForms,    \* bound: how often form data is appended to one file
  MaxChanges   \* bound: how many files differ from those of Tree

(* Characters; a name that is compared as a whole is one character.  The   *)
(* strings of the source are among them.                                   *)
Char == STRING \cup {"/", "?", ".", "files", "index.html", "uploads", "form_data.txt"}

(* A location block.                                                       *)
Route == [path : Seq(Char), root : Seq(Char), index : Seq(Char), upload_store : Seq(Char),
          cgi : Seq(Char), autoindex : BOOLEAN, methods : SUBSET STRING, redirect : Nat,
          max : Nat, hasMax : BOOLEAN]

(* A name in a directory, as the kernel has it.                            *)
FileName(s) ==
  s \in Seq(Char) /\ s \notin {<<>>, <<".">>, <<".", ".">>} /\ \A i \in 1 .. Len(s) : s[i] # "/"

(* A word of the configuration is not empty.  A directory it names is one  *)
(* name here; a directive "root .." is left out.                           *)
ASSUME TablesAssumption ==
  \A t \in Tables :
    /\ t \in Seq(Route)
    /\ \A i \in 1 .. Len(t) :
         /\ t[i].path # <<>>
         /\ \A dir \in {t[i].root, t[i].index, t[i].upload_store} : dir = <<>> \/ FileName(dir)

ASSUME UrisAssumption == Uris \subseteq Seq(Char)

(* A node of the file system: what it is, who may read or write it, and    *)
(* what it contains.  A link into a directory that is not there is listed, *)
(* but not found, and nothing is created through it.                       *)
Node == [kind : {"file", "dir", "dangling"}, r : BOOLEAN, w : BOOLEAN, data : Seq(STRING)]

ASSUME TreeAssumption ==
  \A p \in DOMAIN Tree :
    /\ p \in Seq(Seq(Char)) /\ \A i \in 1 .. Len(p) : FileName(p[i])
    /\ Tree[p] \in Node

(* The name a form gives its file is what the client wrote: any characters.*)
ASSUME PayloadsAssumption ==
  Payloads \subseteq [type : {"multipart", "form", "other"}, name : Seq(Char), data : STRING]

ASSUME UnreservedAssumption == Unreserved \subseteq Char \ {"/", "?"}

VARIABLES routes, files, req, resp

vars == <<routes, files, req, resp>>

Dot == <<".">>
DotDot == <<".", ".">>

-----------------------------------------------------------------------------
(***************************************************************************)
(* Server::match_route.                                                    *)
(***************************************************************************)
(* Mutant: a prefix is enough.                                             *)
CoversAnyPrefix(path, uri) == IsPrefix(path, uri)

Covers(path, uri) ==
  /\ IsPrefix(path, uri)
  /\ \/ Len(uri) = Len(path)
     \/ uri[Len(path) + 1] = "/"
     \/ path = <<"/">>
     \/ Last(path) = "/"

(* The index of the chosen route, 0 for none.                              *)
match_route(uri) ==
  FoldLeft(LAMBDA best, i :
             IF /\ Covers(routes[i].path, uri)
                /\ Len(routes[i].path) > (IF best = 0 THEN 0 ELSE Len(routes[best].path))
             THEN i ELSE best,
           0, [i \in DOMAIN routes |-> i])

(* HTTPHandler: strip_query_string and strip_route_prefix.                 *)
strip_query_string(uri) ==
  LET q == {i \in DOMAIN uri : uri[i] = "?"}
  IN  IF q = {} THEN uri
      ELSE SubSeq(uri, 1, (CHOOSE i \in q : \A j \in q : i <= j) - 1)

strip_route_prefix(uri, path) ==
  LET rest == SubSeq(uri, Len(path) + 1, Len(uri))
  IN  IF path = <<"/">> \/ ~ IsPrefix(path, uri) THEN uri
      ELSE IF rest = <<>> \/ rest[1] # "/" THEN <<"/">> \o rest ELSE rest

(* Mutant: ".." is kept when there is nothing to pop.                      *)
keep_dotdot(segments, segment) ==
  CASE segment = DotDot -> IF segments = <<>> THEN <<DotDot>> ELSE Front(segments)
    [] segment \in {Dot, <<>>} -> segments
    [] OTHER -> Append(segments, segment)

process_path_segment(segments, segment) ==
  CASE segment = DotDot -> IF segments = <<>> THEN <<>> ELSE Front(segments)
    [] segment \in {Dot, <<>>} -> segments
    [] OTHER -> Append(segments, segment)

(* Mutant: what follows the last slash is lost.                            *)
sanitize_no_tail(path) ==
  FoldLeft(LAMBDA st, ch :
             IF ch = "/" THEN [done |-> process_path_segment(st.done, st.seg), seg |-> <<>>]
             ELSE [st EXCEPT !.seg = Append(@, ch)],
           [done |-> <<>>, seg |-> <<>>], path).done

(* The segments that are joined: one pass over the characters, a segment   *)
(* ending at each slash and at the end.                                    *)
sanitize_path(path) ==
  LET end == FoldLeft(LAMBDA st, ch :
                        IF ch = "/"
                        THEN [done |-> process_path_segment(st.done, st.seg), seg |-> <<>>]
                        ELSE [st EXCEPT !.seg = Append(@, ch)],
                      [done |-> <<>>, seg |-> <<>>], path)
  IN  process_path_segment(end.done, end.seg)

Segments(uri, route) ==
  sanitize_path(strip_route_prefix(strip_query_string(uri), route.path))

(* Directives left out of a location block.                                *)
root_dir(route) == IF route.root = <<>> THEN <<"files">> ELSE route.root
index_file(route) == IF route.index = <<>> THEN <<"index.html">> ELSE route.index
uploads_dir(route) == IF route.upload_store = <<>> THEN <<"uploads">> ELSE route.upload_store

(* The file a target names, before the kernel looks at it.                 *)
FilePath(uri, route) == <<root_dir(route)>> \o Segments(uri, route)

(***************************************************************************)
(* The kernel's side: how it walks a path, and stat, access, open, unlink. *)
(* The working directory is the root of the tree.                          *)
(***************************************************************************)
(* What stands between the slashes.                                        *)
Split(path) ==
  FoldLeft(LAMBDA segs, ch : IF ch = "/" THEN Append(segs, <<>>)
                             ELSE Append(Front(segs), Append(Last(segs), ch)), << <<>> >>, path)

Walk(path) ==
  FoldLeft(LAMBDA at, seg : CASE seg = DotDot -> IF at = <<>> THEN <<>> ELSE Front(at)
                              [] seg \in {Dot, <<>>} -> at
                              [] OTHER -> Append(at, seg), <<>>, path)
Found(path) == Walk(path) \in DOMAIN files /\ files[Walk(path)].kind # "dangling"
At(path) == files[Walk(path)]
Children(path) == {p \in DOMAIN files : Len(p) = Len(Walk(path)) + 1 /\ IsPrefix(Walk(path), p)}

(* open for writing: through directories only, to a name.                  *)
CanWrite(path) ==
  /\ \A k \in 1 .. Len(path) - 1 :
       Found(SubSeq(path, 1, k)) /\ At(SubSeq(path, 1, k)).kind = "dir"
  /\ Last(path) \notin {<<>>, Dot, DotDot}
  /\ IF Walk(path) \in DOMAIN files
     THEN At(path).kind = "file" /\ At(path).w ELSE At(Front(path)).w

-----------------------------------------------------------------------------
(***************************************************************************)
(* HTTPResponse.  A body is a sequence of contents; set_body also sets     *)
(* Content-Length.  by says which code made the response, path the file or *)
(* target it is about, names what a listing links to.                      *)
(***************************************************************************)
Response(status, body, by, path) ==
  [status |-> status, len |-> Len(body), body |-> body, by |-> by, path |-> path, names |-> {}]

NoResponse == Response(0, <<>>, "nothing", <<>>)
Redirect(status, target) == Response(status, <<"moved">>, "redirect", target)

(* A directory opens like a file, and reading it throws: nothing above     *)
(* catches, the server ends.                                               *)
Throw(path) == Response(0, <<>>, "throw", Walk(path))

get_error_page(status) == IF status \in DOMAIN ErrorPages THEN ErrorPages[status] ELSE <<>>
Opens(page) == page # <<>> /\ Found(page) /\ At(page).r
load_error_page(page) == IF Opens(page) THEN At(page).data ELSE <<"default page">>
Error(status) ==
  LET page == get_error_page(status)
  IN  IF Opens(page) /\ At(page).kind = "dir" THEN Throw(page)
      ELSE Response(status, load_error_page(page), "error", <<>>)

clear_body(r) == [r EXCEPT !.body = <<>>]

(* generate_autoindex: a link for every name but "."; a directory's ends   *)
(* with a slash.  For a dangling link stat fails and the test reads an     *)
(* uninitialized stat buffer: junk is what happens to be in it.            *)
generate_autoindex(path, junk) ==
  IF ~ At(path).r THEN Error(404)
  ELSE LET Link(p) == IF files[p].kind = "dir" \/ (files[p].kind = "dangling" /\ junk)
                      THEN Append(Last(p), "/") ELSE Last(p)
       IN  [Response(200, <<"listing">>, "autoindex", Walk(path))
              EXCEPT !.names = {Append(DotDot, "/")} \cup {Link(p) : p \in Children(path)}]

(* handle_get from access() on.  open may fail all the same.               *)
ServeFile(path, ok) ==
  CASE ~ At(path).r          -> Error(403)
    [] At(path).r /\ ~ ok    -> Error(500)
    [] At(path).r /\ ok      -> IF At(path).kind = "dir" THEN Throw(path)
                                ELSE Response(200, At(path).data, "file", Walk(path))

(* Mutant: no test for directories.                                        *)
get_no_dir_test(uri, route, ok, junk) ==
  LET path == FilePath(uri, route)
  IN  IF Found(path) THEN ServeFile(path, ok) ELSE Error(404)

handle_get(uri, route, ok, junk) ==
  LET path  == FilePath(uri, route)
      index == Append(path, index_file(route))
  IN  IF ~ Found(path) THEN Error(404)
      ELSE IF At(path).kind # "dir" THEN ServeFile(path, ok)
      ELSE IF Found(index) THEN ServeFile(index, ok)
      ELSE IF route.autoindex THEN generate_autoindex(path, junk)
      ELSE Error(404)

(* Mutant: the route's prefix is left on the name.                         *)
delete_with_prefix(uri, route, ok) ==
  LET path == <<root_dir(route)>> \o sanitize_path(strip_query_string(uri))
  IN  IF ~ Found(path) THEN Error(404)
      ELSE IF At(path).kind = "dir" THEN Error(400)
      ELSE Response(200, <<"deleted">>, "deleted", Walk(path))

(* handle_delete: the path it unlinks, or the error.                       *)
handle_delete(uri, route, ok) ==
  LET path == FilePath(uri, route)
  IN  IF Segments(uri, route) = <<>> THEN Error(400)
      ELSE IF ~ Found(path) THEN Error(404)
      ELSE IF At(path).kind = "dir" THEN Error(400)
      ELSE IF ~ At(path).w THEN Error(403)
      ELSE IF ~ ok \/ ~ At(Front(path)).w THEN Error(500)
      ELSE Response(200, <<"deleted">>, "deleted", Walk(path))

(* handle_post: where it writes and what, for the two content types it     *)
(* stores (a file is replaced, form data is appended to form_data.txt);    *)
(* anything else, and a file it cannot open, is answered 200.  Nobody      *)
(* looks at the name, nor whether the data is written: that of a file cut  *)
(* short is not told from none.                                            *)
UploadPath(route, p) ==
  <<uploads_dir(route)>>
     \o (IF p.type = "multipart" THEN Split(p.name) ELSE << <<"form_data.txt">> >>)
Old(at) == IF at \in DOMAIN files THEN files[at].data ELSE <<>>

(* Mutant: an upload is appended to the file that is there.                *)
UploadAppends(at, p, written) == IF written THEN Append(Old(at), p.data) ELSE Old(at)

UploadData(at, p, written) ==
  LET kept == IF p.type = "multipart" THEN <<>> ELSE Old(at)
  IN  IF written THEN Append(kept, p.data) ELSE kept
Stores(route, p) == p.type # "other" /\ CanWrite(UploadPath(route, p))

handle_post(route, p) ==
  IF Stores(route, p) THEN Response(201, <<"created">>, "stored", Walk(UploadPath(route, p)))
  ELSE Response(200, <<"received">>, "received", <<>>)

-----------------------------------------------------------------------------
(***************************************************************************)
(* Server::handle_client_read, from a complete request on: the limit the   *)
(* parser was given, the CGI gate, the trailing-slash redirect; then       *)
(* HTTPHandler::handle_request up to the choice by method.                 *)
(***************************************************************************)
Limit(i) == IF i # 0 /\ routes[i].hasMax THEN routes[i].max ELSE ServerMax
TooLarge(i) == Limit(i) > 0 /\ req.len > Limit(i)
Allowed(i) == routes[i].methods = {} \/ req.method \in routes[i].methods
IsCgi(i, uri) == routes[i].cgi # <<>> /\ IsSuffix(routes[i].cgi, uri)

peek_uri == strip_query_string(req.uri)

(* Mutant: the gate looks at the target with its query.                    *)
CgiGateWithQuery(i) == i # 0 /\ IsCgi(i, req.uri) /\ Allowed(i)

CgiGate(i) == i # 0 /\ IsCgi(i, peek_uri) /\ Allowed(i)

SlashRedirect(i) ==
  /\ peek_uri # <<>> /\ Last(peek_uri) # "/"
  /\ LET s == match_route(Append(peek_uri, "/"))
     IN  s # 0 /\ (i = 0 \/ Len(routes[s].path) > Len(routes[i].path))

Early(i) ==
  IF TooLarge(i) THEN Error(413)
  ELSE IF CgiGate(i) THEN Response(0, <<>>, "dispatch_cgi", <<>>)
  ELSE IF SlashRedirect(i) THEN Redirect(301, Append(peek_uri, "/"))
  ELSE IF i = 0 THEN Error(404)
  ELSE IF routes[i].redirect # 0 THEN Redirect(routes[i].redirect, <<"url">>)
  ELSE IF ~ Allowed(i) THEN Error(405)
  ELSE IF IsCgi(i, peek_uri) THEN Response(0, <<>>, "CGI::execute", <<>>)
  ELSE Response(0, <<>>, "by method", <<>>)

Chosen == match_route(peek_uri)
Ready == req.state = "complete"
Routed == Ready /\ Early(Chosen).by = "by method"
Reply(r) ==
  /\ resp' = r
  /\ req' = [req EXCEPT !.state = IF r.by = "throw" THEN "ended" ELSE "answered"]

Idle == [state |-> "idle", method |-> "GET", uri |-> <<"/">>, len |-> 0,
         payload |-> CHOOSE p \in Payloads : TRUE]

Init == routes \in Tables /\ files = Tree /\ resp = NoResponse /\ req = Idle

Changed ==
  {f \in DOMAIN files \cup DOMAIN Tree :
     ~ (f \in DOMAIN files /\ f \in DOMAIN Tree /\ files[f] = Tree[f])}

(* A complete request, on a new connection.  Only a POST's payload is ever *)
(* looked at.                                                              *)
Receive ==
  /\ req.state = "idle"
  /\ \E m \in Methods, p \in Payloads :
       /\ m # "POST" => p = Idle.payload
       /\ m \in {"POST", "DELETE"} => Cardinality(Changed) < MaxChanges
       /\ p.type = "form" => \A f \in DOMAIN files : Len(files[f].data) < MaxForms
       /\ \E u \in Uris, n \in Lengths :
            req' = [state |-> "complete", method |-> m, uri |-> u, len |-> n, payload |-> p]
  /\ UNCHANGED <<routes, files, resp>>

(* Every answer says "Connection: close": the connection ends with it.     *)
Close ==
  /\ req.state = "answered"
  /\ req' = Idle /\ resp' = NoResponse
  /\ UNCHANGED <<routes, files>>

AnswerEarly ==
  /\ Ready /\ ~ Routed
  /\ Reply(Early(Chosen))
  /\ UNCHANGED <<routes, files>>

OnGet ==
  /\ Routed /\ req.method = "GET"
  /\ \E ok, junk \in BOOLEAN : Reply(handle_get(req.uri, routes[Chosen], ok, junk))
  /\ UNCHANGED <<routes, files>>

OnHead ==
  /\ Routed /\ req.method = "HEAD"
  /\ \E ok, junk \in BOOLEAN :
       Reply(clear_body(handle_get(req.uri, routes[Chosen], ok, junk)))
  /\ UNCHANGED <<routes, files>>

(* A file that is there keeps its mode, a new one can be read and written. *)
OnPost ==
  LET p == req.payload
      r == handle_post(routes[Chosen], p)
      new == [kind |-> "file", r |-> TRUE, w |-> TRUE, data |-> <<>>]
      node == IF r.path \in DOMAIN files THEN files[r.path] ELSE new
  IN  /\ Routed /\ req.method = "POST"
      /\ Reply(r)
      /\ \E written \in BOOLEAN :
           files' = IF r.by # "stored" THEN files
                    ELSE [f \in DOMAIN files \cup {r.path} |->
                            IF f = r.path
                            THEN [node EXCEPT !.data = UploadData(r.path, p, written)]
                            ELSE files[f]]
      /\ UNCHANGED routes

OnDelete ==
  /\ Routed /\ req.method = "DELETE"
  /\ \E ok \in BOOLEAN :
       LET r == handle_delete(req.uri, routes[Chosen], ok)
       IN  /\ Reply(r)
           /\ files' = IF r.by = "deleted" THEN Restrict(files, DOMAIN files \ {r.path}) ELSE files
  /\ UNCHANGED routes

OnOther ==
  /\ Routed /\ req.method \notin {"GET", "HEAD", "POST", "DELETE"}
  /\ Reply(Error(405))
  /\ UNCHANGED <<routes, files>>

Next == Receive \/ Close \/ AnswerEarly \/ OnGet \/ OnHead \/ OnPost \/ OnDelete \/ OnOther

Spec == Init /\ [][Next]_vars

-----------------------------------------------------------------------------
(* What match_route compares character by character is a prefix of path    *)
(* segments: a location covers its own path and what lies under it, one    *)
(* ending in a slash only the latter, and the longest such location, the   *)
(* first of equals, is chosen.                                             *)
Under(path, uri) ==
  LET p == Split(path)  u == Split(uri)
  IN  IF Last(path) = "/" THEN IsStrictPrefix(Front(p), u) ELSE IsPrefix(p, u)
RouteIsLongest ==
  LET c == {i \in DOMAIN routes : Under(routes[i].path, peek_uri)}
  IN  IF c = {} THEN Chosen = 0
      ELSE /\ Chosen \in c
           /\ \A i \in c : /\ Len(routes[i].path) <= Len(routes[Chosen].path)
                           /\ Len(routes[i].path) = Len(routes[Chosen].path) => Chosen <= i

(* However many ".." a target holds, and wherever they stand, the file     *)
(* that is served, listed or deleted lies under the root of the route.     *)
InsideRoot ==
  resp.by \in {"file", "autoindex", "deleted"} =>
    IsPrefix(<<root_dir(routes[Chosen])>>, resp.path)

(* After a DELETE that was answered 200 the same target is not found.      *)
DeletedIsGone ==
  resp.by = "deleted" => handle_get(req.uri, routes[Chosen], TRUE, TRUE) = Error(404)

(* Nothing decodes a target: in a name of these characters, which no       *)
(* client encodes, every character stands for itself.                      *)
Literal(name) == \A i \in 1 .. Len(name) : name[i] \in Unreserved

(* A file that was stored (201) under such a name, in a location whose     *)
(* root is the upload store, is what a GET of that name under that         *)
(* location answers, unless another location claims it: with the data that *)
(* was sent, or nothing if it could not be written, and never with what    *)
(* was there before; but if a file that was there may not be read, nor may *)
(* this one.                                                               *)
UploadedIsServed ==
  LET r == routes[Chosen]
      name == req.payload.name
      u == r.path \o (IF Last(r.path) = "/" THEN <<>> ELSE <<"/">>) \o name
      got == handle_get(u, r, TRUE, TRUE)
      named == /\ resp.by = "stored" /\ req.payload.type = "multipart"
               /\ FileName(name) /\ Literal(name)
               /\ root_dir(r) = uploads_dir(r) /\ match_route(u) = Chosen
  IN  named =>
        IF files[resp.path].r
        THEN /\ got.by = "file" /\ got.path = resp.path
             /\ got.body \in {<<>>, <<req.payload.data>>}
        ELSE got = Error(403)

(* The blocking CGI runner behind handle_request is never reached: every   *)
(* request it would run was taken by the gate before.                      *)
NeverBlocks == resp.by # "CGI::execute"

(* Every link of a listing leads to the entry it was made for, when the    *)
(* target that was listed ends in a slash, unless another location claims  *)
(* the link's target: for targets as clients send them (no "." or ".."     *)
(* left) and names no client has to encode, the reference in the link is   *)
(* resolved by putting it behind the target (RFC 3986, 5.2).               *)
SentByClient(target) ==
  /\ \A i \in 1 .. Len(target) : target[i] \in Unreserved \cup {"/"}
  /\ \A i \in 1 .. Len(Split(target)) : Split(target)[i] \notin {Dot, DotDot}
Entry(link) == IF Last(link) = "/" THEN Front(link) ELSE link
Leads(base, link) ==
  LET u == base \o link
  IN  match_route(u) = Chosen =>
        Walk(FilePath(u, routes[Chosen])) = Append(resp.path, Entry(link))
Links == {n \in resp.names : n # Append(DotDot, "/") /\ Literal(Entry(n))}
LinksLead ==
  resp.by = "autoindex" /\ Last(peek_uri) = "/" /\ SentByClient(peek_uri) =>
    \A n \in Links : Leads(peek_uri, n)

(* The process is ended by one thing only, and no request brings it about: *)
(* a directory, there from the start, that stands where an error page or   *)
(* the index file of the requested directory is expected.                  *)
EndedByDirectory ==
  req.state = "ended" =>
    /\ resp.path \in DOMAIN Tree /\ Tree[resp.path].kind = "dir"
    /\ \/ \E status \in DOMAIN ErrorPages : resp.path = Walk(ErrorPages[status])
       \/ /\ Chosen # 0
          /\ resp.path = Append(Walk(FilePath(req.uri, routes[Chosen])),
                                index_file(routes[Chosen]))

-----------------------------------------------------------------------------
(* Server.cpp:1244 announces a "Directory trailing-slash redirect": a      *)
(* directory that is listed was asked for with its slash, so the relative  *)
(* links of the listing resolve inside it.                                 *)
ListedWithSlash == resp.by = "autoindex" => Last(peek_uri) = "/"

(* HTTPResponse.cpp:72 says of HEAD that Content-Length is "of the entity  *)
(* body that WOULD have been sent": no HEAD request is answered with one.  *)
HeadHasNoBody == req.method = "HEAD" => resp.body = <<>>
=============================================================================

------------------------------- MODULE Startup -------------------------------
(***************************************************************************)
(* From the command line to listening sockets: main, Config::parse and the *)
(* constructor of Server.                                                  *)
(*                                                                         *)
(* The recursive descent of Config (parse, parse_server_block,             *)
(* parse_location_block, each reading lines with read_next_line) is a      *)
(* machine that takes one line a step; at says which function reads it.    *)
(* A line is the sequence of words tokenize() makes of it; clean_line and  *)
(* the ";" are gone, and a line of a single ";" has no word at all.        *)
(***************************************************************************)
EXTENDS Integers, Sequences, FiniteSets, SequencesExt, Functions

CONSTANTS
  Forms,     \* the kinds of configuration files looked at: the lines each
             \* may hold, and the bound on how many
  Number,    \* what istream >> int reads from a word, if it reads a number
  Address,   \* words with a colon: the host before it, the port after it
  Size,      \* words that end in K or M: the number before it, the factor
  Paths,     \* words that start with "/"
  Modulus    \* the range of size_t (2^64 in the program)

(* tokenize() makes words of a line, which clean_line made of the file's.  *)
ASSUME FormsAssumption == \A f \in DOMAIN Forms : Forms[f].lines \subseteq Seq(STRING)

VARIABLES
  form,      \* the kind of the file given to main
  at,        \* where main is
  servers_,  \* the server blocks that are complete
  srv,       \* the one being parsed
  route,     \* the location block being parsed
  bound,     \* ports bound so far, in the order of servers_
  text       \* history: the lines read

vars == <<form, at, servers_, srv, route, bound, text>>

RouteConfig(path) ==
  [path |-> path, allow_methods |-> <<>>, root |-> "", index |-> "index.html",
   autoindex |-> FALSE, upload_store |-> "", redirect_url |-> "", redirect_code |-> 0,
   cgi_extension |-> "", cgi_path |-> "", max |-> 0, has_max |-> FALSE]

ServerConfig ==
  [host |-> "0.0.0.0", port |-> 8080, has_listen_ |-> FALSE, server_names |-> <<>>,
   error_pages |-> <<>>, max |-> 1048576 % Modulus, routes |-> <<>>]

(* parse_size: the product is taken modulo 2^64, and a minus sign is too.  *)
SizeWord(w) == IF w \in DOMAIN Size THEN Size[w].number ELSE w
SizeFactor(w) == IF w \in DOMAIN Size THEN Size[w].factor ELSE 1
IsSize(w) == SizeWord(w) \in DOMAIN Number
parse_size(w) == ((Number[SizeWord(w)] % Modulus) * SizeFactor(w)) % Modulus

(* parse_listen.                                                           *)
PortWord(w) == IF w \in DOMAIN Address THEN Address[w].port ELSE w
HostOf(w) == IF w \in DOMAIN Address THEN Address[w].host ELSE ServerConfig.host

(* The lines that open and close a block.                                  *)
Opening == <<"{">>
Closing == <<"}">>

(***************************************************************************)
(* validate: ports, paths, redirects, and no address used twice.           *)
(***************************************************************************)
ValidServer(sv) ==
  /\ sv.port \in 1 .. 65535
  /\ \A i \in DOMAIN sv.routes :
       sv.routes[i].path \in Paths /\ sv.routes[i].redirect_code \in {0, 301, 302}

Distinct(ss) ==
  \A i, j \in DOMAIN ss : i < j => <<ss[i].host, ss[i].port>> # <<ss[j].host, ss[j].port>>

validate(ss) == (\A i \in DOMAIN ss : ValidServer(ss[i])) /\ Distinct(ss)

(***************************************************************************)
(* parse_directive: the server block after a line, or Wrong.               *)
(***************************************************************************)
Wrong == [wrong |-> TRUE]
IsWrong(x) == "wrong" \in DOMAIN x

parse_listen(sv, words) ==
  IF Len(words) < 2 \/ sv.has_listen_ \/ PortWord(words[2]) \notin DOMAIN Number THEN Wrong
  ELSE [sv EXCEPT !.has_listen_ = TRUE, !.host = HostOf(words[2]),
                  !.port = Number[PortWord(words[2])]]

(* std::map's operator[].                                                  *)
SetPage(pages, code, page) ==
  [c \in DOMAIN pages \cup {code} |-> IF c = code THEN page ELSE pages[c]]

parse_directive(sv, words) ==
  LET n == Len(words)
  IN  CASE words[1] = "listen"      -> parse_listen(sv, words)
        [] words[1] = "server_name" ->
             IF n < 2 THEN Wrong ELSE [sv EXCEPT !.server_names = @ \o Tail(words)]
        [] words[1] = "error_page"  ->
             IF n < 3 THEN Wrong
             ELSE IF words[2] \notin DOMAIN Number THEN Wrong
             ELSE [sv EXCEPT !.error_pages = SetPage(@, Number[words[2]], words[3])]
        [] words[1] = "client_max_body_size" ->
             IF n < 2 THEN Wrong ELSE IF ~ IsSize(words[2]) THEN Wrong
             ELSE [sv EXCEPT !.max = parse_size(words[2])]
        [] OTHER -> Wrong

(***************************************************************************)
(* parse_route_directive: the same for a location block.                   *)
(***************************************************************************)
Strings == {"root", "index", "upload_store", "cgi_extension", "cgi_path"}

parse_autoindex(rt, words) ==
  IF words[2] \in {"on", "off"} THEN [rt EXCEPT !.autoindex = words[2] = "on"] ELSE Wrong

parse_allow_methods(rt, words) == [rt EXCEPT !.allow_methods = Tail(words)]

parse_return(rt, words) ==
  IF Len(words) < 3 THEN Wrong
  ELSE IF words[2] \notin DOMAIN Number THEN Wrong
  ELSE [rt EXCEPT !.redirect_code = Number[words[2]], !.redirect_url = words[3]]

parse_route_directive(rt, words) ==
  IF Len(words) < 2 THEN Wrong
  ELSE CASE words[1] \in Strings         -> [rt EXCEPT ![words[1]] = words[2]]
         [] words[1] = "autoindex"       -> parse_autoindex(rt, words)
         [] words[1] = "allow_methods"   -> parse_allow_methods(rt, words)
         [] words[1] = "return"          -> parse_return(rt, words)
         [] words[1] = "client_max_body_size" ->
              IF IsSize(words[2]) THEN [rt EXCEPT !.max = parse_size(words[2]), !.has_max = TRUE]
              ELSE Wrong
         [] OTHER -> Wrong

-----------------------------------------------------------------------------
Lines == Forms[form].lines
MaxLines == Forms[form].max

Init ==
  /\ form \in DOMAIN Forms
  /\ at = "args" /\ servers_ = <<>> /\ srv = ServerConfig /\ route = RouteConfig("/")
  /\ bound = <<>> /\ text = <<>>

(* init_args and the opening of the file.                                  *)
Open ==
  /\ at = "args" /\ at' \in {"parse", "error"}
  /\ UNCHANGED <<form, servers_, srv, route, bound, text>>

(* read_next_line; a line without words is read with words[0] and the      *)
(* behaviour is undefined, unless only a brace is looked for.              *)
Reading(state, words) ==
  /\ at = state /\ Len(text) < MaxLines
  /\ text' = Append(text, words)
  /\ UNCHANGED <<form, bound>>

NoWords ==
  /\ Reading(at, <<>>) /\ <<>> \in Lines
  /\ at \in {"parse", "server", "location", "open_server", "open_location"}
  /\ at' = IF at \in {"open_server", "open_location"} THEN "error" ELSE "undefined"
  /\ UNCHANGED <<servers_, srv, route>>

ServerLine ==
  \E words \in Lines \ {<<>>} :
    /\ Reading("parse", words)
    /\ at' = IF words = <<"server">> THEN "open_server" ELSE "error"
    /\ srv' = ServerConfig
    /\ UNCHANGED <<servers_, route>>

(* expect_open_brace.                                                      *)
Before(block) == IF block = "server" THEN "open_server" ELSE "open_location"

OpenBrace ==
  \E words \in Lines \ {<<>>}, block \in {"server", "location"} :
    /\ Reading(Before(block), words)
    /\ at' = IF words = Opening THEN block ELSE "error"
    /\ UNCHANGED <<servers_, srv, route>>

(* parse_server_block.                                                     *)
CloseServer ==
  /\ Closing \in Lines /\ Reading("server", Closing)
  /\ servers_' = Append(servers_, srv) /\ at' = "parse"
  /\ UNCHANGED <<srv, route>>

(* Mutant: a location starts from the one before.                          *)
LocationKeeps ==
  \E words \in {w \in Lines : w # <<>> /\ w[1] = "location"} :
    /\ Reading("server", words)
    /\ IF Len(words) # 2 THEN at' = "error" /\ UNCHANGED route
       ELSE at' = "open_location" /\ route' = [route EXCEPT !.path = words[2]]
    /\ UNCHANGED <<servers_, srv>>

LocationLine ==
  \E words \in {w \in Lines : w # <<>> /\ w[1] = "location"} :
    /\ Reading("server", words)
    /\ IF Len(words) # 2 THEN at' = "error" /\ UNCHANGED route
       ELSE at' = "open_location" /\ route' = RouteConfig(words[2])
    /\ UNCHANGED <<servers_, srv>>

ServerDirective ==
  \E words \in {w \in Lines : w # <<>> /\ w # Closing /\ w[1] # "location"} :
    /\ Reading("server", words)
    /\ LET new == parse_directive(srv, words)
       IN  IF IsWrong(new) THEN at' = "error" /\ UNCHANGED srv
           ELSE srv' = new /\ UNCHANGED at
    /\ UNCHANGED <<servers_, route>>

(* parse_location_block.                                                   *)
CloseLocation ==
  /\ Closing \in Lines /\ Reading("location", Closing)
  /\ srv' = [srv EXCEPT !.routes = Append(@, route)] /\ at' = "server"
  /\ UNCHANGED <<servers_, route>>

RouteDirective ==
  \E words \in Lines \ {<<>>, Closing} :
    /\ Reading("location", words)
    /\ LET new == parse_route_directive(route, words)
       IN  IF IsWrong(new) THEN at' = "error" /\ UNCHANGED route
           ELSE route' = new /\ UNCHANGED at
    /\ UNCHANGED <<servers_, srv>>

(* The file ends: inside a block, or between blocks.                       *)
EndOfFile ==
  /\ at \in {"parse", "server", "location", "open_server", "open_location"}
  /\ at' = IF at = "parse" /\ servers_ # <<>> /\ validate(servers_) THEN "bind" ELSE "error"
  /\ UNCHANGED <<form, servers_, srv, route, bound, text>>

(***************************************************************************)
(* Server's constructor, one server block a step: every socket is bound to *)
(* INADDR_ANY, so a port that is taken makes the constructor fail.  Other  *)
(* failures of the system calls are left to EventLoop.                     *)
(***************************************************************************)
(* Mutant: a port may be bound twice.                                      *)
BindShared ==
  /\ at = "bind" /\ Len(bound) < Len(servers_)
  /\ bound' = Append(bound, servers_[Len(bound) + 1].port)
  /\ UNCHANGED <<form, at, servers_, srv, route, text>>

Bind ==
  LET next == servers_[Len(bound) + 1]
  IN  /\ at = "bind" /\ Len(bound) < Len(servers_)
      /\ IF next.port \in ToSet(bound)
         THEN at' = "not_ok" /\ bound' = <<>>
         ELSE bound' = Append(bound, next.port) /\ UNCHANGED at
      /\ UNCHANGED <<form, servers_, srv, route, text>>

Start ==
  /\ at = "bind" /\ Len(bound) = Len(servers_) /\ at' = "serving"
  /\ UNCHANGED <<form, servers_, srv, route, bound, text>>

Next ==
  \/ Open \/ NoWords \/ ServerLine \/ OpenBrace \/ CloseServer \/ LocationLine
  \/ ServerDirective \/ CloseLocation \/ RouteDirective \/ EndOfFile \/ Bind \/ Start

Spec == Init /\ [][Next]_vars

-----------------------------------------------------------------------------
(***************************************************************************)
(* The file as a reader sees it, without a parser: how many braces are     *)
(* open before a line, which server and which location it belongs to.      *)
(***************************************************************************)
Count(i, words) == Cardinality({j \in 1 .. i - 1 : text[j] = words})
Depth(i) == Count(i, Opening) - Count(i, Closing)
Block(i) == Cardinality({j \in 1 .. i : text[j] = <<"server">> /\ Depth(j) = 0})
Location(i) ==
  Cardinality({j \in 1 .. i : text[j][1] = "location" /\ Depth(j) = 1 /\ Block(j) = Block(i)})

Lookup(k, l, key) == {i \in DOMAIN text : /\ text[i][1] = key /\ Block(i) = k
                                          /\ Depth(i) = IF l = 0 THEN 1 ELSE 2
                                          /\ l # 0 => Location(i) = l}
(* The last line with the key in the block counts, or the default.         *)
Written(k, l, key, default, Value(_)) ==
  LET s == Lookup(k, l, key) IN IF s = {} THEN default ELSE Value(text[Max(s)])

RouteAsWritten(k, l, rt) ==
  /\ \A key \in Strings :
       rt[key] = Written(k, l, key, RouteConfig("/")[key], LAMBDA w : w[2])
  /\ rt.path = (CHOOSE w \in Lines : \E i \in DOMAIN text :
                  w = text[i] /\ w # <<>> /\ w[1] = "location" /\ Depth(i) = 1
                    /\ Block(i) = k /\ Location(i) = l)[2]
  /\ rt.autoindex = Written(k, l, "autoindex", FALSE, LAMBDA w : w[2] = "on")
  /\ rt.allow_methods = Written(k, l, "allow_methods", <<>>, LAMBDA w : Tail(w))
  /\ rt.redirect_code = Written(k, l, "return", 0, LAMBDA w : Number[w[2]])
  /\ rt.redirect_url = Written(k, l, "return", "", LAMBDA w : w[3])
  /\ rt.has_max = (Lookup(k, l, "client_max_body_size") # {})
  /\ rt.max = Written(k, l, "client_max_body_size", 0, LAMBDA w : parse_size(w[2]))

(* The names of a server, as the places <<line, word>> where they stand:   *)
(* the n-th name is the one with n places up to its own.                   *)
NamePlaces(k) == UNION {{i} \X (2 .. Len(text[i])) : i \in Lookup(k, 0, "server_name")}
UpTo(p, places) == {q \in places : q[1] < p[1] \/ (q[1] = p[1] /\ q[2] <= p[2])}

NamesAsWritten(k, names) ==
  /\ Len(names) = Cardinality(NamePlaces(k))
  /\ \A p \in NamePlaces(k) :
       names[Cardinality(UpTo(p, NamePlaces(k)))] = text[p[1]][p[2]]

(* The last line with a code gives its page.                               *)
PageLines(k, code) == {i \in Lookup(k, 0, "error_page") : Number[text[i][2]] = code}

PagesAsWritten(k, pages) ==
  /\ DOMAIN pages = {Number[text[i][2]] : i \in Lookup(k, 0, "error_page")}
  /\ \A code \in DOMAIN pages : pages[code] = text[Max(PageLines(k, code))][3]

ServerAsWritten(k, sv) ==
  /\ Cardinality(Lookup(k, 0, "listen")) <= 1
  /\ sv.has_listen_ = (Lookup(k, 0, "listen") # {})
  /\ sv.port = Written(k, 0, "listen", 8080, LAMBDA w : Number[PortWord(w[2])])
  /\ sv.host = Written(k, 0, "listen", "0.0.0.0", LAMBDA w : HostOf(w[2]))
  /\ NamesAsWritten(k, sv.server_names) /\ PagesAsWritten(k, sv.error_pages)
  /\ sv.max = Written(k, 0, "client_max_body_size", ServerConfig.max,
                      LAMBDA w : parse_size(w[2]))
  /\ Len(sv.routes) = Location(Max({i \in DOMAIN text : Block(i) = k}))
  /\ \A l \in DOMAIN sv.routes : RouteAsWritten(k, l, sv.routes[l])

(* A file that is accepted was understood as its braces say: the blocks    *)
(* are closed, and every field of every server and location is what the    *)
(* directives between its own braces say: all the names in the file's      *)
(* order, each error code's last page, the last of several lines for the   *)
(* rest, and the default where there is none.  Nothing leaks from one      *)
(* location or server into the next (Config::parse, parse_directive,       *)
(* parse_route_directive).                                                 *)
AsWritten ==
  at \in {"bind", "serving", "not_ok"} =>
    /\ Depth(Len(text) + 1) = 0
    /\ Len(servers_) = Block(Len(text))
    /\ \A k \in DOMAIN servers_ : ServerAsWritten(k, servers_[k])

(* The server that starts has one listening socket for each server block,  *)
(* in the order of the file, and no two for the same port: a connection's  *)
(* server index tells which block is meant.                                *)
OneSocketEach ==
  at = "serving" =>
    /\ Len(bound) = Block(Len(text)) /\ IsInjective(bound)
    /\ \A k \in DOMAIN bound :
         bound[k] = Written(k, 0, "listen", 8080, LAMBDA w : Number[PortWord(w[2])])

-----------------------------------------------------------------------------
(* README.md: the configuration file defines "Server port and host".  Two  *)
(* servers on different hosts are valid; the constructor binds every one   *)
(* to all addresses, so that valid configurations fail to start.           *)
ValidStarts == at # "not_ok"

(* README.md: the configuration file defines "Maximum client body size".   *)
(* A limit that is written is a limit: it is not turned into 0, no limit.  *)
LimitStays ==
  \A k \in DOMAIN servers_ :
    \A i \in Lookup(k, 0, "client_max_body_size") :
      Number[SizeWord(text[i][2])] # 0 => servers_[k].max # 0
=============================================================================

------------------------------ MODULE MCStartup ------------------------------
(***************************************************************************)
(* Three vocabularies for Startup: how blocks nest and follow each other,  *)
(* what the directives of a server do, and those of a location.            *)
(***************************************************************************)
EXTENDS Startup

MCNumber == [w \in {"80", "81", "0", "301", "404", "1", "2", "4"} |->
               CASE w = "80" -> 80 [] w = "81" -> 81 [] w = "0" -> 0 [] w = "301" -> 301
                 [] w = "404" -> 404 [] w = "1" -> 1 [] w = "2" -> 2 [] w = "4" -> 4]
MCAddress == [w \in {"a:80", "b:80", "a:x"} |->
                CASE w = "a:80" -> [host |-> "a", port |-> "80"]
                  [] w = "b:80" -> [host |-> "b", port |-> "80"]
                  [] w = "a:x"  -> [host |-> "a", port |-> "x"]]
MCSize == [w \in {"2K", "4M"} |->
             CASE w = "2K" -> [number |-> "2", factor |-> 1024]
               [] w = "4M" -> [number |-> "4", factor |-> 1024 * 1024]]
MCPaths == {"/", "/a"}
MCModulus == 4 * 1024 * 1024   \* so that 4M does not fit

Frame == {<<"server">>, <<"{">>, <<"}">>, <<"location", "/">>, <<"location", "/a">>}

BlockLines ==
  Frame \cup {<<"location">>, <<"location", "x">>, <<"listen", "a:80">>, <<"listen", "b:80">>,
              <<"listen", "81">>, <<"root", "r">>, <<>>}

ServerLines ==
  {<<"server">>, <<"{">>, <<"}">>, <<"listen">>, <<"listen", "0">>, <<"listen", "81">>,
   <<"listen", "a:x">>, <<"server_name">>, <<"server_name", "n">>, <<"server_name", "m", "n">>,
   <<"error_page", "404", "p">>, <<"error_page", "404", "q">>, <<"error_page", "301", "q">>,
   <<"error_page", "p", "p">>, <<"error_page", "404">>, <<"client_max_body_size">>,
   <<"client_max_body_size", "2K">>, <<"client_max_body_size", "4M">>,
   <<"client_max_body_size", "x">>, <<"bogus", "x">>}

LocationLines ==
  (Frame \ {<<"location", "/a">>}) \cup
  {<<"root">>, <<"root", "r">>, <<"root", "s">>, <<"autoindex", "on">>, <<"autoindex", "maybe">>,
   <<"allow_methods", "POST", "PUT">>, <<"return", "301", "u">>, <<"return", "0", "v">>,
   <<"return", "301">>, <<"return", "x", "u">>, <<"client_max_body_size", "2K">>,
   <<"client_max_body_size", "x">>, <<"bogus", "x">>}

MCForms == <<[lines |-> BlockLines, max |-> 14], [lines |-> ServerLines, max |-> 8],
             [lines |-> LocationLines, max |-> 10]>>
HostForms  == <<[lines |-> BlockLines, max |-> 10]>>
LimitForms == <<[lines |-> ServerLines, max |-> 6]>>
=============================================================================

------------------------------ MODULE MCHandler ------------------------------
(***************************************************************************)
(* Small instances of Handler: every target of up to four characters over  *)
(* "/", one letter, "." and "?", longer ones that climb with "..", and      *)
(* route tables that make locations overlap.                               *)
(***************************************************************************)
EXTENDS Handler

MaxUri == 4
Chars == {"/", "a", ".", "?"}
AllUris ==
  {<<"/">> \o s : s \in UNION {[1 .. n -> Chars] : n \in 0 .. MaxUri - 1}}
    \cup {<<"/", "b">>, <<"/", "b", "/">>, <<"/", "b", "/", "a">>, <<"/", "b", "b">>,
          <<"/", "a", "/", "c">>, <<"?">>,
          <<"/", "a", "/", ".", ".">>, <<"/", ".", ".", "/", "a">>,
          <<"/", "a", "/", ".", "a">>, <<"/", "a", "/", ".", "a", "?">>,
          <<"/", "a", "/", ".", ".", "/", ".", ".", "/", "a">>,
          <<"/", "a", "/", ".", "/", "/", ".", ".", "/", ".", "a", "/", "a", "?", "/">>}

Loc(path, root) ==
  [path |-> path, root |-> root, index |-> <<"i">>, autoindex |-> TRUE, methods |-> {},
   upload_store |-> root, redirect |-> 0, cgi |-> <<>>, max |-> 0, hasMax |-> FALSE]

R == <<"r">>
S == <<"s">>

(* A location inside another; a location with a trailing slash; a CGI      *)
(* extension with restricted methods; a redirect; duplicates; defaults.    *)
MCTables ==
  { << Loc(<<"/">>, R), Loc(<<"/", "a">>, S) >>,
    << Loc(<<"/", "a", "/">>, S), [Loc(<<"/">>, R) EXCEPT !.autoindex = FALSE,
                                                          !.methods = {"GET"}] >>,
    << [Loc(<<"/", "a">>, R) EXCEPT !.cgi = <<".", "a">>, !.methods = {"GET", "POST"},
                                    !.max = 0, !.hasMax = TRUE],
       [Loc(<<"/", "b">>, R) EXCEPT !.redirect = 302],
       [Loc(<<"/", "a">>, S) EXCEPT !.root = <<>>, !.upload_store = <<>>, !.index = <<>>] >>,
    << [Loc(<<"/", "a">>, <<>>) EXCEPT !.index = <<>>] >> }

MCPayloads ==
  {[type |-> "multipart", name |-> <<"c">>, data |-> "m"],
   [type |-> "multipart", name |-> <<"a">>, data |-> "m"],
   [type |-> "multipart", name |-> <<"a", "a">>, data |-> "m"],
   [type |-> "multipart", name |-> <<".", ".", "/", "a">>, data |-> "m"],
   [type |-> "multipart", name |-> <<"a", "/", ".", "/">>, data |-> "m"],
   [type |-> "form", name |-> <<>>, data |-> "f"],
   [type |-> "other", name |-> <<>>, data |-> "x"]}

File(data) == [kind |-> "file", r |-> TRUE, w |-> TRUE, data |-> data]
Dir == [kind |-> "dir", r |-> TRUE, w |-> TRUE, data |-> <<>>]

(* A file outside every root; r/ holds a file, a directory and a dangling  *)
(* link; s/ a directory whose index is a directory, a file that cannot be  *)
(* read and a sealed directory.                                            *)
MCTree ==
  (<<>> :> Dir) @@ (<< <<"a">> >> :> File(<<"0">>))
  @@ (<<R>> :> Dir) @@ (<<R, <<"a">> >> :> File(<<"1">>))
  @@ (<<R, <<"a", "?">> >> :> File(<<"2">>))
  @@ (<<R, <<"a", "a">> >> :> Dir) @@ (<<R, <<"b">> >> :> [Dir EXCEPT !.kind = "dangling"])
  @@ (<<S>> :> Dir)
  @@ (<<S, <<"a">> >> :> Dir) @@ (<<S, <<"a">>, <<"i">> >> :> Dir)
  @@ (<<S, <<"a">>, <<"a">> >> :> File(<<"6">>))
  @@ (<<S, <<"a", "a">> >> :> [File(<<"3">>) EXCEPT !.r = FALSE])
  @@ (<<S, <<".", "a">> >> :> [Dir EXCEPT !.w = FALSE])
  @@ (<<S, <<".", "a">>, <<"a">> >> :> [File(<<"4">>) EXCEPT !.w = FALSE])
  @@ (<< <<"files">> >> :> [Dir EXCEPT !.w = FALSE])
  @@ (<< <<"files">>, <<"a">> >> :> File(<<"5">>))
  @@ (<< <<"files">>, <<"a", "a">> >> :> [Dir EXCEPT !.r = FALSE])
  @@ (<< <<"files">>, <<"404">> >> :> File(<<"lost">>))
  @@ (<< <<"uploads">> >> :> Dir)

(* A page, one that is not there, and one that is a directory.             *)
MCErrorPages ==
  (404 :> << <<"files">>, <<"404">> >>) @@ (405 :> << <<"files">>, <<"405">> >>)
  @@ (400 :> << <<"files">> >>)

MCUnreserved == {"a", "b", "c", "i", ".", "404", "form_data.txt"}
=============================================================================

-------------------------------- MODULE MCSite --------------------------------
(* The file system, the command lines and the requests of the runs site,   *)
(* work_query and threads_variable.                                        *)
EXTENDS Site

A == <<"a">>
AA == <<"a", "a">>
Index == <<"index.html">>

(* The root /a, a link /w to it, a directory /aa beside it, and in the     *)
(* root files, a directory, and links: to a file inside and to one in /aa. *)
MCTree ==
  LET dir == [kind |-> "dir", to |-> <<>>]
      file == [kind |-> "file", to |-> <<>>]
      link(p) == [kind |-> "link", to |-> p]
  IN  [p \in {<<A>>, <<AA>>, <<A, AA>>} |-> dir]
        @@ [p \in {<<A, A>>, <<A, Index>>, <<A, <<"dashboard", ".html">>>>, <<A, AA, A>>, <<AA, A>>} |-> file]
        @@ <<<<"w">>>> :> link(<<A>>)
        @@ <<A, <<".", "a">>>> :> link(<<A, A>>)
        @@ <<A, <<"a", "a", "a">>>> :> link(<<AA, A>>)
MCVolatile == {<<A>>, <<A, A>>}

MCNumber == [s \in {"0", "9", "-1", "65537", "600000", "20000000"} |->
  CASE s = "0" -> 0 [] s = "9" -> 9 [] s = "-1" -> -1 [] s = "65537" -> 65537
    [] s = "600000" -> 600000 [] s = "20000000" -> 20000000]
Values == DOMAIN MCNumber \cup {"x", "www"}
Arguments == Values \cup ValueOptions \cup {"--help"}
MCRootOf ==
  [s \in Arguments \cup {"public"} |->
     CASE s = "public" -> <<A>> [] s = "www" -> <<<<"w">>>> [] OTHER -> <<<<"x">>>>]

(* All short command lines, all pairs of options with values, and an       *)
(* environment set in all ways for some of them.                           *)
Envs == [PORT : {{}, {"9"}, {"x"}}, THREADS : {{}, {"9"}}, QUEUE_CAPACITY : {{}, {"-1"}, {"x"}}]
MCInputs ==
  [env : {NoInput.env}, argv : UNION {[1..n -> Arguments] : n \in 0..2}]
    \cup [env : {NoInput.env}, argv : {<<o, v, p, w>> : o, p \in ValueOptions, v, w \in Arguments}]
    \cup [env : {NoInput.env}, argv : {<<o, v, w>> : o, v, w \in ValueOptions \cup {"9", "x", "--help"}}]
    \cup [env : Envs, argv : UNION {[1..n -> ValueOptions \cup {"0", "9"}] : n \in 0..2}]

(* Every name of up to three or four characters below "/", with nothing,   *)
(* one character or everything encoded; the endpoints; "%" and "+".        *)
Encodings(name) == {{}, DOMAIN name} \cup {{i} : i \in DOMAIN name}
Unencoded(names, methods) ==
  {[method |-> m, name |-> n, encoded |-> {}] : n \in names, m \in methods}
Encoded(names, methods) ==
  UNION {{[method |-> m, name |-> n, encoded |-> e] : e \in Encodings(n)} : n \in names, m \in methods}
Below(chars, n) == UNION {{<<"/">> \o s : s \in [1..k -> chars]} : k \in 0..n}
MCRequests ==
  Encoded(Below({"/", "\\", ".", "a", "NUL"}, 3), {"GET"})
    \cup Encoded(Below({"/", ".", "a"}, 4), {"GET"})
    \cup Encoded(Below({"a", "%", "+"}, 3), {"GET", "HEAD"})
    \cup Unencoded({<<"/", w>> : w \in DOMAIN Endpoints}, {"GET", "POST", "HEAD", "PUT"})
    \cup Unencoded(Below({"a"}, 4), {"HEAD", "POST", "PUT"})
    \cup Unencoded({<<"/", "work", "?", "delay=500">>, <<"/", "dashboard", ".html">>}, {"GET"})
=============================================================================

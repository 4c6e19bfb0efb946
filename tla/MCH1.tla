-------------------------------- MODULE MCH1 --------------------------------
(* Plans that mix methods, codings, versions and lengths.                  *)
EXTENDS H1

Get(i) == Request(i, "GET", 0)
Post(i) == Request(i, "POST", 2)
Coded(i) == [Request(i, "POST", 1) EXCEPT !.te = <<"chunked">>]
Asking(m) == [m EXCEPT !.expect = TRUE]
Closing(m) == [m EXCEPT !.connection = {"close"}]
Old(m) == [m EXCEPT !.version = 10]
Both(m) == [m EXCEPT !.cl = <<1>>, !.te = <<"chunked">>]

MCPlans ==
    { <<Post(1), Request(2, "HEAD", 0), Get(3)>>,
      <<Request(1, "HEAD", 0), Coded(2), Old(Get(3))>>,
      <<Get(1), Asking(Post(2))>>,
      <<Asking(Request(1, "POST", 3)), Get(2)>>,
      <<Post(1), [Coded(2) EXCEPT !.size = 3]>>,
      <<Get(1), Closing(Get(2)), Get(3)>>,
      <<Closing(Asking(Post(1))), Get(2)>>,
      <<Get(1), Both(Post(2)), Get(3)>>,
      <<Get(1), Request(2, "POST", 3)>> }

\* A request that asks to go on, and one behind it.
MCInterimPlans == { <<Asking(Post(1)), Request(2, "HEAD", 0), Get(3)>> }

MCAnswers ==
    { Response(0, 200, 1), [Response(0, 200, 1) EXCEPT !.te = <<"gzip", "chunked">>],
      [Response(0, 200, 2) EXCEPT !.te = <<"gzip">>],
      Response(0, 304, 1) }
=============================================================================

----------------------------- MODULE MCExchange -----------------------------
(* Messages for TLC: requests of every kind of body and of acceptance, and    *)
(* field lists that break one rule each.                                      *)
EXTENDS Exchange

Rated0(token, value) == [token |-> token, params |-> << [name |-> "q", value |-> value] >>]
Other == 11
Accepting ==
    {<<>>,
     << Says("identity") >>,
     << << Rated0("gzip", << 0 >>), Entry("*") >> >>,
     << << Rated0("br", << 0, Point, 5 >>), Entry("x-gzip") >> >>,
     << << Rated0("zstd", << 2 >>), Rated0("deflate", << Point, 0, 0, 0, 1 >>), Entry("") >> >>,
     << << Rated0("*", << 0, Point, 0, 0, 0 >>), [token |-> "br", params |-> << [name |-> "level", value |-> << 1 >>] >>] >> >>,
     << << Entry("zstd"), Rated0("br", << Other >>) >>, << Rated0("zstd", << 1, Point, 0, 0, 1 >>), Rated0("deflate", << 1 >>) >> >>,
     << << Rated0("gzip", <<>>), Rated0("*", << 0, Point, 0, 0, 1 >>) >> >>}

RECURSIVE Section(_)
Section(fields) == IF fields = <<>> THEN NoFields ELSE With(Section(Front(fields)), Last(fields)[1], Last(fields)[2])
Each(word, values) == [i \in DOMAIN values |-> << word, values[i] >>]

Get(accepting, host) ==
    [Request("GET", "/", "HTTP/1.1") EXCEPT !.secure = TRUE, !.headers = Section(Each("accept-encoding", accepting) \o host)]
Coding2(body, codings) == [body EXCEPT !.kind = "data", !.coded = codings]
Bodies ==
    {<< body, <<>>, compression >> : body \in {Body("text", 2), Body("file", 3), Body("data", 0)}, compression \in {"none", "auto", "gzip"}}
    \cup {<< Coding2(Body("data", 2), << "br" >>), << << "content-encoding", Says("br") >> >>, compression >> : compression \in {"none", "zstd"}}
    \cup {<< Coding2(Body("data", 1), << "raw deflate" >>), << << "content-encoding", << Entry("identity"), Entry("deflate") >> >> >>, "none" >>,
          << Coding2(Body("data", 1), << "br", "gzip" >>), << << "content-encoding", << Entry("br"), Entry("x-gzip") >> >> >>, "auto" >>,
          << Coding2(Body("data", 1), << "other" >>), << << "content-encoding", Says("compress") >> >>, "auto" >>,
          << Coding2(Body("data", 9), << "gzip" >>), << << "content-encoding", Says("gzip") >> >>, "none" >>,
          << Body("data", 1), << << "content-encoding", Says("identity") >> >>, "auto" >>}
Lengths(body) == {<<>>, << << "content-length", Says(ToString(Length(body))) >> >>}
Carrying(made, bodied, more) ==
    [made EXCEPT !.body = bodied[1], !.compression = bodied[3], !.headers = Section(bodied[2] \o more)]

MCRequests ==
    {Get(accepting, <<>>) : accepting \in Accepting}
    \cup {Get(<<>>, << << "host", Says("other") >> >>), [Get(<<>>, <<>>) EXCEPT !.method = "HEAD"], [Get(<<>>, <<>>) EXCEPT !.target = "a b"],
          Request("CONNECT", "peer", "HTTP/1.1"),
          [Request("CONNECT", "/", "HTTP/2") EXCEPT !.headers = Section(<< << ":protocol", Says("websocket") >>, << "te", Says("trailers") >> >>)]}
    \cup {Carrying(Request("POST", "/", "HTTP/1.1"), bodied, <<>>) : bodied \in Bodies}

Listing(method) == << Field(":method", Says(method)), Field(":scheme", Says("http")), Field(":authority", Says("peer")), Field(":path", Says("/")) >>
MCForeign ==
    {Listing("GET"), Listing("POST") \o << Field("host", Says("other")), Field("x", Says("1")), Field("x", Says("2")) >>,
     Listing("CONNECT"), Listing("CONNECT") \o << Field(":protocol", Says("websocket")) >>,
     << Field(":method", Says("CONNECT")), Field(":authority", Says("peer")) >>,
     Listing("GET") \o << Field("connection", Says("close")) >>, Listing("GET") \o << Field("te", Says("gzip")) >>,
     Listing("GET") \o << Field("te", Says("trailers")), Field("accept-encoding", Says("br")) >>,
     Listing("GET") \o << Field("x", Says("ctl")) >>, Listing("GET") \o << Field(":status", Says("200")) >>,
     Listing("GET") \o << Field(":path", Says("/")) >>, Listing("GET") \o << Field(":other", Says("1")) >>,
     << Field("x", Says("1")) >> \o Listing("GET"), Listing("BREW"), Tail(Listing("GET")),
     Listing("GET") \o << [Field("x", Says("1")) EXCEPT !.name.lower = FALSE] >>,
     SubSeq(Listing("GET"), 1, 3), << Field(":method", Says("GET")), Field(":scheme", Says("http")), Field(":path", Says("a b")) >>,
     << Field(":method", Says("GET")), Field(":scheme", Says("http")), Field(":path", Says("/")) >>}

Changing(op, word, lower, value) == [op |-> op, name |-> [word |-> word, lower |-> lower], value |-> value]
MCEdits ==
    {Changing(op, word, lower, Says("1")) : op \in {"append", "insert", "remove"}, word \in {"x", "accept-encoding", "te"}, lower \in BOOLEAN}
    \cup {Changing("append", "connection", TRUE, Says("close")), Changing("append", "x", TRUE, Says("ctl")),
          Changing("append", "vary", FALSE, Says("x")), Changing("insert", "host", TRUE, Says("there"))}

Trailers == {NoFields, Section(<< << "x", Says("sum") >> >>)}
MCAnswers ==
    {[Carrying(Response(status, "HTTP/1.1"), bodied, length) EXCEPT !.trailers = trailers] :
        status \in {200}, bodied \in Bodies, trailers \in Trailers, length \in {<<>>}}
    \cup {Carrying(Response(200, "HTTP/1.1"), bodied, << << "content-length", Says(ToString(Length(bodied[1]))) >>, << "server", Says("own") >> >>) :
            bodied \in {b \in Bodies : b[1].kind # "file"}}
    \cup {[Response(status, "HTTP/1.1") EXCEPT !.body = Body("text", 2), !.compression = "gzip"] : status \in {204, 206, 304, 404}}
    \cup {Response(200, "HTTP/1.1")}

Coded9 == [Body("data", 3) EXCEPT !.coded = << "gzip" >>]
MCForeignAnswers ==
    {[fields |-> << Field(":status", Says("200")) >> \o fields, body |-> body] :
        fields \in {<<>>, << Field("content-encoding", Says("gzip")), Field("vary", Says("x")) >>, << Field("content-encoding", Says("br")) >>,
                     << Field("upgrade", Says("h2c")) >>, << Field("content-length", Says("4")), Field("set-cookie", Says("1")), Field("set-cookie", Says("2")) >>},
        body \in {NoBody, Coded9}}
    \cup {[fields |-> << Field(":status", Says("20")) >>, body |-> NoBody], [fields |-> << Field("x", Says("1")) >>, body |-> NoBody]}
=============================================================================

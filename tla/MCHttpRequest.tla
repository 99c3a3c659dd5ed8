---------------------------- MODULE MCHttpRequest ----------------------------
(* Requests for HttpRequest, at and beyond each limit (two headers, names of *)
(* at most 2, values of less than 3, two parameters of less than 3), and     *)
(* two with an "&" in the body, behind one or two parameters.                *)
EXTENDS HttpRequest, SequencesExt

Run(c, n) == [i \in 1..n |-> c]

HeaderText(h) == Run("k", h.key) \o <<"d">> \o Run("v", h.value) \o <<"d">>

H(k, v) == [key |-> k, value |-> v]

Request(method, urlText, hs, bodyText) ==
    [method |-> method, headers |-> hs,
     text |-> urlText \o <<"d">> \o FlattenSeq([i \in 1..Len(hs) |-> HeaderText(hs[i])])
              \o <<"e">> \o bodyText]

OneHeader == Request("POST", <<"u", "u", "?", "p", "&", "p">>, <<H(1, 1)>>, <<"b", "b", "b">>)
TwoHeaders == Request("POST", <<"u">>, <<H(2, 1), H(1, 2)>>, <<"b", "b">>)
ManyParams == Request("GET", <<"u", "?", "p", "p", "p", "&", "&", "p">>, <<H(1, 1)>>, <<"b">>)
NoBodySent == Request("POST", <<"u", "u", "u", "u">>, <<H(2, 2)>>, <<>>)
ThreeHeaders == Request("POST", <<"u">>, <<H(1, 1), H(1, 1), H(1, 1)>>, <<"b">>)
LongName == Request("POST", <<"u">>, <<H(3, 1)>>, <<"b">>)
LongValue == Request("POST", <<"u">>, <<H(1, 3)>>, <<"b">>)
AndInBody == Request("POST", <<"u", "?", "p">>, <<H(1, 1)>>, <<"&", "b">>)
AndInBoth == Request("POST", <<"u", "?", "p", "&", "p">>, <<>>, <<"b", "&">>)

AllRequests ==
    {OneHeader, TwoHeaders, ManyParams, NoBodySent, ThreeHeaders, LongName, LongValue, AndInBody, AndInBoth}

=============================================================================

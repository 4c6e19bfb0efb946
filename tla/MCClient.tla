------------------------------ MODULE MCClient -----------------------------
(* A host and its parent, which set cookies and policies for each other.   *)
EXTENDS Client, TLC

Parent == << "b", "c" >>
Child == << "a", "b", "c" >>
Address == << "1", "b", "c" >>
Url(host, path, secure) == [host |-> host, path |-> path, secure |-> secure]

Sibling == << "d", "b", "c" >>
MCUrls == {Url(Child, << "p", "q" >>, FALSE), Url(Parent, << "p" >>, TRUE), Url(Sibling, << "" >>, TRUE),
           Url(Address, << "" >>, TRUE)}
MCAddresses == {Address}
Response(max_age, subdomains, cookies) == [policy |-> Store!Policy(max_age, subdomains), cookies |-> cookies]

Brief == Jar!SetCookie("x", 1, Parent, << "" >>, FALSE, 1)
Own == Jar!SetCookie("x", 2, Jar!Absent, Jar!Absent, TRUE, Jar!Lasting)
TooWide == Jar!SetCookie("y", 1, << "c" >>, << "" >>, FALSE, Jar!Lasting)
Other == Jar!SetCookie("y", 2, Parent, << "p" >>, FALSE, Jar!Lasting)
TakenBack == Jar!SetCookie("x", 3, Parent, << "" >>, FALSE, 0)

MCResponses ==
    {Response(Store!Unparsable, FALSE, << Own, TooWide >>),
     Response(Store!Withdrawn, FALSE, << TakenBack >>),
     Response(1, TRUE, << Brief >>),
     Response(2, FALSE, <<>>),
     Response(3, TRUE, << Other >>)}
Symmetry == Permutations(Tasks)
=============================================================================

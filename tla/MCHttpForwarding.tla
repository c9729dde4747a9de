-------------------------- MODULE MCHttpForwarding --------------------------
EXTENDS HttpForwarding

Message(headers, junk, body) == [headers |-> headers, junk |-> junk, body |-> body]
Length(n) == <<Name("content-length"), <<n>>>>
For == <<<<"x-forwarded-for", 1>>, <<"proxy">>>>
Session == <<Name("cookie"), <<[name |-> "session", value |-> <<9>>]>>>>
Agent == <<<<"user-agent", 1>>, <<"curl">>>>

MCRequests == {Message(<<For, Agent, Session, Length(1)>>, <<>>, 1), Message(<<>>, <<Junk>>, 0)}
MCResponses == {Message(<<Length(1)>>, <<>>, 1), Message(<<>>, <<>>, 1)}
MCAdd == (Name("x-custom") :> <<"on">>)
MCRemove == {Name("user-agent")}

FewKinds == Cardinality(irregular) <= 2
=============================================================================

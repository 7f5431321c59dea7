-------------------------- MODULE MCRouteBuilders --------------------------
(* An instance of RouteBuilders: two kinds that relate to each other, one  *)
(* scope with a parameter, one middleware per tier, and a value that has   *)
(* to be percent-encoded.                                                  *)
EXTENDS RouteBuilders

MCEncoding == ("a/b" :> "a%2Fb")
MCSchemas == [article |-> <<[name |-> "comments", kind |-> "has_many"]>>,
              comment |-> <<[name |-> "article", kind |-> "belongs_to"]>>]
MCLeaves == {<<Static("x"), Glob("")>>, <<Glob(""), Static("x")>>, <<Glob("tail")>>, <<Param("id")>>}
MCSegments == {<<Param("tenant")>>, <<Param("id")>>}
MCConfigs == {[readOnly |-> FALSE, segment |-> Default, keyword |-> Default],
              [readOnly |-> TRUE, segment |-> "replies", keyword |-> "links"]}
MCResources == {[kind |-> "article", segments |-> <<Static("articles")>>, readOnly |-> FALSE],
                [kind |-> "article", segments |-> <<Static("archive")>>, readOnly |-> TRUE],
                [kind |-> "comment", segments |-> <<Static("comments")>>, readOnly |-> FALSE]}
=============================================================================

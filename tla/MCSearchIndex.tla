---------------------------- MODULE MCSearchIndex ----------------------------
(* A small instance of SearchIndex: thresholds scaled down so that three    *)
(* items split and merge, two bodies that share words, prefixes and grams.  *)
EXTENDS SearchIndex

Texts == {"github", "gitlab", "git", "hub", "gitlap", "mail", "password", "username", "ann", "s3cret", "https://hub"}
MCWordsOf == [t \in Texts |-> IF t = "https://hub" THEN {"hub"} ELSE {t}]
MCTrigramsOf ==
    [t \in Texts |-> CASE t = "github" -> {"git", "ith", "thu", "hub"}
                       [] t = "gitlab" -> {"git", "itl", "tla", "lab"}
                       [] t = "gitlap" -> {"git", "itl", "tla", "lap"}
                       [] t = "git"    -> {"git"}
                       [] t = "hub"    -> {"hub"}
                       [] t = "mail"   -> {"mai", "ail"}
                       [] OTHER        -> {}]
MCExtensions == [t \in Texts |-> IF t = "git" THEN {"github", "gitlab"} ELSE {}]
MCHostOf == [t \in {"https://hub"} |-> "hub"]

MCPayload ==
    { [title |-> "github", tags |-> {"mail"}, fields |-> {}, urls |-> {"https://hub"},
       type |-> "login", folder |-> {}, favorite |-> TRUE],
      [title |-> "gitlab", tags |-> {}, urls |-> {},
       fields |-> {[name |-> "password", kind |-> "hidden", value |-> "s3cret"],
                   [name |-> "username", kind |-> "text", value |-> "ann"]},
       type |-> "note", folder |-> {"f1"}, favorite |-> FALSE] }

MCQuery == { <<>>, << <<"", "git">> >>, << <<"", "hub">>, <<"type", "login">> >>,
             << <<"fav", "">> >>, << <<"", "gitlap">>, <<"folder", "f1">> >>, << <<"", "ann">>, <<"vault", "v">> >>, << <<"", "s3cret">> >> }

=============================================================================

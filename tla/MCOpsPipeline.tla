---------------------------- MODULE MCOpsPipeline ----------------------------
(* The pipeline on two boards. t1 runs on both, t2 on the first only, t3 is *)
(* not listed and needs two devices.                                        *)
EXTENDS OpsPipeline, TLC

CONSTANTS b1, b2

MCBoards == {b1, b2}
MCPaths == {"t1", "t2", "t3", "src", "doc"}
MCIds == {"one", "two", "auto-t1", "auto-t2", "auto-t3", "auto-src", "auto-doc"}
MCAutoId == ("t1" :> "auto-t1") @@ ("t2" :> "auto-t2") @@ ("t3" :> "auto-t3")
            @@ ("src" :> "auto-src") @@ ("doc" :> "auto-doc")

MCConfig == [sum |-> "config", full |-> {}, noEffect |-> {"doc"}, devices |-> [b \in MCBoards |-> 1],
             rules |-> {[id |-> "rule", paths |-> {"src"}, ids |-> {"two"}]},
             listed |-> {[id |-> "one", test |-> "t1", boards |-> MCBoards, devices |-> 1],
                         [id |-> "two", test |-> "t2", boards |-> {b1}, devices |-> 1]}]
MCRepo == [files |-> MCPaths, tests |-> {"t1", "t2", "t3"},
           needs |-> ("t1" :> 1) @@ ("t2" :> 1) @@ ("t3" :> 2)]
MCEnv == [sum |-> "env", qualified |-> TRUE, build |-> "build", image |-> "image",
          profiles |-> [b \in MCBoards |-> "profile"], evidence |-> [b \in MCBoards |-> {1, 2, 3}]]

MCMade == [succeeded |-> TRUE, sail |-> "tested", build |-> "build",
           wheels |-> [found |-> "wheels", recorded |-> "wheels", sail |-> "tested"]]

MCChange(paths) == [base |-> "base", head |-> "head", tested |-> "tested", complete |-> TRUE,
                    paths |-> paths]
MCSelections == {make_selection(MCConfig, MCRepo, MCEnv, MCChange(paths), "build", "image", FALSE) :
                   paths \in {{"doc"}, {"doc", "src"}, {"t1"}}}
=============================================================================

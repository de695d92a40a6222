------------------------------ MODULE MCTasks ------------------------------
(***************************************************************************)
(* Model values for TLC: three reserves with the settings of the test      *)
(* market, one of them with the symbol that is not in upper case.          *)
(***************************************************************************)
EXTENDS ReserveTasks

MCReserve   == {"WETH", "wstETH", "USDC"}
MCOrder     == <<"WETH", "wstETH", "USDC">>
MCCapKnown  == {"WETH", "USDC"}
MCWanted    == [ceiling   |-> {"wstETH"}, isolation |-> {"USDC"},
                emode     |-> {"USDC"},   fee       |-> {"WETH", "USDC"}]
MCFound     == {[k \in Reviewed |-> S] : S \in {{}, {"WETH", "USDC"}}}
MCMenu      == {{"hook", "review-stable-borrow"}, {"review-rate-strategies"},
                {"hook", "hook and transfer", "review-e-mode"}, {"review-supply-caps"},
                {"lending-gauge", "hook and transfer"}, {"upgrade-htokens"}}

=============================================================================

---------------------------- MODULE MCInventory ----------------------------
\* Inventory of a hub with two intents in up to two languages.
EXTENDS Inventory

English(i) == [intent |-> i, lang |-> "en-us"]
French(i) == [intent |-> i, lang |-> "fr-fr"]

\* Nothing; French only, so that en-us lists nothing; one intent in both.
MCCatalogues == {{}, {French("time"), French("news")},
                 {English("time"), French("time"), English("news")}}

\* Types with entries that are none; unreadable; too long; nothing usable.
MCAllowLists == {<<"number", "type", "blank", "type">>, <<"type", "malformed">>,
                 <<"overlong", "type">>, <<"number">>, <<"nul", "wide">>}
=============================================================================

----------------------------- MODULE MCSanitizer -----------------------------
EXTENDS Sanitizer

MCAttrOrder == <<"class", "color", "data-mx-color", "href", "src">>

MCWildMatch == {<<"language-*", "language-rust">>, <<"lang*", "language-rust">>, <<"big", "big">>}

Attr(name, scheme, classes) == [name |-> name, scheme |-> scheme, classes |-> classes]

\* SanitizerConfig::new
New ==
    [mode |-> "none", replace_elements |-> {}, remove_elements |-> {}, remove_reply_fallback |-> FALSE,
     ignore_elements |-> {}, allow_elements |-> {}, replace_attrs |-> {}, remove_attrs |-> {},
     allow_attrs |-> {}, deny_schemes |-> {}, allow_schemes |-> {}, remove_classes |-> {},
     allow_classes |-> {}, max_depth |-> {}]

List(override, content) == {[override |-> override, content |-> content]}

Strict == [New EXCEPT !.mode = "strict"]

\* Html::sanitize
Compat == [New EXCEPT !.mode = "compat", !.remove_reply_fallback = TRUE]

\* Lists that add to a mode, and a depth that documents reach.
Added ==
    [Strict EXCEPT !.replace_elements = List(FALSE, {<<"x", "font">>}), !.allow_attrs = List(FALSE, {<<"p", "class">>}),
                   !.allow_classes = List(FALSE, {<<"p", "big">>}), !.remove_classes = {<<"p", "lang*">>},
                   !.replace_attrs = List(FALSE, {<<"p", "color", "class">>}), !.max_depth = {2}]

\* Lists instead of a mode's tables.
Override ==
    [Strict EXCEPT !.allow_elements = List(TRUE, {"x", "font"}), !.allow_schemes = List(TRUE, {<<"x", "src", {"mxc"}>>}),
                   !.replace_elements = List(TRUE, {<<"p", "font">>}), !.allow_attrs = List(TRUE, {<<"x", "src">>})]

\* No mode: what is not named stays.
Plain ==
    [New EXCEPT !.ignore_elements = {"x"}, !.remove_elements = {"p"}, !.remove_attrs = {<<"a", "color">>},
                !.deny_schemes = {<<"a", "href", {"http"}>>}, !.max_depth = {3}]

MCConfigs == {Strict, Compat, Added, Override, Plain}

Href(scheme) == Element("a", {Attr("href", scheme, <<>>)})

MCTags ==
    [c \in MCConfigs |->
        CASE c = Strict -> {Text, Element("x", {}), Element("font", {Attr("color", "", <<>>), Attr("class", "", <<"big">>)}),
                            Element("code", {Attr("class", "", <<"language-rust", "big">>)})}
          [] c = Compat -> {Other, Element("mx-reply", {}), Href("matrix"),
                            Element("a", {Attr("class", "", <<>>), Attr("href", "mxc", <<>>)})}
          [] c = Added -> {Text, Element("x", {Attr("color", "", <<>>)}),
                           Element("p", {Attr("class", "", <<"big", "language-rust">>), Attr("color", "", <<>>)})}
          [] c = Override -> {Element("x", {Attr("src", "mxc", <<>>)}), Element("x", {Attr("src", "http", <<>>)}),
                              Element("p", {Attr("href", "http", <<>>)})}
          [] c = Plain -> {Text, Element("x", {}), Element("a", {Attr("href", "http", <<>>)}),
                           Element("p", {})}]

MCEfforts == {<<3, 1>>, <<4, 0>>}

=============================================================================

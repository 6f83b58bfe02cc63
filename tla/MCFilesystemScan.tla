--------------------------- MODULE MCFilesystemScan ---------------------------
(* A plain tree with two levels of directories, and a tree with every kind   *)
(* of link: to a file, to a link, to the directory above, out of the root to *)
(* a directory that sorts after it, and to nothing.                          *)
EXTENDS FilesystemScan

MCRoot == <<1>>

Tree(dirs, files, links, others) ==
    [kind |-> [p \in dirs \cup files \cup DOMAIN links \cup others |->
                  IF p \in dirs THEN "dir" ELSE IF p \in files THEN "file"
                  ELSE IF p \in others THEN "other" ELSE "link"],
     target |-> links]

NoLinks == [p \in {} |-> NoPath]

PlainTree ==
    Tree({<<1>>, <<1, 2>>, <<1, 2, 2>>, <<1, 4>>},
         {<<1, 1>>, <<1, 2, 1>>, <<1, 2, 2, 1>>, <<1, 2, 3>>, <<1, 3>>, <<1, 4, 1>>},
         NoLinks, {<<1, 5>>})

LinkTree ==
    Tree({<<1>>, <<1, 4>>, <<2>>}, {<<1, 1>>, <<1, 4, 1>>, <<2, 1>>},
         [p \in {<<1, 2>>, <<1, 3>>, <<1, 4, 2>>, <<1, 5>>, <<1, 6>>} |->
             CASE p = <<1, 2>> -> <<2, 1>>
               [] p = <<1, 3>> -> <<2>>
               [] p = <<1, 4, 2>> -> <<1>>
               [] p = <<1, 5>> -> <<1, 2>>
               [] p = <<1, 6>> -> <<3>>], {})

FileTree == Tree({}, {<<1>>}, NoLinks, {})
FileLinkTree == Tree({<<1>>}, {<<1, 1>>, <<1, 3>>, <<1, 4>>, <<2>>},
                     [p \in {<<1, 2>>} |-> <<2>>], {})
LinkRootTree == Tree({<<2>>}, {<<2, 1>>}, [p \in {<<1>>} |-> <<2>>], {})

MCTrees == {PlainTree, LinkTree, FileTree, FileLinkTree, LinkRootTree}
===============================================================================

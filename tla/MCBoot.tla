------------------------------- MODULE MCBoot -------------------------------
(***************************************************************************)
(* What loaders hand to module Boot.                                       *)
(***************************************************************************)
EXTENDS Boot

\* No framebuffer; one after the memory map; one behind the end tag.
LoaderTags == {<<6, EndTag>>,
               <<6, MB2_TAG_FRAMEBUFFER, EndTag>>,
               <<6, EndTag, MB2_TAG_FRAMEBUFFER>>}

=============================================================================

SPECIFICATION ConfigSpec
CONSTANT MaxNamed = 1
PROPERTY OmittedFieldsKept
